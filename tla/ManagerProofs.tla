------------------------------ MODULE ManagerProofs ------------------------------
(* Theorems about the parts of the manager, for every value of their constants.    *)
EXTENDS MCManager, FiniteSetTheorems, WellFoundedInduction, TLAPS

--------------------------------------------------------------------------------
(* Writes to an entry.                                                           *)

WritesInv == W!TypeOK /\ W!ForeignIsKept

LEMMA WritesInit == W!Init => WritesInv
BY DEF W!Init, WritesInv, W!TypeOK, W!ForeignIsKept, W!Entries, W!Nowhere, W!Link, W!Places

\* A write that is let through meets no link it follows.
LEMMA AdmittedFollowsNoLink ==
    ASSUME NEW class_, NEW authorized, NEW target, W!Admitted(W!Disposition(class_, authorized, target)),
           target.kind \in {"absent", "file", "symlink"}
    PROVE  W!Reached(target, W!Disposition(class_, authorized, target)) = {}
BY DEF W!Admitted, W!Disposition, W!Reached

LEMMA EntryKinds ==
    \A e \in W!Entries : e.kind \in {"absent", "file", "symlink"}
BY DEF W!Entries, W!Nowhere, W!Regular, W!Link

LEMMA WriteStep ==
    ASSUME WritesInv, NEW c \in W!Classes, NEW a \in BOOLEAN, W!Write(c, a)
    PROVE  WritesInv'
<1> DEFINE d == W!Disposition(c, a, entry)
<1>1. entry \in W!Entries /\ W!Reached(entry, d) = {}
  BY EntryKinds, AdmittedFollowsNoLink DEF WritesInv, W!TypeOK, W!Write
<1> HIDE DEF d
<1>2. foreign' = [p \in W!Places |-> TRUE] /\ displaced' = {}
  BY <1>1 DEF WritesInv, W!TypeOK, W!ForeignIsKept, W!Write, W!BacksUp, d
<1>3. entry' \in W!Entries
  BY DEF W!Write, W!EntryAfter, W!Entries, W!Regular, W!Link
<1>4. backup' \in W!Entries \union {[e EXCEPT !.kind = "saved"] : e \in W!Entries}
  BY <1>1 DEF WritesInv, W!TypeOK, W!Write
<1> QED
  BY <1>2, <1>3, <1>4 DEF WritesInv, W!TypeOK, W!ForeignIsKept, W!Write

LEMMA WriteBackupStep ==
    ASSUME WritesInv, W!Backup
    PROVE  WritesInv'
<1> DEFINE d == W!Disposition("backup", FALSE, backup)
<1>1. backup.kind \in {"absent", "file", "symlink"}
  <2>1. CASE backup \in W!Entries
    BY <2>1, EntryKinds
  <2>2. CASE backup \in {[e EXCEPT !.kind = "saved"] : e \in W!Entries}
    BY <2>2 DEF W!Backup, W!Entries, W!Nowhere, W!Regular, W!Link
  <2> QED
    BY <2>1, <2>2 DEF WritesInv, W!TypeOK
<1>2. W!Reached(backup, d) = {}
  BY <1>1, AdmittedFollowsNoLink DEF W!Backup
<1> HIDE DEF d
<1>3. foreign' = [p \in W!Places |-> TRUE]
  BY <1>2 DEF WritesInv, W!TypeOK, W!ForeignIsKept, W!Backup, d
<1> QED
  BY <1>3 DEF WritesInv, W!TypeOK, W!ForeignIsKept, W!Backup, W!Entries

LEMMA WritesStep ==
    ASSUME WritesInv, W!Next \/ UNCHANGED writesVars
    PROVE  WritesInv'
<1>1. ASSUME NEW e \in W!Entries, W!Plant(e) \/ W!PlantBackup(e) PROVE WritesInv'
  BY <1>1 DEF WritesInv, W!TypeOK, W!ForeignIsKept, W!Plant, W!PlantBackup
<1>2. ASSUME NEW x \in W!Places \union {None}, W!Reroute(x) PROVE WritesInv'
  BY <1>2 DEF WritesInv, W!TypeOK, W!ForeignIsKept, W!Reroute
<1>3. CASE W!Forget
  BY <1>3 DEF WritesInv, W!TypeOK, W!ForeignIsKept, W!Forget
<1>4. CASE UNCHANGED writesVars
  BY <1>4 DEF WritesInv, W!TypeOK, W!ForeignIsKept, writesVars
<1> QED
  BY <1>1, <1>2, <1>3, <1>4, WriteStep, WriteBackupStep DEF W!Next

--------------------------------------------------------------------------------
(* What a managed home is provisioned from.                                      *)

\* A record is of the provision that made the configuration of the home.
RecordIsOfConfig ==
    record # None =>
        \E r \in H!Revisions, c \in H!Configs :
            homeConfig = H!Seeded(r, c) /\ record = H!RecordOf(r, c)
SeedsInv == H!TypeOK /\ RecordIsOfConfig

LEMMA SeedsInit == H!Init => SeedsInv
BY DEF H!Init, SeedsInv, H!TypeOK, RecordIsOfConfig

LEMMA SeedShape ==
    ASSUME NEW r \in H!Revisions, NEW c \in H!Configs
    PROVE  /\ H!Seeded(r, c) \in H!Configs
           /\ H!RecordOf(r, c).revision = r /\ H!RecordOf(r, c).servers = c.servers
           /\ H!Seeded(r, c).servers = IF r = "A" THEN c.servers ELSE {}
           /\ c.servers \subseteq Servers
BY DEF H!Seeded, H!Configs, H!RecordOf

LEMMA ProvisionStep ==
    ASSUME SeedsInv, H!Provision
    PROVE  SeedsInv'
<1>1. native \in H!Configs /\ revision \in H!Revisions /\ selector \in Roots /\ homeBinding \in Bindings
  BY DEF SeedsInv, H!TypeOK, H!Provision
<1>2. origin' \in H!Origins /\ link' \in Roots
  BY <1>1 DEF H!Provision, H!Origins
<1> QED
  BY <1>1, <1>2, SeedShape DEF SeedsInv, H!TypeOK, RecordIsOfConfig, H!Provision

LEMMA SeedsStep ==
    ASSUME SeedsInv, H!Next \/ UNCHANGED seedsVars
    PROVE  SeedsInv'
<1>1. CASE H!Repair
  <2>1. origin \in H!Origins
    BY <1>1 DEF SeedsInv, H!TypeOK, H!Repair, H!Authority
  <2> QED
    BY <1>1, <2>1 DEF SeedsInv, H!TypeOK, RecordIsOfConfig, H!Repair, H!seed, H!Origins
<1>2. ASSUME NEW c \in H!Configs \union {None}, H!EditNative(c) PROVE SeedsInv'
  BY <1>2 DEF SeedsInv, H!TypeOK, RecordIsOfConfig, H!EditNative, H!root
<1>3. ASSUME NEW r \in H!Revisions, H!Upgrade(r) PROVE SeedsInv'
  BY <1>3 DEF SeedsInv, H!TypeOK, RecordIsOfConfig, H!Upgrade, H!root
<1>4. ASSUME NEW r \in Roots, H!MoveSelector(r) PROVE SeedsInv'
  BY <1>4 DEF SeedsInv, H!TypeOK, RecordIsOfConfig, H!MoveSelector, H!seed
<1>5. ASSUME NEW r \in Roots \union {None}, H!Relink(r) PROVE SeedsInv'
  BY <1>5 DEF SeedsInv, H!TypeOK, RecordIsOfConfig, H!Relink, H!seed
<1>6. ASSUME NEW b \in Bindings, H!Rebind(b) PROVE SeedsInv'
  BY <1>6 DEF SeedsInv, H!TypeOK, RecordIsOfConfig, H!Rebind, H!seed
<1>7. CASE UNCHANGED seedsVars
  BY <1>7 DEF SeedsInv, H!TypeOK, RecordIsOfConfig, seedsVars
<1> QED
  BY <1>1, <1>2, <1>3, <1>4, <1>5, <1>6, <1>7, ProvisionStep DEF H!Next

LEMMA SeedsHold ==
    ASSUME SeedsInv
    PROVE  H!StrippedIsStripped /\ H!LinkLeadsHome
<1>1. H!StrippedIsStripped
  BY SeedShape DEF SeedsInv, RecordIsOfConfig, H!StrippedIsStripped, H!SeedStatus
<1>2. origin # None => origin.root # None
  BY PartsAssumption DEF H!SeedAssumption, SeedsInv, H!TypeOK, H!Origins
<1> QED
  BY <1>1, <1>2 DEF H!LinkLeadsHome, H!Authority

--------------------------------------------------------------------------------
(* The shell hook.                                                               *)

\* What is on record was approved.
RecordsAreApproved ==
    \A f \in HookFiles : approvals[f] # None => [file |-> f, bytes |-> approvals[f]] \in approved
HookInv ==
    /\ S!TypeOK /\ S!RanApproved /\ RecordsAreApproved
    /\ warned \in [Shells -> SUBSET HookFiles]

LEMMA HookInit == S!Init => HookInv
BY DEF S!Init, HookInv, S!TypeOK, S!RanApproved, RecordsAreApproved

LEMMA ApproveStep ==
    ASSUME HookInv, NEW f \in HookFiles, S!Approve(f)
    PROVE  HookInv'
<1>1. content[f] \in FileBytes
  BY DEF HookInv, S!TypeOK
<1> QED
  BY <1>1 DEF HookInv, S!TypeOK, S!RanApproved, RecordsAreApproved, S!Approve

\* A shell sources what is approved, or what it is told of at the latest then.
LEMMA ActivateStep ==
    ASSUME HookInv, NEW s \in Shells, NEW f \in HookFiles, S!Activate(s, f)
    PROVE  HookInv'
<1>1. content[f] \in FileBytes /\ approvals[f] \in FileBytes \union {None}
  BY DEF HookInv, S!TypeOK
<1>2. S!Trusted(f) => [file |-> f, bytes |-> content[f]] \in approved
  BY <1>1, PartsAssumption DEF S!HookAssumption, S!Trusted, HookInv, RecordsAreApproved
<1>3. ~S!Trusted(f) => f \in warned'[s]
  BY PartsAssumption DEF S!HookAssumption, S!Warnings, S!Activate, S!Diagnostic, HookInv
<1>4. \A t \in Shells : warned[t] \subseteq warned'[t]
  BY DEF S!Activate, HookInv
<1>5. warned' \in [Shells -> SUBSET HookFiles]
  BY DEF S!Activate, HookInv
<1>6. \A x \in ran' : x \in ran \/ (S!Sourced(f) /\ x = [shell |-> s, file |-> f, bytes |-> content[f]])
  BY DEF S!Activate
<1>7. S!TypeOK'
  BY <1>1, <1>6 DEF S!Activate, HookInv, S!TypeOK
<1>8. S!RanApproved'
  <2> SUFFICES ASSUME NEW x \in ran'
               PROVE  \/ [file |-> x.file, bytes |-> x.bytes] \in approved
                      \/ rollout = "A-warning" /\ x.file \in warned'[x.shell]
    BY DEF S!RanApproved, S!Activate
  <2>1. CASE x \in ran
    BY <2>1, <1>4 DEF HookInv, S!TypeOK, S!RanApproved
  <2>2. CASE x \notin ran
    BY <2>2, <1>2, <1>3, <1>6 DEF S!Sourced
  <2> QED  BY <2>1, <2>2
<1> QED
  BY <1>5, <1>7, <1>8 DEF S!Activate, HookInv, RecordsAreApproved

LEMMA HookStep ==
    ASSUME HookInv, S!Next \/ UNCHANGED hookVars
    PROVE  HookInv'
<1>1. ASSUME NEW f \in HookFiles, NEW b \in FileBytes, S!Edit(f, b) \/ S!Supply(f, b)
      PROVE  HookInv'
  BY <1>1 DEF HookInv, S!TypeOK, S!RanApproved, RecordsAreApproved, S!Edit, S!Supply
<1>2. ASSUME NEW f \in HookFiles, S!Revoke(f) PROVE HookInv'
  BY <1>2 DEF HookInv, S!TypeOK, S!RanApproved, RecordsAreApproved, S!Revoke
<1>3. CASE UNCHANGED hookVars
  BY <1>3 DEF HookInv, S!TypeOK, S!RanApproved, RecordsAreApproved, hookVars
<1> QED
  BY <1>1, <1>2, <1>3, ApproveStep, ActivateStep DEF S!Next

--------------------------------------------------------------------------------
(* Files that cannot be read.                                                    *)

FailureNames ==
    {"permission-denied", "io-error", "unparseable-content", "schema-invalid-content",
     "symlink-where-regular-required", "directory-where-file-expected", "parent-not-directory"}

\* What is gone has no bytes and cannot fail.
MissingIsBare ==
    /\ atPath = [kind |-> atPath.kind, failure |-> atPath.failure, bytes |-> atPath.bytes]
    /\ atPath.kind = "missing" => atPath.failure = None /\ atPath.bytes = None
ReadsInv == F!TypeOK /\ F!NothingIsLost /\ F!SaidAsItIs /\ MissingIsBare

LEMMA ReadFacts ==
    /\ F!Classes = {"marker", "lock", "seed", "passthrough", "backup-record"}
    /\ None \notin FailureNames
    /\ \A c \in F!Classes :
        /\ F!Applicable[c] \subseteq FailureNames
        /\ "permission-denied" \in F!Applicable[c] /\ "io-error" \in F!Applicable[c]
        /\ F!Usual[c] # "missing"
        /\ \A f \in FailureNames : F!KindWhen(c, f) # "missing"
    /\ F!Operations["marker"] = {"env-resolve"}
    /\ F!Operations["lock"] = {"env-resolve", "repair", "update"}
    /\ F!Operations["seed"] = {"provision"}
    /\ F!Operations["passthrough"] = {"env-resolve", "env-status"}
    /\ F!Operations["backup-record"] = {"env-status", "restore"}
    /\ "unparseable-content" \in F!Applicable["lock"]
<1>1. F!Classes = {"marker", "lock", "seed", "passthrough", "backup-record"}
  BY DEF F!Classes, F!Applicable
<1>2. None \notin FailureNames
  BY PartsAssumption DEF F!ReadAssumption, F!Lstat, F!Parse, F!Kind, FailureNames
<1>3. ASSUME NEW c \in F!Classes
      PROVE  /\ F!Applicable[c] \subseteq FailureNames
             /\ "permission-denied" \in F!Applicable[c] /\ "io-error" \in F!Applicable[c]
             /\ F!Usual[c] # "missing"
             /\ \A f \in FailureNames : F!KindWhen(c, f) # "missing"
  BY <1>1 DEF F!Applicable, F!Lstat, F!Parse, F!Kind, F!Usual, F!KindWhen, FailureNames
<1>4. /\ F!Operations["marker"] = {"env-resolve"}
      /\ F!Operations["lock"] = {"env-resolve", "repair", "update"}
      /\ F!Operations["seed"] = {"provision"}
      /\ F!Operations["passthrough"] = {"env-resolve", "env-status"}
      /\ F!Operations["backup-record"] = {"env-status", "restore"}
  BY <1>1 DEF F!Operations
<1>5. "unparseable-content" \in F!Applicable["lock"]
  BY DEF F!Applicable, F!Parse
<1> QED  BY <1>1, <1>2, <1>3, <1>4, <1>5

\* What is known is exactly what is absent, and what fails is never acted on.
LEMMA AnswerFacts ==
    ASSUME NEW c \in F!Classes, NEW op_ \in F!Operations[c], NEW f \in FailureNames \union {None},
           NEW o, o = F!Expected(c, op_, f)
    PROVE  /\ o.currency = "known" <=> f = None
           /\ f # None => o.does = {}
           /\ "provisioning_continues" \in o.does => c = "seed"
           /\ "written" \notin o.does
<1>1. CASE f = None
  BY <1>1, ReadFacts DEF F!Expected, F!Absent, F!Said
<1>2. CASE f # None
  <2>1. o.currency = "unknown" /\ o.does = {}
    BY <1>2, ReadFacts DEF F!Expected, F!Unread, F!Said
  <2> QED  BY <1>2, <2>1
<1> QED  BY <1>1, <1>2

\* No failing answer is one of those that fail the manager.
LEMMA NegativesDiffer ==
    ASSUME NEW c \in F!Classes, NEW op_ \in F!Operations[c], NEW n \in F!Negatives, n.class = c
    PROVE  n.said # F!Unread(c, op_)
<1>1. F!Unread(c, op_).currency = "unknown" /\ F!Unread(c, op_).does = {}
  BY ReadFacts DEF F!Unread, F!Said
<1>2. \A k \in F!Classes : \A x : F!Absent(k, x).currency = "known"
  BY ReadFacts DEF F!Absent, F!Said
<1>3. n.said.currency = "known" \/ n.said.does = F!Untouched
  <2>1. [F!Unread("lock", "repair") EXCEPT !.does = F!Untouched, !.refrains = F!NoLaunch].does
            = F!Untouched
    BY DEF F!Unread, F!Said
  <2>2. /\ F!Absent("marker", "env-resolve").currency = "known"
        /\ F!Absent("lock", "env-resolve").currency = "known"
        /\ F!Absent("seed", "provision").currency = "known"
        /\ F!Absent("passthrough", "env-status").currency = "known"
        /\ F!Absent("backup-record", "env-status").currency = "known"
    BY <1>2, ReadFacts
  <2> DEFINE refused == [F!Unread("lock", "repair") EXCEPT !.does = F!Untouched, !.refrains = F!NoLaunch]
  <2>3. n.said \in {F!Absent("marker", "env-resolve"), F!Absent("lock", "env-resolve"),
                    F!Absent("seed", "provision"), F!Absent("passthrough", "env-status"),
                    F!Absent("backup-record", "env-status"), refused}
    BY DEF F!Negatives
  <2> HIDE DEF refused
  <2> QED  BY <2>1, <2>2, <2>3 DEF refused
<1> QED  BY <1>1, <1>3 DEF F!Untouched

\* Every answer is that of a scenario: of the absent file, or of one that fails.
LEMMA AnswersArePinned ==
    ASSUME NEW c \in F!Classes, NEW op_ \in F!Operations[c], NEW f \in FailureNames \union {None}
    PROVE  \E s \in F!Scenarios :
               /\ s.class = c /\ (s.failure = None <=> f = None)
               /\ F!Expected(s.class, s.operation, s.failure) = F!Expected(c, op_, f)
<1> DEFINE S_(k, x, y) == [class |-> k, operation |-> x, failure |-> y]
<1>1. ASSUME NEW x, NEW y, S_(c, x, y) \in F!Scenarios, y = None <=> f = None,
             f = None => F!Absent(c, x) = F!Absent(c, op_),
             f # None => F!Unread(c, x) = F!Unread(c, op_)
      PROVE  \E s \in F!Scenarios :
               /\ s.class = c /\ (s.failure = None <=> f = None)
               /\ F!Expected(s.class, s.operation, s.failure) = F!Expected(c, op_, f)
  <2>1. F!Expected(c, x, y) = F!Expected(c, op_, f)
    BY <1>1 DEF F!Expected
  <2> WITNESS S_(c, x, y) \in F!Scenarios
  <2> QED  BY <2>1, <1>1
<1>2. /\ \A x \in {None, "permission-denied"} :
             /\ S_("marker", "env-resolve", x) \in F!Scenarios
             /\ S_("lock", "env-resolve", x) \in F!Scenarios
             /\ S_("seed", "provision", x) \in F!Scenarios
             /\ S_("passthrough", "env-resolve", x) \in F!Scenarios
             /\ S_("passthrough", "env-status", x) \in F!Scenarios
             /\ S_("backup-record", "env-status", x) \in F!Scenarios
      /\ S_("lock", "repair", "permission-denied") \in F!Scenarios
      /\ S_("lock", "update", "unparseable-content") \in F!Scenarios
      /\ S_("backup-record", "restore", None) \in F!Scenarios
      /\ S_("backup-record", "restore", "io-error") \in F!Scenarios
  BY ReadFacts DEF F!Scenarios, F!LaunchScenarios, F!HomeScenarios, F!Pin
<1>3. "permission-denied" # None /\ "io-error" # None /\ "unparseable-content" # None
  BY ReadFacts DEF FailureNames
<1> HIDE DEF S_
<1>4. CASE c = "marker"
  BY <1>1, <1>2, <1>3, <1>4, ReadFacts
<1>5. CASE c = "lock"
  <2>1. \A x : F!Absent("lock", x) = F!Absent("lock", op_)
    BY DEF F!Absent
  <2>2. CASE f = None
    BY <1>1, <1>2, <1>5, <2>1, <2>2
  <2>3. CASE f # None
    BY <1>1, <1>2, <1>3, <1>5, <2>3, ReadFacts
  <2> QED  BY <2>2, <2>3
<1>6. CASE c = "seed"
  BY <1>1, <1>2, <1>3, <1>6, ReadFacts
<1>7. CASE c = "passthrough"
  BY <1>1, <1>2, <1>3, <1>7, ReadFacts
<1>8. CASE c = "backup-record"
  BY <1>1, <1>2, <1>3, <1>8, ReadFacts
<1> QED  BY <1>4, <1>5, <1>6, <1>7, <1>8, ReadFacts

LEMMA ReadsInit == F!Init => ReadsInv
<1> SUFFICES ASSUME F!Init PROVE ReadsInv
  OBVIOUS
<1>1. /\ atPath = [kind |-> F!Usual[class], failure |-> None, bytes |-> "own"]
      /\ atPath.kind # "missing"
  BY ReadFacts DEF F!Init, F!Whole
<1> QED
  BY <1>1 DEF F!Init, ReadsInv, F!TypeOK, F!NothingIsLost, F!SaidAsItIs, MissingIsBare


\* Whoever else puts something whole there, takes it away, breaks or mends it.
LEMMA EntryStep ==
    ASSUME ReadsInv, UNCHANGED <<class, seeded, report>>,
           \/ \E b \in {"own", "other"} : atPath' = F!Whole(class, b) /\ held' = b
           \/ \E k \in {"missing", "directory"} :
                  atPath' = [kind |-> k, failure |-> None, bytes |-> None] /\ held' = None
           \/ /\ atPath.kind # "missing" /\ held' = held
              /\ \E f \in F!Applicable[class] :
                     atPath' = [kind |-> F!KindWhen(class, f), failure |-> f, bytes |-> atPath.bytes]
           \/ held' = held /\ atPath.failure # None /\ atPath' = F!Whole(class, atPath.bytes)
    PROVE  ReadsInv'
<1>1. class \in F!Classes /\ F!Usual[class] # "missing"
  BY ReadFacts DEF ReadsInv, F!TypeOK
<1>2. \A f \in F!Applicable[class] : F!KindWhen(class, f) # "missing"
  BY <1>1, ReadFacts
<1>3. F!TypeOK'
  BY <1>1 DEF ReadsInv, F!TypeOK, F!Whole
<1>4. F!NothingIsLost' /\ MissingIsBare'
  BY <1>1, <1>2 DEF ReadsInv, F!NothingIsLost, MissingIsBare, F!Whole
<1>5. F!SaidAsItIs'
  BY DEF ReadsInv, F!SaidAsItIs
<1> QED  BY <1>3, <1>4, <1>5 DEF ReadsInv

LEMMA OperateStep ==
    ASSUME ReadsInv, NEW op_ \in F!Operations[class], F!Operate(op_)
    PROVE  ReadsInv'
<1> DEFINE o == F!Expected(class, op_, atPath.failure)
<1>1. class \in F!Classes /\ class' = class /\ atPath.failure \in FailureNames \union {None}
  BY ReadFacts DEF ReadsInv, F!TypeOK, F!Operate
<1>2. /\ o.currency = "known" <=> atPath.failure = None
      /\ atPath.failure # None => o.does = {}
      /\ "provisioning_continues" \in o.does => class = "seed"
      /\ "written" \notin o.does
  BY <1>1, AnswerFacts
<1>3. /\ report' = [operation |-> op_, failing |-> atPath.failure # None, absent |-> F!IsAbsent(op_), said |-> o]
      /\ seeded' = IF "provisioning_continues" \in o.does THEN [seed |-> None, left |-> held] ELSE seeded
      /\ atPath' = IF "written" \in o.does \/ "repair_relinks" \in o.does
                   THEN F!Whole(class, "made") ELSE atPath
      /\ held' = IF atPath.failure = None THEN atPath'.bytes ELSE held
      /\ F!InFamily(op_)
  BY DEF F!Operate, F!Answers
<1>4. F!IsAbsent(op_) <=> atPath.failure = None
  BY <1>3 DEF F!InFamily, F!IsAbsent, ReadsInv, MissingIsBare
<1>5. class = "seed" /\ atPath.failure = None => held = None
  BY <1>4 DEF F!IsAbsent, ReadsInv, MissingIsBare, F!NothingIsLost
<1>6. /\ atPath.failure # None => \A n \in F!Negatives : n.class = class => n.said # o
      /\ \E s \in F!Scenarios :
             /\ s.class = class /\ (s.failure = None <=> atPath.failure = None)
             /\ F!Expected(s.class, s.operation, s.failure) = o
  BY <1>1, AnswersArePinned, NegativesDiffer DEF F!Expected
<1> HIDE DEF o
<1>7. F!SaidAsItIs'
  BY <1>1, <1>2, <1>3, <1>4, <1>6 DEF F!SaidAsItIs
<1>8. F!TypeOK' /\ MissingIsBare'
  BY <1>1, <1>3, ReadFacts DEF ReadsInv, F!TypeOK, MissingIsBare, F!Whole
<1>9. F!NothingIsLost'
  BY <1>2, <1>3, <1>5 DEF ReadsInv, F!NothingIsLost, F!Whole
<1> QED  BY <1>7, <1>8, <1>9 DEF ReadsInv

LEMMA ReadsStep ==
    ASSUME ReadsInv, F!Next \/ UNCHANGED readVars
    PROVE  ReadsInv'
<1>1. CASE (\E f \in F!Applicable[class] : F!Break(f)) \/ F!Mend \/ F!Remove \/ F!Detach
           \/ \E b \in {"own", "other"} : F!Put(b)
  <2>1. ASSUME NEW f \in F!Applicable[class], F!Break(f)
        PROVE  ReadsInv'
    <3>1. atPath' = [kind |-> F!KindWhen(class, f), failure |-> f, bytes |-> atPath.bytes]
      BY <2>1 DEF F!Break, ReadsInv, MissingIsBare
    <3> QED  BY <2>1, <3>1, EntryStep DEF F!Break
  <2> QED  BY <1>1, <2>1, EntryStep DEF F!Mend, F!Remove, F!Missing, F!Detach, F!Put
<1>2. CASE F!Provision
  BY <1>2 DEF F!Provision, ReadsInv, F!TypeOK, F!NothingIsLost, F!SaidAsItIs, MissingIsBare
<1>3. CASE UNCHANGED readVars
  BY <1>3 DEF readVars, ReadsInv, F!TypeOK, F!NothingIsLost, F!SaidAsItIs, MissingIsBare
<1> QED  BY <1>1, <1>2, <1>3, OperateStep DEF F!Next

--------------------------------------------------------------------------------
(* Global operations.                                                            *)

\* An operation that has come so far has published what it wants.
WantsPublished ==
    doing # None =>
        /\ doing.phase \in {"stored", "published"} => doing.want \in published
        /\ doing.phase = "published" => doing.want = profileLock
        /\ doing.phase # "published" => profileLock < doing.want

\* Skills in place are of one lock before an operation and of that or the wanted one
\* during it; what the operation replaced was of the former, too.
OneSet(old) == \A s \in Surfaces : L!ManagedAt(s) => surface[s] = old
TwoSets(old) ==
    \A s \in Surfaces :
        /\ L!ManagedAt(s) => surface[s] = old \/ (doing.phase = "published" /\ surface[s] = doing.want)
        /\ doing.before[s] # None /\ doing.before[s] \notin Own => doing.before[s] = old
InStep == \E old \in 0 .. profileLock : IF doing = None THEN OneSet(old) ELSE TwoSets(old)

PublicationInv == L!TypeOK /\ WantsPublished /\ L!LockIsServed /\ InStep /\ L!OwnersIsKept

LEMMA PublicationFacts ==
    /\ MaxLocks \in Nat /\ None \notin Nat \union L!Operations
    /\ \A x \in Own : x \notin Nat /\ x # None
BY PartsAssumption DEF L!PublicationAssumption

LEMMA PublicationInit ==
    ASSUME L!Init
    PROVE  PublicationInv
<1>1. 0 \in L!Managed /\ 0 \in 0 .. 0
  BY PublicationFacts DEF L!Managed
<1>2. L!TypeOK
  BY <1>1 DEF L!Init, L!TypeOK, L!Places
<1>3. InStep
  BY <1>1 DEF L!Init, InStep, OneSet
<1> QED
  BY <1>2, <1>3 DEF L!Init, PublicationInv, WantsPublished, L!LockIsServed, L!OwnersIsKept

LEMMA ResolveStep ==
    ASSUME PublicationInv, L!Resolve
    PROVE  PublicationInv'
<1>1. profileLock \in Nat /\ profileLock + 1 \in L!Managed /\ doing = None
  BY PublicationFacts DEF PublicationInv, L!TypeOK, L!Resolve, L!Managed, L!Idle
<1>2. doing' = [takeover |-> FALSE, phase |-> "resolved", want |-> profileLock + 1, before |-> surface]
  BY DEF L!Resolve
<1>3. doing' \in L!Operations /\ doing' # None
  <2>1. surface \in [Surfaces -> L!Places]
    BY DEF PublicationInv, L!TypeOK
  <2>2. doing' \in L!Operations
    BY <1>1, <1>2, <2>1 DEF L!Operations
  <2> QED
    BY <2>2, PublicationFacts
<1>4. L!TypeOK'
  BY <1>3 DEF PublicationInv, L!TypeOK, L!Resolve, L!Managed, L!Places, L!Operations
<1>5. InStep'
  BY <1>1, <1>2, <1>3 DEF PublicationInv, InStep, OneSet, TwoSets, L!ManagedAt, L!Resolve
<1> QED
  BY <1>1, <1>2, <1>3, <1>4, <1>5 DEF PublicationInv, WantsPublished, L!LockIsServed, L!OwnersIsKept, L!Resolve

LEMMA PublishStoreStep ==
    ASSUME PublicationInv, L!PublishStore
    PROVE  PublicationInv'
<1>1. /\ doing \in L!Operations /\ doing # None /\ doing.phase = "resolved"
      /\ doing' = [doing EXCEPT !.phase = "stored"]
  BY DEF PublicationInv, L!TypeOK, L!PublishStore, L!At
<1>2. /\ doing' \in L!Operations /\ doing' # None
      /\ doing'.phase = "stored" /\ doing'.want = doing.want /\ doing'.before = doing.before
  BY <1>1, PublicationFacts DEF L!Operations
<1>3. doing.want \in L!Managed
  BY <1>1 DEF L!Operations
<1>4. L!TypeOK'
  BY <1>2, <1>3 DEF PublicationInv, L!TypeOK, L!PublishStore, L!Managed, L!Places, L!Operations
<1>5. InStep'
  BY <1>1, <1>2 DEF PublicationInv, InStep, TwoSets, L!ManagedAt, L!PublishStore
<1> QED
  BY <1>1, <1>2, <1>4, <1>5 DEF PublicationInv, WantsPublished, L!LockIsServed, L!OwnersIsKept, L!PublishStore

\* The surfaces are still as before the operation when its lock is published.
LEMMA PublishLockStep ==
    ASSUME PublicationInv, L!PublishLock
    PROVE  PublicationInv'
<1>1. /\ doing \in L!Operations /\ doing # None /\ doing.phase = "stored"
      /\ doing' = [doing EXCEPT !.phase = "published"] /\ profileLock' = doing.want
  BY DEF PublicationInv, L!TypeOK, L!PublishLock, L!At
<1>2. /\ doing' \in L!Operations /\ doing' # None
      /\ doing'.phase = "published" /\ doing'.want = doing.want /\ doing'.before = doing.before
  BY <1>1, PublicationFacts DEF L!Operations
<1>3. doing.want \in L!Managed /\ doing.want \in published
  BY <1>1 DEF PublicationInv, WantsPublished, L!Operations
<1>4. L!TypeOK'
  BY <1>1, <1>2, <1>3 DEF PublicationInv, L!TypeOK, L!PublishLock
<1>5. InStep'
  <2>1. PICK old \in 0 .. profileLock : TwoSets(old)
    BY <1>1 DEF PublicationInv, InStep
  <2>2. old \in 0 .. doing.want
    BY <1>1, <1>3, PublicationFacts DEF PublicationInv, WantsPublished, L!TypeOK, L!Managed
  <2> QED
    BY <1>1, <1>2, <2>1, <2>2 DEF InStep, TwoSets, L!ManagedAt, L!PublishLock
<1> QED
  BY <1>1, <1>2, <1>3, <1>4, <1>5 DEF PublicationInv, WantsPublished, L!LockIsServed, L!OwnersIsKept, L!PublishLock

LEMMA ReadLockStep ==
    ASSUME PublicationInv, L!ReadLock
    PROVE  PublicationInv'
<1>1. profileLock \in Nat /\ profileLock \in L!Managed /\ doing = None
  BY PublicationFacts DEF PublicationInv, L!TypeOK, L!ReadLock, L!Managed, L!Idle
<1>2. doing' = [takeover |-> TRUE, phase |-> "published", want |-> profileLock, before |-> surface]
  BY DEF L!ReadLock
<1>3. doing' \in L!Operations /\ doing' # None
  <2>1. surface \in [Surfaces -> L!Places]
    BY DEF PublicationInv, L!TypeOK
  <2>2. doing' \in L!Operations
    BY <1>1, <1>2, <2>1 DEF L!Operations
  <2> QED
    BY <2>2, PublicationFacts
<1>4. L!TypeOK'
  BY <1>3 DEF PublicationInv, L!TypeOK, L!ReadLock, L!Managed, L!Places, L!Operations
<1>5. InStep'
  BY <1>1, <1>2, <1>3 DEF PublicationInv, InStep, OneSet, TwoSets, L!ManagedAt, L!ReadLock
<1> QED
  BY <1>1, <1>2, <1>3, <1>4, <1>5 DEF PublicationInv, WantsPublished, L!LockIsServed, L!OwnersIsKept, L!ReadLock

LEMMA BackUpStep ==
    ASSUME PublicationInv, NEW s \in Surfaces, L!BackUp(s)
    PROVE  PublicationInv'
<1>1. L!TypeOK'
  BY DEF PublicationInv, L!TypeOK, L!BackUp
<1> QED
  BY <1>1 DEF PublicationInv, WantsPublished, L!LockIsServed, InStep, OneSet, TwoSets, L!ManagedAt, L!OwnersIsKept, L!BackUp

\* What stood where a skill is put is a skill of the former lock, or something of the
\* owner's of which there is a backup.
LEMMA MaterializeStep ==
    ASSUME PublicationInv, NEW s \in Surfaces, L!Materialize(s)
    PROVE  PublicationInv'
<1>1. /\ doing \in L!Operations /\ doing # None /\ doing.phase = "published"
      /\ doing' = [doing EXCEPT !.before[s] = surface[s]]
      /\ surface' = [surface EXCEPT ![s] = doing.want]
      /\ surface[s] # doing.want /\ surface[s] \in L!Places /\ surface \in [Surfaces -> L!Places]
  BY DEF PublicationInv, L!TypeOK, L!Materialize, L!At
<1>2. /\ doing' \in L!Operations /\ doing' # None
      /\ doing'.phase = "published" /\ doing'.want = doing.want
      /\ doing'.before = [doing.before EXCEPT ![s] = surface[s]]
      /\ doing.before \in [Surfaces -> L!Places]
  BY <1>1, PublicationFacts DEF L!Operations
<1>3. doing.want \in L!Managed /\ doing.want \notin Own
  BY <1>1, PublicationFacts DEF L!Operations, L!Managed
<1>4. L!TypeOK'
  BY <1>1, <1>2, <1>3 DEF PublicationInv, L!TypeOK, L!Materialize, L!Places
<1>5. InStep'
  <2>1. PICK old \in 0 .. profileLock : TwoSets(old)
    BY <1>1 DEF PublicationInv, InStep
  <2>2. ASSUME NEW t \in Surfaces
        PROVE  /\ L!ManagedAt(t)' => surface'[t] \in {old, doing.want}
               /\ doing'.before[t] # None /\ doing'.before[t] \notin Own => doing'.before[t] = old
    BY <1>1, <1>2, <2>1 DEF TwoSets, L!ManagedAt
  <2> QED
    BY <1>1, <1>2, <2>1, <2>2 DEF InStep, TwoSets, L!Materialize
<1>6. L!OwnersIsKept'
  BY <1>1, <1>3 DEF PublicationInv, L!TypeOK, L!OwnersIsKept, L!Materialize, L!Replaceable
<1> QED
  BY <1>1, <1>2, <1>4, <1>5, <1>6 DEF PublicationInv, WantsPublished, L!LockIsServed, L!Materialize

\* A conflict puts back what the operation replaced and nothing else.
LEMMA ConflictStep ==
    ASSUME PublicationInv, L!Conflict
    PROVE  PublicationInv'
<1>1. /\ doing \in L!Operations /\ doing # None /\ doing' = None
      /\ surface' = [s \in Surfaces |-> IF surface[s] = doing.want THEN doing.before[s] ELSE surface[s]]
      /\ surface \in [Surfaces -> L!Places]
  BY DEF PublicationInv, L!TypeOK, L!Conflict, L!RolledBack, L!At
<1>2. doing.before \in [Surfaces -> L!Places] /\ doing.want \in L!Managed /\ doing.want \notin Own
  BY <1>1, PublicationFacts DEF L!Operations, L!Managed
<1>3. L!TypeOK'
  BY <1>1, <1>2 DEF PublicationInv, L!TypeOK, L!Conflict
<1>4. InStep'
  <2>1. PICK old \in 0 .. profileLock : TwoSets(old)
    BY <1>1 DEF PublicationInv, InStep
  <2>2. ASSUME NEW s \in Surfaces, L!ManagedAt(s)'
        PROVE  surface'[s] = old
    BY <1>1, <2>1, <2>2 DEF TwoSets, L!ManagedAt
  <2>3. OneSet(old)'
    BY <2>2 DEF OneSet
  <2> QED
    BY <1>1, <2>1, <2>3 DEF InStep, L!Conflict
<1>5. L!OwnersIsKept'
  BY <1>1, <1>2 DEF PublicationInv, L!TypeOK, L!OwnersIsKept, L!Conflict
<1> QED
  BY <1>1, <1>3, <1>4, <1>5 DEF PublicationInv, WantsPublished, L!LockIsServed, L!Conflict

LEMMA FinishStep ==
    ASSUME PublicationInv, L!Finish
    PROVE  PublicationInv'
<1>1. doing.want = profileLock /\ profileLock \in 0 .. profileLock /\ doing # None
  BY PublicationFacts DEF PublicationInv, L!TypeOK, WantsPublished, L!Finish, L!At, L!Managed
<1>2. InStep'
  BY <1>1 DEF L!Finish, InStep, OneSet, L!ManagedAt
<1>3. L!TypeOK'
  BY DEF PublicationInv, L!TypeOK, L!Finish
<1> QED
  BY <1>2, <1>3 DEF PublicationInv, WantsPublished, L!LockIsServed, L!OwnersIsKept, L!Finish

\* The owner replaces skills or what was backed up before, never something else of
\* the owner's that still counts.
LEMMA PutStep ==
    ASSUME PublicationInv, NEW s \in Surfaces, NEW x \in Own, L!Put(s, x)
    PROVE  PublicationInv'
<1>1. surface' = [surface EXCEPT ![s] = x] /\ surface \in [Surfaces -> L!Places]
  BY DEF PublicationInv, L!TypeOK, L!Put
<1>2. L!TypeOK'
  BY <1>1 DEF PublicationInv, L!TypeOK, L!Put, L!Places
<1>3. InStep'
  BY <1>1 DEF PublicationInv, InStep, OneSet, TwoSets, L!ManagedAt, L!Put
<1>4. L!OwnersIsKept'
  BY <1>1 DEF PublicationInv, L!TypeOK, L!OwnersIsKept, L!Put
<1> QED
  BY <1>2, <1>3, <1>4 DEF PublicationInv, WantsPublished, L!LockIsServed, L!Put

LEMMA RemoveStep ==
    ASSUME PublicationInv, NEW s \in Surfaces, L!Remove(s)
    PROVE  PublicationInv'
<1>1. surface' = [surface EXCEPT ![s] = None] /\ surface \in [Surfaces -> L!Places]
  BY DEF PublicationInv, L!TypeOK, L!Remove
<1>2. L!TypeOK'
  BY <1>1 DEF PublicationInv, L!TypeOK, L!Remove, L!Places
<1>3. InStep'
  BY <1>1 DEF PublicationInv, InStep, OneSet, TwoSets, L!ManagedAt, L!Remove
<1>4. L!OwnersIsKept'
  BY <1>1 DEF PublicationInv, L!TypeOK, L!OwnersIsKept, L!Remove
<1> QED
  BY <1>2, <1>3, <1>4 DEF PublicationInv, WantsPublished, L!LockIsServed, L!Remove

LEMMA TakeStep ==
    ASSUME PublicationInv, NEW x \in Own, L!Take(x)
    PROVE  PublicationInv'
<1>1. L!TypeOK'
  BY DEF PublicationInv, L!TypeOK, L!Take
<1>2. L!OwnersIsKept'
  BY DEF PublicationInv, L!TypeOK, L!OwnersIsKept, L!Take
<1> QED
  BY <1>1, <1>2 DEF PublicationInv, WantsPublished, L!LockIsServed, InStep, OneSet, TwoSets, L!ManagedAt, L!Take

LEMMA PublicationStep ==
    ASSUME PublicationInv, L!Next \/ UNCHANGED publicationVars
    PROVE  PublicationInv'
<1>1. CASE UNCHANGED publicationVars
  BY <1>1 DEF publicationVars, PublicationInv, L!TypeOK, WantsPublished, L!LockIsServed, InStep, OneSet,
     TwoSets, L!ManagedAt, L!OwnersIsKept
<1>2. CASE L!Next
  BY <1>2, ResolveStep, PublishStoreStep, PublishLockStep, ReadLockStep, BackUpStep, MaterializeStep,
     ConflictStep, FinishStep, PutStep, RemoveStep, TakeStep DEF L!Next
<1> QED  BY <1>1, <1>2

LEMMA PublicationHolds ==
    ASSUME PublicationInv
    PROVE  L!SurfacesAreOneSet
BY DEF PublicationInv, InStep, OneSet, L!SurfacesAreOneSet, L!Idle

--------------------------------------------------------------------------------
(* Umbrella providers: what the search says follows from where it stops.          *)

LEMMA DirsFacts ==
    /\ InstallDir \in Dirs /\ None \notin Dirs /\ MaxList \in Nat
    /\ None # "subcommand_provider_missing" /\ None # "subcommand_provider_untrusted"
    /\ None # "subcommand_provider_outside_trust_roots" /\ None # "subcommand_provider_root_unreadable"
BY PartsAssumption DEF U!DirsAssumption, U!Diagnostics

\* A set of numbers has a least one.
LEMMA LeastOf ==
    ASSUME NEW T, T \in SUBSET Nat, T # {}
    PROVE  \E i \in T : \A j \in T : i <= j
<1> DEFINE less == OpToRel(<, Nat)
<1>1. T \subseteq Nat /\ T # {}
  OBVIOUS
<1>2. IsWellFoundedOn(less, Nat)
  BY NatLessThanWellFounded
<1>3. \A i, j \in Nat : <<j, i>> \in less <=> j < i
  BY DEF OpToRel
<1> HIDE DEF less
<1>4. PICK i \in T : \A j \in T : ~(<<j, i>> \in less)
  BY <1>1, <1>2, WFMin, Zenon
<1>5. ASSUME NEW j \in T PROVE i <= j
  <2>1. i \in Nat /\ j \in Nat /\ ~(<<j, i>> \in less)
    BY <1>1, <1>4, <1>5
  <2>2. ~(j < i)
    BY <1>3, <2>1
  <2> QED  BY <2>1, <2>2
<1> QED  BY <1>4, <1>5

\* The first of a sequence that is wanted, or none is.
LEMMA FirstWanted ==
    ASSUME NEW s \in Seq(Dirs), NEW wanted, NEW o, o = U!FirstOf(s, wanted)
    PROVE  \/ o = None /\ \A i \in DOMAIN s : s[i] \notin wanted
           \/ /\ o # None /\ o \in Dirs /\ o \in wanted
              /\ \E i \in DOMAIN s : o = s[i] /\ \A j \in 1 .. i - 1 : s[j] \notin wanted
<1> DEFINE found == {i \in DOMAIN s : s[i] \in wanted}
           least(i) == \A j \in found : i <= j
<1>1. CASE found = {}
  BY <1>1 DEF U!FirstOf
<1>2. CASE found # {}
  <2>1. DOMAIN s = 1 .. Len(s) /\ Len(s) \in Nat
    OBVIOUS
  <2>0. found \in SUBSET Nat
    BY <2>1
  <2> HIDE DEF found
  <2>2. \E i \in found : \A j \in found : i <= j
    BY <1>2, <2>0, LeastOf
  <2> USE DEF found
  <2>3. /\ (CHOOSE i \in found : least(i)) \in found
        /\ least(CHOOSE i \in found : least(i))
    BY <2>2
  <2>4. o = s[CHOOSE i \in found : least(i)]
    BY <1>2 DEF U!FirstOf
  <2> DEFINE k == CHOOSE i \in found : least(i)
  <2>5. k \in found /\ least(k) /\ o = s[k]
    BY <2>3, <2>4
  <2> HIDE DEF k
  <2>6. k \in DOMAIN s /\ s[k] \in wanted /\ s[k] \in Dirs
    BY <2>5
  <2>7. ASSUME NEW j \in 1 .. k - 1 PROVE s[j] \notin wanted
    BY <2>1, <2>5, <2>6
  <2> QED  BY <2>5, <2>6, <2>7, DirsFacts
<1> QED  BY <1>1, <1>2

LEMMA ListsAreSequences ==
    /\ U!Lists(MaxList) \subseteq Seq(Dirs) /\ << >> \in U!Lists(MaxList)
<1>1. ASSUME NEW k \in 0 .. MaxList, NEW s \in [1 .. k -> Dirs] PROVE s \in Seq(Dirs)
  BY DirsFacts
<1>2. << >> \in [1 .. 0 -> Dirs] /\ 0 \in 0 .. MaxList
  BY DirsFacts
<1> QED  BY <1>1, <1>2 DEF U!Lists, U!Distinct

LEMMA RootsFacts ==
    ASSUME NEW list \in Seq(Dirs)
    PROVE  /\ U!TrustRoots(list) \in Seq(Dirs)
           /\ \A d : U!InRoots(d, list) <=> d = InstallDir \/ \E i \in DOMAIN list : list[i] = d
           /\ \A d : U!InRoots(d, list) => d \in Dirs
<1>1. U!TrustRoots(list) \in Seq(Dirs) /\ Len(U!TrustRoots(list)) = Len(list) + 1
  BY DirsFacts DEF U!TrustRoots
<1>2. /\ U!TrustRoots(list)[1] = InstallDir
      /\ \A i \in DOMAIN list : U!TrustRoots(list)[i + 1] = list[i]
      /\ \A i \in DOMAIN U!TrustRoots(list) : i = 1 \/ (i - 1 \in DOMAIN list /\ U!TrustRoots(list)[i] = list[i - 1])
  BY DirsFacts DEF U!TrustRoots
<1>3. 1 \in DOMAIN U!TrustRoots(list) /\ \A i \in DOMAIN list : i + 1 \in DOMAIN U!TrustRoots(list)
  BY <1>1
<1> QED  BY <1>1, <1>2, <1>3 DEF U!InRoots

LEMMA Heeding ==
    ASSUME NEW list \in Seq(Dirs), NEW d \in Dirs
    PROVE  /\ Append(list, d) \in Seq(Dirs) /\ U!InRoots(d, Append(list, d))
           /\ \A x : U!InRoots(x, Append(list, d)) => x = d \/ U!InRoots(x, list)
<1>1. /\ Append(list, d) \in Seq(Dirs) /\ Len(Append(list, d)) = Len(list) + 1
      /\ DOMAIN Append(list, d) = 1 .. Len(list) + 1 /\ DOMAIN list = 1 .. Len(list) /\ Len(list) \in Nat
  OBVIOUS
<1>2. /\ Append(list, d)[Len(list) + 1] = d
      /\ \A i \in 1 .. Len(list) : Append(list, d)[i] = list[i]
  OBVIOUS
<1>3. \A i \in DOMAIN Append(list, d) : Append(list, d)[i] = d \/ (i \in DOMAIN list /\ Append(list, d)[i] = list[i])
  BY <1>1, <1>2
<1>4. Len(list) + 1 \in DOMAIN Append(list, d)
  BY <1>1
<1>5. /\ \A x : U!InRoots(x, list) <=> x = InstallDir \/ \E i \in DOMAIN list : list[i] = x
      /\ \A x : U!InRoots(x, Append(list, d)) <=>
            x = InstallDir \/ \E i \in DOMAIN Append(list, d) : Append(list, d)[i] = x
  BY <1>1, RootsFacts
<1> QED  BY <1>1, <1>2, <1>3, <1>4, <1>5

\* Where the search of revision B stops.
LEMMA StopFacts ==
    ASSUME NEW list \in Seq(Dirs), NEW stop, stop = U!Stop(list)
    PROVE  \/ /\ stop = None
              /\ \A d : U!InRoots(d, list) => d \notin U!Executables /\ d \notin unreadable
           \/ /\ stop # None /\ stop \in Dirs /\ U!InRoots(stop, list)
              /\ stop \in U!Executables \union unreadable
              /\ \E i \in DOMAIN U!TrustRoots(list) :
                    /\ U!TrustRoots(list)[i] = stop
                    /\ \A j \in 1 .. i - 1 : U!TrustRoots(list)[j] \notin U!Executables \union unreadable
<1>1. U!TrustRoots(list) \in Seq(Dirs)
  BY RootsFacts
<1>2. stop = U!FirstOf(U!TrustRoots(list), U!Executables \union unreadable)
  BY DEF U!Stop
<1> QED  BY <1>1, <1>2, FirstWanted DEF U!InRoots

UmbrellaInv ==
    /\ present \in [Dirs -> {"none", "plain", "executable"}]
    /\ listed \in U!Lists(MaxList) /\ path \in U!Lists(MaxList)
    /\ forbidden \subseteq Dirs /\ \A d \in unreadable : U!InRoots(d, listed)
    /\ release \in {"A", "B"} /\ (ranFrom = None \/ ranFrom = U!Outcome.resolved)

\* What either revision comes to.
LEMMA Matches ==
    ASSUME UmbrellaInv, NEW match, match = U!PathSearch(path)
    PROVE  match = None \/ (match # None /\ match \in Dirs /\ present[match] = "executable")
<1>1. path \in Seq(Dirs)
  BY ListsAreSequences DEF UmbrellaInv
<1> QED  BY <1>1, FirstWanted DEF U!PathSearch, U!Executables

LEMMA OutcomeOfA ==
    ASSUME UmbrellaInv, NEW match, match = U!PathSearch(path), NEW o, o = U!RevisionA(listed, path)
    PROVE  \/ match # None /\ o = U!Untrusted(match)
           \/ \E d \in Dirs : o = U!Unreadable(d)
           \/ o = U!Missing
           \/ /\ match # None /\ ~U!InsideForbidden(match) /\ unreadable = {}
              /\ U!InRoots(match, listed) => o = U!Runs(match)
              /\ ~U!InRoots(match, listed) => o = U!Warns(match)
<1> DEFINE failed == U!FirstOf(U!TrustRoots(listed), unreadable)
<1>1. listed \in Seq(Dirs) /\ U!TrustRoots(listed) \in Seq(Dirs)
  BY ListsAreSequences, RootsFacts DEF UmbrellaInv
<1>2. \/ failed = None /\ \A i \in DOMAIN U!TrustRoots(listed) : U!TrustRoots(listed)[i] \notin unreadable
      \/ failed # None /\ failed \in Dirs
  BY <1>1, FirstWanted
<1>3. failed = None => unreadable = {}
  BY <1>2 DEF UmbrellaInv, U!InRoots
<1>4. /\ match # None /\ U!InsideForbidden(match) => o = U!Untrusted(match)
      /\ match = None /\ failed # None => o = U!Unreadable(failed)
      /\ match # None /\ ~U!InsideForbidden(match) /\ failed # None => o = U!Unreadable(failed)
      /\ match = None /\ failed = None => o = U!Missing
      /\ match # None /\ ~U!InsideForbidden(match) /\ failed = None /\ U!InRoots(match, listed) => o = U!Runs(match)
      /\ match # None /\ ~U!InsideForbidden(match) /\ failed = None /\ ~U!InRoots(match, listed) => o = U!Warns(match)
  BY DEF U!RevisionA, U!InsideForbidden
<1> HIDE DEF failed
<1> QED  BY <1>2, <1>3, <1>4

LEMMA OutcomeOfB ==
    ASSUME NEW list, NEW s, NEW stop, stop = U!Stop(list), NEW o, o = U!RevisionB(list, s),
           NEW match, match = U!PathSearch(s)
    PROVE  /\ stop # None /\ stop \in unreadable => o = U!Unreadable(stop)
           /\ stop # None /\ stop \notin unreadable /\ U!InsideForbidden(stop) => o = U!Untrusted(stop)
           /\ stop # None /\ stop \notin unreadable /\ ~U!InsideForbidden(stop) => o = U!Runs(stop)
           /\ stop = None /\ match = None => o = U!Missing
           /\ stop = None /\ match # None => o = U!Untrusted(match)
BY DEF U!RevisionB, U!InsideForbidden

LEMMA UmbrellaShaped ==
    ASSUME UmbrellaInv
    PROVE  U!TypeOK
<1> DEFINE match == U!PathSearch(path)
           stop == U!Stop(listed)
           o == U!Outcome
<1>1. /\ match = None \/ (match # None /\ match \in Dirs)
      /\ listed \in Seq(Dirs) /\ None \notin Dirs
  BY Matches, ListsAreSequences, DirsFacts DEF UmbrellaInv
<1>2. CASE release = "A"
  <2>1. o = U!RevisionA(listed, path)
    BY <1>2 DEF U!Outcome
  <2>2. \/ match # None /\ (o = U!Untrusted(match) \/ o = U!Runs(match) \/ o = U!Warns(match))
        \/ \E d \in Dirs : o = U!Unreadable(d)
        \/ o = U!Missing
    BY <2>1, OutcomeOfA
  <2> HIDE DEF o, match
  <2>3. U!Shaped(o) /\ o.resolved \in Dirs \union {None}
    BY <1>1, <1>2, <2>2, DirsFacts DEF U!Shaped, U!Untrusted, U!Missing, U!Runs, U!Warns, U!Unreadable
  <2> QED  BY <1>2, <2>3 DEF U!TypeOK, UmbrellaInv, o
<1>3. CASE release = "B"
  <2>1. o = U!RevisionB(listed, path)
    BY <1>3 DEF U!Outcome
  <2>2. \/ stop # None /\ (o = U!Unreadable(stop) \/ o = U!Untrusted(stop) \/ o = U!Runs(stop))
        \/ match # None /\ o = U!Untrusted(match)
        \/ o = U!Missing
    BY <2>1, OutcomeOfB
  <2>3. stop = None \/ stop \in Dirs
    BY <1>1, StopFacts
  <2> HIDE DEF o, match, stop
  <2>4. U!Shaped(o) /\ o.resolved \in Dirs \union {None}
    BY <1>1, <2>2, <2>3, DirsFacts DEF U!Shaped, U!Untrusted, U!Missing, U!Runs, U!Unreadable
  <2> QED  BY <1>3, <2>4 DEF U!TypeOK, UmbrellaInv, o
<1> QED  BY <1>2, <1>3 DEF UmbrellaInv

LEMMA UmbrellaTrusted ==
    ASSUME UmbrellaInv
    PROVE  U!RunsTrusted
<1> SUFFICES ASSUME release = "B", ranFrom # None PROVE U!RunsTrusted
  BY DEF U!RunsTrusted
<1> DEFINE stop == U!Stop(listed)
<1>1. ranFrom = U!RevisionB(listed, path).resolved /\ listed \in Seq(Dirs)
  BY ListsAreSequences DEF UmbrellaInv, U!Outcome
<1>2. ASSUME NEW s
      PROVE  /\ U!RevisionB(listed, s).resolved # None =>
                    stop # None /\ stop \notin unreadable /\ ~U!InsideForbidden(stop)
             /\ stop # None /\ stop \notin unreadable /\ ~U!InsideForbidden(stop) =>
                    U!RevisionB(listed, s).resolved = stop
  <2> DEFINE o == U!RevisionB(listed, s)
             match == U!PathSearch(s)
  <2>1. /\ stop # None /\ stop \in unreadable => o = U!Unreadable(stop)
        /\ stop # None /\ stop \notin unreadable /\ U!InsideForbidden(stop) => o = U!Untrusted(stop)
        /\ stop # None /\ stop \notin unreadable /\ ~U!InsideForbidden(stop) => o = U!Runs(stop)
        /\ stop = None => o = U!Missing \/ (match # None /\ o = U!Untrusted(match))
    BY OutcomeOfB
  <2> HIDE DEF o, match, stop
  <2>2. /\ o.resolved # None => stop # None /\ stop \notin unreadable /\ ~U!InsideForbidden(stop)
        /\ stop # None /\ stop \notin unreadable /\ ~U!InsideForbidden(stop) => o.resolved = stop
    BY <2>1 DEF U!Missing, U!Untrusted, U!Unreadable, U!Runs
  <2> QED  BY <2>2 DEF o
<1>3. \/ stop = None
      \/ /\ stop \in U!Executables \union unreadable
         /\ \E i \in DOMAIN U!TrustRoots(listed) :
               /\ U!TrustRoots(listed)[i] = stop
               /\ \A j \in 1 .. i - 1 : U!TrustRoots(listed)[j] \notin U!Executables \union unreadable
  BY <1>1, StopFacts
<1>4. U!TrustRoots(listed) \in Seq(Dirs)
  BY <1>1, RootsFacts
<1> HIDE DEF stop
<1>5. /\ stop # None /\ stop \notin unreadable /\ ~U!InsideForbidden(stop) /\ ranFrom = stop
      /\ \A s : U!RevisionB(listed, s).resolved = ranFrom
  BY <1>1, <1>2
<1>6. PICK i \in DOMAIN U!TrustRoots(listed) :
               /\ U!TrustRoots(listed)[i] = stop
               /\ \A j \in 1 .. i - 1 : U!TrustRoots(listed)[j] \notin U!Executables \union unreadable
  BY <1>3, <1>5
<1>7. /\ \A j \in 1 .. i : U!TrustRoots(listed)[j] \notin unreadable
      /\ \A j \in 1 .. i - 1 : present[U!TrustRoots(listed)[j]] # "executable"
  <2>1. i \in Nat /\ \A j \in 1 .. i : U!TrustRoots(listed)[j] \in Dirs
    BY <1>4
  <2> QED  BY <1>5, <1>6, <2>1 DEF U!Executables
<1> QED  BY <1>5, <1>6, <1>7 DEF U!RunsTrusted, U!InsideForbidden

LEMMA UmbrellaForetold ==
    ASSUME UmbrellaInv
    PROVE  U!UpgradeForetold
<1> SUFFICES ASSUME release = "A", ranFrom # None PROVE U!UpgradeForetold
  BY DEF U!UpgradeForetold
<1> DEFINE match == U!PathSearch(path)
           o == U!RevisionA(listed, path)
           heeded == IF o.diagnostic = None THEN listed ELSE Append(listed, o.names)
           stop == U!Stop(heeded)
           then == U!RevisionB(heeded, path)
<1>1. /\ ranFrom = o.resolved /\ listed \in Seq(Dirs) /\ None \notin Dirs
      /\ match = None \/ (match \in Dirs /\ present[match] = "executable")
  BY ListsAreSequences, Matches, DirsFacts DEF UmbrellaInv, U!Outcome
<1>2. \/ match # None /\ o = U!Untrusted(match)
      \/ \E d \in Dirs : o = U!Unreadable(d)
      \/ o = U!Missing
      \/ /\ match # None /\ ~U!InsideForbidden(match) /\ unreadable = {}
         /\ U!InRoots(match, listed) => o = U!Runs(match)
         /\ ~U!InRoots(match, listed) => o = U!Warns(match)
  BY OutcomeOfA
<1> HIDE DEF match, o
<1>0. /\ match # None /\ ~U!InsideForbidden(match) /\ unreadable = {}
      /\ U!InRoots(match, listed) => o = U!Runs(match)
      /\ ~U!InRoots(match, listed) => o = U!Warns(match)
  BY <1>1, <1>2 DEF U!Untrusted, U!Unreadable, U!Missing
<1>3. /\ match = ranFrom /\ match \in Dirs /\ match \in U!Executables
      /\ U!InRoots(match, listed) => heeded = listed
      /\ ~U!InRoots(match, listed) => heeded = Append(listed, match)
  <2>1. match = ranFrom /\ match \in Dirs /\ match \in U!Executables
    BY <1>0, <1>1 DEF U!Runs, U!Warns, U!Executables
  <2>2. U!InRoots(match, listed) => heeded = listed
    BY <1>0 DEF U!Runs
  <2>3. ~U!InRoots(match, listed) => heeded = Append(listed, match)
    BY <1>0, DirsFacts DEF U!Warns
  <2> QED  BY <2>1, <2>2, <2>3
<1>4. /\ heeded \in Seq(Dirs) /\ U!InRoots(match, heeded)
      /\ \A x : U!InRoots(x, heeded) => x = match \/ U!InRoots(x, listed)
  BY <1>1, <1>3, Heeding
<1> HIDE DEF heeded
<1>5. stop # None /\ stop \in Dirs /\ U!InRoots(stop, heeded) /\ stop \in U!Executables
  BY <1>0, <1>3, <1>4, StopFacts
<1>6. /\ U!InsideForbidden(stop) => then = U!Untrusted(stop)
      /\ ~U!InsideForbidden(stop) => then = U!Runs(stop)
  BY <1>0, <1>5, OutcomeOfB
<1> HIDE DEF stop, then
<1>7. CASE stop = match
  <2>1. then.resolved = ranFrom
    BY <1>0, <1>3, <1>6, <1>7 DEF U!Runs
  <2> QED  BY <2>1 DEF U!UpgradeForetold, then, heeded, o
<1>8. CASE stop # match
  <2>1. /\ stop \in Dirs /\ stop # ranFrom /\ U!InRoots(stop, listed) /\ present[stop] = "executable"
        /\ stop \in {then.resolved, then.names}
    BY <1>3, <1>4, <1>5, <1>6, <1>8 DEF U!Runs, U!Untrusted, U!Executables
  <2> QED  BY <2>1 DEF U!UpgradeForetold, then, heeded, o
<1> QED  BY <1>7, <1>8

LEMMA UmbrellaAbsent ==
    ASSUME UmbrellaInv
    PROVE  U!MissingIsAbsent
<1> SUFFICES ASSUME release = "B", U!Outcome.diagnostic = "subcommand_provider_missing"
             PROVE  \A d \in Dirs : U!InRoots(d, listed) => d \notin unreadable /\ present[d] # "executable"
  BY DEF U!MissingIsAbsent
<1> DEFINE stop == U!Stop(listed)
<1>1. U!Outcome = U!RevisionB(listed, path)
  BY DEF U!Outcome
<1>2. stop # None => U!Outcome = U!Unreadable(stop) \/ U!Outcome = U!Untrusted(stop) \/ U!Outcome = U!Runs(stop)
  BY <1>1, OutcomeOfB
<1> HIDE DEF stop
<1>3. stop = None
  BY <1>2, DirsFacts DEF U!Untrusted, U!Unreadable, U!Runs
<1>4. listed \in Seq(Dirs)
  BY ListsAreSequences DEF UmbrellaInv
<1> QED  BY <1>3, <1>4, StopFacts DEF stop, U!Executables

LEMMA UmbrellaInit == U!Init => UmbrellaInv
BY ListsAreSequences DEF U!Init, UmbrellaInv

LEMMA OutcomeRests ==
    UNCHANGED <<present, listed, path, forbidden, unreadable, release>> => U!Outcome' = U!Outcome
<1> SUFFICES ASSUME UNCHANGED <<present, listed, path, forbidden, unreadable, release>>
             PROVE  U!Outcome' = U!Outcome
  OBVIOUS
<1>1. U!Executables' = U!Executables
  BY DEF U!Executables
<1>2. /\ U!RevisionA(listed, path)' = U!RevisionA(listed, path)
      /\ U!RevisionB(listed, path)' = U!RevisionB(listed, path)
  BY <1>1, Zenon DEF U!RevisionA, U!RevisionB, U!PathSearch, U!Stop, U!InsideForbidden
<1> QED  BY <1>2 DEF U!Outcome

LEMMA UmbrellaStep ==
    ASSUME UmbrellaInv, U!Next \/ UNCHANGED umbrellaVars
    PROVE  UmbrellaInv'
<1>1. CASE UNCHANGED umbrellaVars
  BY <1>1, OutcomeRests DEF umbrellaVars, UmbrellaInv
<1>2. ASSUME NEW d \in Dirs, NEW what \in {"none", "plain", "executable"}, U!Put(d, what) PROVE UmbrellaInv'
  BY <1>2 DEF U!Put, UmbrellaInv
<1>3. ASSUME NEW s \in U!Lists(MaxList), U!SetPath(s) \/ U!ListDirs(s) PROVE UmbrellaInv'
  BY <1>3 DEF U!SetPath, U!ListDirs, UmbrellaInv
<1>4. ASSUME NEW d \in Dirs, U!PublishInto(d) \/ U!Lose(d) PROVE UmbrellaInv'
  BY <1>4 DEF U!PublishInto, U!Lose, UmbrellaInv
<1>5. CASE U!Regain \/ U!Upgrade
  BY <1>5 DEF U!Regain, U!Upgrade, UmbrellaInv
<1>6. CASE U!Dispatch
  BY <1>6, OutcomeRests DEF U!Dispatch, UmbrellaInv
<1> QED  BY <1>1, <1>2, <1>3, <1>4, <1>5, <1>6 DEF U!Next

--------------------------------------------------------------------------------
(* Skill plans: a plan that is admissible is the one resolving would write.       *)

Made(l) ==
    /\ l = [nodes |-> l.nodes, edges |-> l.edges, constraints |-> l.constraints, members |-> l.members]
    /\ l.nodes = [s \in DOMAIN l.nodes |-> l.nodes[s]]
    /\ l.members = [s \in DOMAIN l.members |-> l.members[s]]
    /\ P!PlanIsShaped(l)
WellMade(l) == l = None \/ Made(l)

PlansInv ==
    /\ admitted \in [Skills -> Commits] /\ retagged \in Skills \union {None}
    /\ direct \in [Skills -> Commits \union {None}] /\ phaseOf \in P!Phases
    /\ WellMade(lock) /\ WellMade(pending) /\ WellMade(shown)
    /\ pending = None <=> phaseOf = "absent"

LEMMA PlansHold ==
    ASSUME PlansInv
    PROVE  P!TypeOK
BY DEF PlansInv, P!TypeOK, WellMade, Made

LEMMA VisitedAreSkills == P!Visited \subseteq Skills
BY DEF P!Visited, P!ReachedFrom

LEMMA DerivedIsMade ==
    ASSUME PlansInv, NEW l, l = P!Derived
    PROVE  Made(l)
<1> DEFINE nodes_ == [s \in P!Visited |-> admitted[s]]
           members_ == [s \in P!Visited |-> [commit |-> admitted[s], by |-> P!RequiredBy(P!Edges(nodes_), s)]]
<1>1. l = [nodes |-> nodes_, edges |-> P!Edges(nodes_), members |-> members_,
           constraints |-> [s \in {x \in P!Visited : direct[x] # None} |-> direct[s]]]
  BY DEF P!Derived
<1> DEFINE edges_ == P!Edges(nodes_)
           constraints_ == [s \in {x \in P!Visited : direct[x] # None} |-> direct[s]]
<1>2. /\ l = [nodes |-> nodes_, edges |-> edges_, members |-> members_, constraints |-> constraints_]
      /\ DOMAIN nodes_ = P!Visited /\ DOMAIN members_ = P!Visited
      /\ nodes_ = [s \in DOMAIN nodes_ |-> nodes_[s]] /\ members_ = [s \in DOMAIN members_ |-> members_[s]]
      /\ \A s \in P!Visited : nodes_[s] = admitted[s]
  BY <1>1
<1> HIDE DEF nodes_, members_, edges_, constraints_
<1> QED
  BY <1>2, VisitedAreSkills DEF Made, PlansInv, P!PlanIsShaped

\* A plan in which no check finds anything is the derived one.
LEMMA AdmissibleIsDerived ==
    ASSUME NEW l, WellMade(l), P!PlanError(l) = "none"
    PROVE  l = P!Derived /\ l # None
<1> DEFINE directs == {s \in DOMAIN l.nodes : direct[s] # None}
<1>1. /\ l # None
      /\ ~(\E s \in directs : direct[s] # l.nodes[s])
      /\ ~(\/ l.constraints # [s \in directs |-> direct[s]]
           \/ P!VisitFails(l.nodes) \/ ~P!Reached(l.nodes) \/ l.edges # P!Edges(l.nodes)
           \/ DOMAIN l.members # DOMAIN l.nodes
           \/ \E s \in DOMAIN l.nodes : l.nodes[s] # admitted[s]
                   \/ l.members[s] # [commit |-> l.nodes[s], by |-> P!RequiredBy(l.edges, s)])
  <2>1. CASE l = None
    BY <2>1 DEF P!PlanError
  <2>2. CASE l # None /\ \E s \in directs : direct[s] # l.nodes[s]
    BY <2>2 DEF P!PlanError
  <2>3. CASE l # None /\ ~(\E s \in directs : direct[s] # l.nodes[s])
    BY <2>3 DEF P!PlanError
  <2> QED  BY <2>1, <2>2, <2>3
<1>2. DOMAIN l.nodes = P!Visited
  BY <1>1 DEF P!Reached
<1>3. l.nodes = [s \in P!Visited |-> admitted[s]]
  BY <1>1, <1>2 DEF WellMade, Made
<1>4. l.edges = P!Edges([s \in P!Visited |-> admitted[s]])
  BY <1>1, <1>3
<1>5. l.members = [s \in P!Visited |-> [commit |-> admitted[s], by |-> P!RequiredBy(l.edges, s)]]
  BY <1>1, <1>2 DEF WellMade, Made
<1>6. l.constraints = [s \in {x \in P!Visited : direct[x] # None} |-> direct[s]]
  BY <1>1, <1>2
<1>7. l = [nodes |-> l.nodes, edges |-> l.edges, constraints |-> l.constraints, members |-> l.members]
  BY <1>1 DEF WellMade, Made
<1> QED  BY <1>1, <1>3, <1>4, <1>5, <1>6, <1>7, Zenon DEF P!Derived

LEMMA PlansInit == InitManager /\ part = "plans" => P!Init /\ PlansInv
BY PartsAssumption DEF InitManager, P!Init, PlansInv, P!SkillAssumption, P!Phases, WellMade

\* A plan that is edited keeps its shape.
LEMMA EditedIsMade ==
    ASSUME NEW l, Made(l), NEW n, NEW e, NEW c, NEW m, NEW r,
           r = [nodes |-> n, edges |-> e, constraints |-> c, members |-> m],
           n = [s \in DOMAIN n |-> n[s]], m = [s \in DOMAIN m |-> m[s]],
           DOMAIN n \subseteq Skills, DOMAIN m \subseteq Skills, \A s \in DOMAIN n : n[s] \in Commits
    PROVE  Made(r)
BY DEF Made, P!PlanIsShaped

LEMMA EditOutStep ==
    ASSUME PlansInv, NEW s \in Skills, P!EditOut(s)
    PROVE  PlansInv'
<1>1. Made(lock)
  BY DerivedIsMade DEF P!EditOut
<1> DEFINE n == P!Restrict(lock.nodes, DOMAIN lock.nodes \ {s})
           m == P!Restrict(lock.members, DOMAIN lock.members \ {s})
           e == {x \in lock.edges : s \notin {x.provider, x.consumer}}
<1>2. lock' = [nodes |-> n, edges |-> e, constraints |-> lock.constraints, members |-> m]
  BY <1>1 DEF P!EditOut, Made
<1>3. /\ n = [x \in DOMAIN n |-> n[x]] /\ m = [x \in DOMAIN m |-> m[x]]
      /\ DOMAIN n \subseteq Skills /\ DOMAIN m \subseteq Skills /\ \A x \in DOMAIN n : n[x] \in Commits
  BY <1>1 DEF Made, P!PlanIsShaped, P!Restrict
<1> HIDE DEF n, m, e
<1>4. Made(lock)'
  BY <1>2, <1>3 DEF Made, P!PlanIsShaped
<1>5. UNCHANGED <<admitted, retagged, direct, phaseOf, pending, shown>>
  BY DEF P!EditOut, P!facts
<1> QED
  BY <1>4, <1>5 DEF PlansInv, WellMade, Made, P!PlanIsShaped

LEMMA EditNodeStep ==
    ASSUME PlansInv, NEW s \in Skills, NEW c \in Commits, P!EditNode(s, c)
    PROVE  PlansInv'
<1>1. Made(lock)
  BY DerivedIsMade DEF P!EditNode
<1> DEFINE n == P!With(lock.nodes, s, c)
           m == P!With(lock.members, s, [commit |-> c, by |-> P!RequiredBy(lock.edges, s)])
<1>2. lock' = [nodes |-> n, edges |-> lock.edges, constraints |-> lock.constraints, members |-> m]
  BY <1>1 DEF P!EditNode, Made
<1>3. /\ n = [x \in DOMAIN n |-> n[x]] /\ m = [x \in DOMAIN m |-> m[x]]
      /\ DOMAIN n \subseteq Skills /\ DOMAIN m \subseteq Skills /\ \A x \in DOMAIN n : n[x] \in Commits
  BY <1>1 DEF Made, P!PlanIsShaped, P!With
<1> HIDE DEF n, m
<1>4. Made(lock)'
  BY <1>2, <1>3 DEF Made, P!PlanIsShaped
<1> QED
  BY <1>4 DEF P!EditNode, P!facts, PlansInv, WellMade, Made, P!PlanIsShaped

LEMMA EditEdgeStep ==
    ASSUME PlansInv, NEW e, P!EditEdge(e)
    PROVE  PlansInv'
<1>1. Made(lock)
  BY DerivedIsMade DEF P!EditEdge
<1> DEFINE edges_ == (lock.edges \ {e}) \union {[e EXCEPT !.mode = "full"]}
<1>2. lock' = [nodes |-> lock.nodes, edges |-> edges_, constraints |-> lock.constraints, members |-> lock.members]
  BY <1>1 DEF P!EditEdge, Made
<1> HIDE DEF edges_
<1>4. Made(lock)'
  BY <1>1, <1>2 DEF Made, P!PlanIsShaped
<1> QED
  BY <1>4 DEF P!EditEdge, P!facts, PlansInv, WellMade, Made, P!PlanIsShaped

LEMMA ResolvePlanStep ==
    ASSUME PlansInv, P!Resolve
    PROVE  PlansInv'
<1>1. Made(lock)'
  BY DerivedIsMade DEF P!Resolve, Made, P!PlanIsShaped
<1> QED
  BY <1>1 DEF P!Resolve, P!facts, PlansInv, WellMade, Made, P!PlanIsShaped

LEMMA OperatePlanStep ==
    ASSUME PlansInv, P!Operate \/ (\E p \in P!Phases \ {"absent"} : P!Interrupt(p)) \/ P!Recover
    PROVE  PlansInv'
<1>1. CASE P!Operate
  BY <1>1 DEF P!Operate, P!facts, PlansInv, WellMade, Made, P!PlanIsShaped
<1>2. ASSUME NEW p \in P!Phases \ {"absent"}, P!Interrupt(p) PROVE PlansInv'
  <2>1. lock # None
    BY <1>2, AdmissibleIsDerived DEF P!Interrupt, P!Admissible, PlansInv
  <2> QED  BY <1>2, <2>1 DEF P!Interrupt, P!facts, PlansInv, WellMade, Made, P!PlanIsShaped
<1>3. CASE P!Recover
  <2>1. /\ UNCHANGED <<contexts, admitted, retagged, direct, lock>>
        /\ phaseOf' = "absent" /\ pending' = None /\ (shown' = shown \/ shown' = pending)
    BY <1>3, Zenon DEF P!Recover, P!facts
  <2>2. WellMade(shown') /\ WellMade(lock') /\ WellMade(pending')
    <3>1. WellMade(shown) /\ WellMade(lock) /\ WellMade(pending) /\ WellMade(None)
      BY DEF PlansInv, WellMade
    <3> QED  BY <2>1, <3>1
  <2>3. "absent" \in P!Phases
    BY DEF P!Phases
  <2> QED  BY <2>1, <2>2, <2>3 DEF PlansInv
<1> QED  BY <1>1, <1>2, <1>3

LEMMA PlansStep ==
    ASSUME PlansInv, P!Next \/ UNCHANGED planVars
    PROVE  PlansInv'
<1> USE DEF PlansInv, WellMade, Made, P!PlanIsShaped
<1>1. CASE UNCHANGED planVars
  BY <1>1 DEF planVars
<1>2. ASSUME NEW s \in Skills, NEW c \in Commits \union {None}, P!Declare(s, c) PROVE PlansInv'
  BY <1>2 DEF P!Declare
<1>3. ASSUME NEW s \in Skills, NEW c \in Commits, P!Admit(s, c) PROVE PlansInv'
  BY <1>3 DEF P!Admit
<1>4. ASSUME NEW s \in Skills, P!MoveTag(s) PROVE PlansInv'
  BY <1>4 DEF P!MoveTag
<1>5. ASSUME NEW r, P!Compose(r) PROVE PlansInv'
  BY <1>5 DEF P!Compose
<1> QED
  BY <1>1, <1>2, <1>3, <1>4, <1>5, EditOutStep, EditNodeStep, EditEdgeStep, ResolvePlanStep, OperatePlanStep
  DEF P!Next

\* A step that publishes publishes what resolving would write.
LEMMA PublishingStep ==
    ASSUME PlansInv, P!Next \/ UNCHANGED planVars, shown' # shown
    PROVE  shown' = P!Derived
<1>1. CASE P!Operate
  BY <1>1, AdmissibleIsDerived DEF P!Operate, P!Admissible, PlansInv
<1>2. CASE P!Recover
  BY <1>2, AdmissibleIsDerived DEF P!Recover, P!Admissible, PlansInv
<1>3. ~UNCHANGED planVars
  BY DEF planVars
<1>4. ~P!Resolve /\ ~(\E p : P!Interrupt(p)) /\ ~(\E r : P!Compose(r)) /\ ~(\E e : P!EditEdge(e))
  BY DEF P!Resolve, P!Interrupt, P!Compose, P!EditEdge
<1>5. ASSUME NEW s PROVE ~P!MoveTag(s) /\ ~P!EditOut(s) /\ \A c : ~P!Declare(s, c) /\ ~P!Admit(s, c) /\ ~P!EditNode(s, c)
  BY DEF P!MoveTag, P!EditOut, P!Declare, P!Admit, P!EditNode
<1> QED  BY <1>1, <1>2, <1>3, <1>4, <1>5 DEF P!Next

--------------------------------------------------------------------------------
(* Command roots.                                                                *)

LEMMA RootFacts ==
    /\ None \notin Generations /\ None \notin Hops /\ None \notin Plans /\ MaxBoots \in Nat
    /\ None \notin R!Pins /\ None \notin R!Journals
    /\ FirstHop \in [Commands -> Hops] /\ Tampered \subseteq R!Files
    /\ Plans \subseteq [inventory : [Commands -> Seq(R!HopRecords) \ {<<>>}], receipt : [Commands -> Codes]]
BY PartsAssumption DEF R!PlansAssumption

\* The hops of a chain that was checked are what its command leads through, and of
\* these only the last runs anything.
LEMMA CheckedRuns ==
    ASSUME NEW g \in Generations, NEW c \in Commands, rootPlan \in [Generations -> Plans \union {None}],
           R!HookCheck(g, c)
    PROVE  R!Runs(g, c) = {rootPlan[g].receipt[c]}
<1> DEFINE chain == rootPlan[g].inventory[c]
           last == Len(chain)
           hops == {chain[i].hop : i \in 1 .. last}
<1>1. /\ chain \in Seq(R!HopRecords) /\ chain # << >> /\ rootPlan[g] \in Plans
  BY RootFacts DEF R!HookCheck
<1>2. /\ last \in Nat /\ last >= 1 /\ DOMAIN chain = 1 .. last
      /\ \A i \in 1 .. last : chain[i] \in R!HopRecords
  <2> HIDE DEF chain
  <2> QED  BY <1>1
<1>3. /\ chain[1].hop = FirstHop[c]
      /\ \A i \in 1 .. last : R!FileHolds(files[g][chain[i].hop], chain[i]) /\ R!Forwards(chain, i)
      /\ chain[last].bytes = [to |-> None, code |-> rootPlan[g].receipt[c]]
  <2>1. R!ChainHolds(g, c)
    BY DEF R!HookCheck
  <2> QED  BY <1>2, <2>1 DEF R!ChainHolds
<1> HIDE DEF chain, last
<1>4. \A i \in 1 .. last : chain[i].hop \in Hops
  BY <1>2 DEF R!HopRecords
<1>5. ASSUME NEW i \in 1 .. last
      PROVE  /\ files[g][chain[i].hop] # None
             /\ i = last => /\ R!Onward(g, chain[i].hop) = {}
                            /\ files[g][chain[i].hop].bytes.code = rootPlan[g].receipt[c]
             /\ i # last => /\ i + 1 \in 1 .. last
                            /\ R!Onward(g, chain[i].hop) = {chain[i + 1].hop}
  <2>1. files[g][chain[i].hop] # None /\ files[g][chain[i].hop].bytes = chain[i].bytes
    BY <1>3 DEF R!FileHolds
  <2>2. CASE i = last
    BY <1>3, <2>1, <2>2 DEF R!Onward
  <2>3. CASE i # last
    <3>1. i + 1 \in 1 .. last
      BY <1>2, <2>3
    <3>2. chain[i].bytes = [to |-> chain[i + 1].hop, code |-> None]
      BY <1>3, <2>3 DEF R!Forwards, last
    <3>3. chain[i + 1].hop # None
      BY <1>4, <3>1, RootFacts
    <3> QED  BY <2>1, <2>3, <3>1, <3>2, <3>3 DEF R!Onward
  <2> QED  BY <2>2, <2>3
<1>6. R!Through(g, c) \subseteq hops
  <2>1. hops \in SUBSET Hops /\ FirstHop[c] \in hops
    BY <1>2, <1>3, <1>4
  <2>2. ASSUME NEW x \in hops PROVE R!Onward(g, x) \subseteq hops
    <3>1. PICK i \in 1 .. last : x = chain[i].hop
      OBVIOUS
    <3>2. R!Onward(g, x) = {} \/ (i + 1 \in 1 .. last /\ R!Onward(g, x) = {chain[i + 1].hop})
      BY <1>5, <3>1
    <3> QED  BY <3>2
  <2> HIDE DEF hops
  <2> QED  BY <2>1, <2>2 DEF R!Through
<1>7. ASSUME NEW all \in SUBSET Hops, FirstHop[c] \in all, \A x \in all : R!Onward(g, x) \subseteq all
      PROVE  chain[last].hop \in all
  <2> DEFINE out == {i \in 1 .. last : chain[i].hop \notin all}
  <2>1. ASSUME out # {} PROVE FALSE
    <3>1. out \in SUBSET Nat
      BY <1>2
    <3>2. PICK i \in out : \A j \in out : i <= j
      BY <2>1, <3>1, LeastOf
    <3>3. i # 1 /\ i \in 1 .. last
      BY <1>3, <1>7, <3>2
    <3>4. i - 1 \in 1 .. last /\ i - 1 # last /\ i - 1 \notin out /\ (i - 1) + 1 = i
      BY <1>2, <3>2, <3>3
    <3>5. chain[i - 1].hop \in all
      BY <3>4
    <3>6. R!Onward(g, chain[i - 1].hop) = {chain[i].hop}
      BY <1>5, <3>4
    <3>7. chain[i].hop \in all
      BY <1>7, <3>5, <3>6
    <3> QED  BY <3>2, <3>7
  <2> QED  BY <1>2, <2>1
<1>8. chain[last].hop \in R!Through(g, c)
  BY <1>2, <1>4, <1>7 DEF R!Through
<1>9. ASSUME NEW h \in R!Through(g, c), R!Onward(g, h) = {}
      PROVE  h = chain[last].hop
  <2>1. PICK i \in 1 .. last : h = chain[i].hop
    BY <1>6, <1>9
  <2> QED  BY <1>5, <1>9, <2>1
<1>10. /\ files[g][chain[last].hop] # None /\ R!Onward(g, chain[last].hop) = {}
      /\ files[g][chain[last].hop].bytes.code = rootPlan[g].receipt[c]
  <2>1. last \in 1 .. last
    BY <1>2
  <2> QED  BY <1>5, <2>1
<1> QED  BY <1>8, <1>9, <1>10 DEF R!Runs

OneGeneration(f) == f["records"] = f["runtime"]

\* A session's pin and process: what runs, runs from the generation that is pinned.
Sessioned(s) ==
    /\ sessionPins[s] # None =>
           /\ sessionPins[s].generation \in onDisk /\ sessionPins[s].boot \in 0 .. boot
    /\ processes[s] = [from |-> processes[s].from, alive |-> processes[s].alive]
    /\ processes[s].alive \subseteq {"main", "descendant"}
    /\ processes[s].alive # {} =>
           sessionPins[s] # None /\ sessionPins[s].generation = processes[s].from

RootTyped ==
    /\ rootPlan \in [Generations -> Plans \union {None}]
    /\ files \in [Generations -> [Hops -> R!Files \union {None}]]
    /\ strangers \subseteq onDisk /\ onDisk \subseteq Generations
    /\ live \in [R!Parts -> Generations] /\ boot \in Nat
    /\ sessionPins \in [Sessions -> R!Pins \union {None}] /\ DOMAIN processes = Sessions
    /\ \A s \in Sessions : Sessioned(s)
    /\ reference # None => reference \in onDisk
    /\ \A g \in onDisk : rootPlan[g] # None
    /\ \A x \in R!Parts : live[x] \in onDisk

\* What a crash, a recovery or a rollback may find: the parts are old or new as the
\* phase says, and whatever may come of it is there.
Journaled ==
    /\ rootJournal \in R!Journals
    /\ OneGeneration(rootJournal.before) /\ OneGeneration(rootJournal.staged)
    /\ \A x \in R!Parts :
        /\ rootJournal.before[x] \in onDisk
        /\ rootJournal.phase \in {"prepared", "committing", "cleanup", "repairing"} =>
               rootJournal.staged[x] \in onDisk
        /\ live[x] \in {rootJournal.before[x], rootJournal.staged[x]}
    /\ rootJournal.phase \in {"preparing", "rollback_cleanup", "repairing"} => live = rootJournal.before
    /\ rootJournal.phase = "cleanup" => live = rootJournal.staged

RootsInv ==
    /\ RootTyped
    /\ rootJournal = None => OneGeneration(live)
    /\ rootJournal # None => Journaled

LEMMA RootsHold ==
    ASSUME RootsInv
    PROVE  R!TypeOK /\ R!PinnedCommandRuns /\ R!RecoveredWhole /\ R!RetainedRootsStay
<1>1. R!TypeOK
  BY DEF RootsInv, RootTyped, Sessioned, Journaled, R!TypeOK
<1>2. R!PinnedCommandRuns
  BY CheckedRuns DEF RootsInv, RootTyped, R!PinnedCommandRuns
<1>3. R!RecoveredWhole
  BY DEF RootsInv, RootTyped, OneGeneration, R!RecoveredWhole, R!Parts
<1>4. R!RetainedRootsStay
  BY DEF RootsInv, RootTyped, Sessioned, R!RetainedRootsStay
<1> QED  BY <1>1, <1>2, <1>3, <1>4

LEMMA BuiltFiles ==
    ASSUME NEW p \in Plans
    PROVE  R!Built(p) \in [Hops -> R!Files \union {None}]
<1>1. \A r \in R!Recorded(p) : r.bytes \in R!Bytes
  <2> SUFFICES ASSUME NEW c \in Commands, NEW r \in R!Range(p.inventory[c]) PROVE r.bytes \in R!Bytes
    BY DEF R!Recorded
  <2>1. p.inventory[c] \in Seq(R!HopRecords)
    BY RootFacts
  <2>2. r \in R!HopRecords
    BY <2>1 DEF R!Range
  <2> QED  BY <2>2 DEF R!HopRecords
<1>2. ASSUME NEW h \in R!ChainHops(p) PROVE R!RecordOf(p, h) \in R!Recorded(p)
  BY <1>2 DEF R!ChainHops, R!RecordOf
<1>3. ASSUME NEW b \in R!Bytes PROVE R!Fresh(b) \in R!Files
  BY DEF R!Fresh, R!Files
<1> QED  BY <1>1, <1>2, <1>3 DEF R!Built

LEMMA BareFiles == R!Bare \in [Hops -> R!Files \union {None}]
BY DEF R!Bare

LEMMA JournalShape ==
    ASSUME NEW j, j \in R!Journals
    PROVE  /\ j # None /\ j.phase \in R!Phases \union {"repairing"}
           /\ j.before \in [R!Parts -> Generations] /\ j.staged \in [R!Parts -> Generations]
           /\ \A ph \in R!Phases \union {"repairing"} :
                /\ [j EXCEPT !.phase = ph] \in R!Journals
                /\ [j EXCEPT !.phase = ph].phase = ph
                /\ [j EXCEPT !.phase = ph].before = j.before
                /\ [j EXCEPT !.phase = ph].staged = j.staged
                /\ j.phase = ph => [j EXCEPT !.phase = ph] = j
BY RootFacts DEF R!Journals

LEMMA RootsInit == R!Init => RootsInv
<1> SUFFICES ASSUME R!Init PROVE RootsInv
  OBVIOUS
<1>1. PICK g \in Generations, p \in Plans :
        /\ rootPlan = [x \in Generations |-> IF x = g THEN p ELSE None]
        /\ files = [x \in Generations |-> IF x = g THEN R!Built(p) ELSE R!Bare]
        /\ onDisk = {g} /\ live = [x \in R!Parts |-> g]
  BY DEF R!Init
<1>2. /\ rootPlan \in [Generations -> Plans \union {None}] /\ rootPlan[g] # None
      /\ files \in [Generations -> [Hops -> R!Files \union {None}]]
  BY <1>1, BuiltFiles, BareFiles, RootFacts
<1>3. RootTyped
  BY <1>1, <1>2 DEF R!Init, RootTyped, Sessioned, R!Nothing
<1>4. OneGeneration(live)
  BY <1>1 DEF OneGeneration, R!Parts
<1> QED  BY <1>3, <1>4 DEF RootsInv, R!Init


\* Steps that leave plans, files, parts and journal alone.
LEMMA SessionsStep ==
    ASSUME RootsInv, NEW s \in Sessions,
           R!Spawn(s) \/ R!Release(s) \/ R!Break(s) \/ \E x \in {"main", "descendant"} : R!Exit(s, x)
    PROVE  RootsInv'
<1>1. UNCHANGED <<rootPlan, files, strangers, onDisk, live, rootJournal, boot, reference>>
  BY DEF R!Spawn, R!Release, R!Break, R!Exit, R!root
<1> DEFINE p == processes[s]
<1>2. /\ sessionPins \in [Sessions -> R!Pins \union {None}] /\ DOMAIN processes = Sessions
      /\ \A t \in Sessions : Sessioned(t)
  BY DEF RootsInv, RootTyped
<1>3. /\ sessionPins' \in [Sessions -> R!Pins \union {None}] /\ DOMAIN processes' = Sessions
      /\ \A t \in Sessions \ {s} : sessionPins'[t] = sessionPins[t] /\ processes'[t] = processes[t]
  BY <1>2 DEF R!Spawn, R!Release, R!Break, R!Exit
<1>4. Sessioned(s)'
  <2>1. CASE R!Spawn(s)
    <3>1. sessionPins'[s] = sessionPins[s] /\ processes'[s] = [p EXCEPT !.alive = {"main", "descendant"}]
      BY <1>2, <2>1 DEF R!Spawn
    <3>2. p.alive # {} /\ p = [from |-> p.from, alive |-> p.alive]
      BY <1>2, <2>1 DEF Sessioned, R!Spawn
    <3>3. processes'[s] = [from |-> p.from, alive |-> {"main", "descendant"}]
      BY <3>1, <3>2
    <3> QED  BY <1>1, <1>2, <3>1, <3>2, <3>3 DEF Sessioned
  <2>2. CASE R!Release(s)
    <3>1. sessionPins'[s] = None /\ processes'[s] = p /\ p.alive = {}
      BY <1>2, <2>2 DEF R!Release, R!Quiescent
    <3> QED  BY <1>1, <1>2, <3>1 DEF Sessioned
  <2>3. CASE R!Break(s)
    <3>1. sessionPins'[s] = None /\ processes'[s] = [from |-> None, alive |-> {}]
      BY <1>2, <2>3 DEF R!Break, R!Nothing
    <3> QED  BY <1>1, <3>1 DEF Sessioned
  <2>4. ASSUME NEW x \in {"main", "descendant"}, R!Exit(s, x) PROVE Sessioned(s)'
    <3>1. sessionPins'[s] = sessionPins[s] /\ processes'[s] = [p EXCEPT !.alive = p.alive \ {x}] /\ x \in p.alive
      BY <1>2, <2>4 DEF R!Exit
    <3>2. processes'[s] = [from |-> p.from, alive |-> p.alive \ {x}]
      BY <1>2, <3>1 DEF Sessioned
    <3> QED  BY <1>1, <1>2, <3>1, <3>2 DEF Sessioned
  <2> QED  BY <2>1, <2>2, <2>3, <2>4
<1>5. RootTyped'
  BY <1>1, <1>2, <1>3, <1>4 DEF RootsInv, RootTyped, Sessioned
<1> QED
  BY <1>1, <1>5 DEF RootsInv, Journaled, OneGeneration

LEMMA LaunchStep ==
    ASSUME RootsInv, NEW s \in Sessions, NEW g \in Generations, R!Launch(s, g)
    PROVE  RootsInv'
<1>1. UNCHANGED <<rootPlan, files, strangers, onDisk, live, rootJournal, boot, reference>>
  BY DEF R!Launch, R!root
<1>2. /\ sessionPins \in [Sessions -> R!Pins \union {None}] /\ DOMAIN processes = Sessions
      /\ \A t \in Sessions : Sessioned(t)
  BY DEF RootsInv, RootTyped
<1>3. [generation |-> g, boot |-> boot] \in R!Pins /\ boot \in Nat
  BY DEF RootsInv, RootTyped, R!Pins
<1>4. /\ sessionPins' \in [Sessions -> R!Pins \union {None}] /\ DOMAIN processes' = Sessions
      /\ \A t \in Sessions \ {s} : sessionPins'[t] = sessionPins[t] /\ processes'[t] = processes[t]
      /\ sessionPins'[s] = [generation |-> g, boot |-> boot]
      /\ processes'[s] = [from |-> g, alive |-> {"main"}]
      /\ g \in onDisk
  BY <1>2, <1>3 DEF R!Launch
<1>5. Sessioned(s)'
  BY <1>1, <1>4, <1>3, RootFacts DEF Sessioned
<1>6. RootTyped'
  BY <1>1, <1>2, <1>4, <1>5 DEF RootsInv, RootTyped, Sessioned
<1> QED
  BY <1>1, <1>6 DEF RootsInv, Journaled, OneGeneration

\* What happens to files moves no part.
LEMMA FilesStep ==
    ASSUME RootsInv, NEW g \in Generations,
           R!Substitute(g) \/ \E h \in Hops, f \in Tampered : R!Tamper(g, h, f)
    PROVE  RootsInv'
<1>1. UNCHANGED <<rootPlan, onDisk, live, rootJournal, sessionPins, processes, boot, reference>>
  BY DEF R!Substitute, R!Tamper
<1>2. files' \in [Generations -> [Hops -> R!Files \union {None}]] /\ strangers' \subseteq onDisk
  <2>1. CASE R!Substitute(g)
    BY <2>1 DEF R!Substitute, RootsInv, RootTyped
  <2>2. ASSUME NEW h \in Hops, NEW f \in Tampered, R!Tamper(g, h, f)
        PROVE  files' \in [Generations -> [Hops -> R!Files \union {None}]] /\ strangers' \subseteq onDisk
    <3>1. f \in R!Files \union {None}
      BY RootFacts
    <3>2. [files[g] EXCEPT ![h] = f] \in [Hops -> R!Files \union {None}]
      BY <3>1 DEF RootsInv, RootTyped
    <3> QED  BY <2>2, <3>2 DEF R!Tamper, RootsInv, RootTyped
  <2> QED  BY <2>1, <2>2
<1> QED
  BY <1>1, <1>2 DEF RootsInv, RootTyped, Sessioned, Journaled, OneGeneration

LEMMA ReferenceStep ==
    ASSUME RootsInv, R!Drop \/ \E g \in Generations : R!Retain(g)
    PROVE  RootsInv'
<1>1. /\ UNCHANGED <<rootPlan, files, strangers, onDisk, live, rootJournal, sessionPins, processes, boot>>
      /\ reference' = None \/ reference' = live["runtime"]
  BY DEF R!Drop, R!Retain, R!root
<1>2. live["runtime"] \in onDisk
  BY DEF RootsInv, RootTyped, R!Parts
<1> QED
  BY <1>1, <1>2 DEF RootsInv, RootTyped, Sessioned, Journaled, OneGeneration

LEMMA CrashStep ==
    ASSUME RootsInv, R!Crash
    PROVE  RootsInv'
<1>1. /\ UNCHANGED <<rootPlan, files, strangers, onDisk, live, rootJournal, sessionPins, reference>>
      /\ boot' = boot + 1 /\ processes' = [s \in Sessions |-> [from |-> None, alive |-> {}]]
  BY DEF R!Crash, R!Nothing, R!root
<1>2. ASSUME NEW s \in Sessions PROVE Sessioned(s)'
  <2>1. boot \in Nat /\ Sessioned(s)
    BY DEF RootsInv, RootTyped
  <2>2. processes'[s].alive = {} /\ processes'[s] = [from |-> None, alive |-> {}]
    BY <1>1
  <2>3. \A n \in 0 .. boot : n \in 0 .. boot'
    BY <1>1, <2>1
  <2> QED  BY <1>1, <2>1, <2>2, <2>3 DEF Sessioned
<1>3. RootTyped'
  BY <1>1, <1>2 DEF RootsInv, RootTyped
<1> QED
  BY <1>1, <1>3 DEF RootsInv, Journaled, OneGeneration

\* The journal.
LEMMA BeginStep ==
    ASSUME RootsInv, NEW g \in Generations, R!Begin(g)
    PROVE  RootsInv'
<1>1. UNCHANGED <<rootPlan, files, strangers, onDisk, live, sessionPins, processes, boot, reference>>
  BY DEF R!Begin, R!root
<1>2. rootJournal' = [phase |-> "preparing", before |-> live, staged |-> [x \in R!Parts |-> g], edges |-> sessionPins]
  BY DEF R!Begin
<1>3. rootJournal' \in R!Journals
  <2>1. sessionPins \in [Sessions -> R!Pins \union {None}]
    BY DEF RootsInv, RootTyped, Sessioned
  <2> QED  BY <1>2, <2>1 DEF RootsInv, RootTyped, R!Journals, R!Phases
<1>4. Journaled'
  BY <1>1, <1>2, <1>3 DEF R!Begin, RootsInv, RootTyped, Journaled, OneGeneration, R!Parts
<1>5. RootTyped'
  BY <1>1 DEF RootsInv, RootTyped, Sessioned
<1> QED  BY <1>3, <1>4, <1>5, JournalShape DEF RootsInv

LEMMA StageStep ==
    ASSUME RootsInv, NEW p \in Plans, R!Stage(p)
    PROVE  RootsInv'
<1> DEFINE g == rootJournal.staged["runtime"]
<1>1. /\ rootJournal.phase = "preparing" /\ Journaled /\ rootJournal \in R!Journals
  BY DEF R!Stage, RootsInv, Journaled
<1>2. g \in Generations /\ rootJournal.staged["records"] = g /\ live = rootJournal.before
  BY <1>1, JournalShape DEF Journaled, OneGeneration, R!Parts
<1>3. /\ rootPlan' = [rootPlan EXCEPT ![g] = p] /\ files' = [files EXCEPT ![g] = R!Built(p)]
      /\ strangers' = strangers \ {g} /\ onDisk' = onDisk \union {g}
      /\ rootJournal' = [rootJournal EXCEPT !.phase = "prepared"]
      /\ UNCHANGED <<live, sessionPins, processes, boot, reference>>
  BY DEF R!Stage
<1>4. files' \in [Generations -> [Hops -> R!Files \union {None}]]
  BY <1>2, <1>3, BuiltFiles DEF RootsInv, RootTyped
<1>5. RootTyped'
  BY <1>2, <1>3, <1>4, RootFacts DEF RootsInv, RootTyped, Sessioned
<1>6. /\ rootJournal' \in R!Journals /\ rootJournal'.phase = "prepared"
      /\ rootJournal'.before = rootJournal.before /\ rootJournal'.staged = rootJournal.staged
  BY <1>1, <1>3, JournalShape DEF R!Phases
<1>7. Journaled'
  BY <1>1, <1>2, <1>3, <1>6 DEF Journaled, OneGeneration, R!Parts
<1> QED  BY <1>5, <1>6, <1>7, JournalShape DEF RootsInv

\* A journal that stays moves at most the parts, and only to what is there.
LEMMA JournalKept ==
    ASSUME RootsInv, rootJournal # None,
           UNCHANGED <<rootPlan, files, strangers, onDisk, sessionPins, processes, boot, reference>>,
           NEW ph \in R!Phases, rootJournal' = [rootJournal EXCEPT !.phase = ph],
           live' \in [R!Parts -> Generations],
           \A x \in R!Parts : live'[x] \in {rootJournal.before[x], rootJournal.staged[x]},
           \A x \in R!Parts : live'[x] \in onDisk,
           ph \in {"prepared", "committing", "cleanup"} => rootJournal.phase \in {"prepared", "committing", "cleanup"},
           ph \in {"preparing", "rollback_cleanup"} => live' = rootJournal.before,
           ph = "cleanup" => live' = rootJournal.staged
    PROVE  RootsInv'
<1>1. Journaled
  BY DEF RootsInv
<1>2. /\ rootJournal' \in R!Journals /\ rootJournal'.phase = ph
      /\ rootJournal'.before = rootJournal.before /\ rootJournal'.staged = rootJournal.staged
  BY <1>1, JournalShape DEF Journaled
<1>3. ph # "repairing"
  BY DEF R!Phases
<1>4. Journaled'
  BY <1>1, <1>2, <1>3 DEF Journaled, OneGeneration
<1>5. RootTyped'
  BY DEF RootsInv, RootTyped, Sessioned
<1> QED  BY <1>2, <1>4, <1>5, JournalShape DEF RootsInv

\* One that is gone leaves both parts old or both new.
LEMMA JournalGone ==
    ASSUME RootsInv, rootJournal # None,
           UNCHANGED <<rootPlan, files, strangers, onDisk, sessionPins, processes, boot, reference>>,
           rootJournal' = None,
           \/ live' = rootJournal.before
           \/ live' = rootJournal.staged /\ rootJournal.phase \in {"prepared", "committing", "cleanup", "repairing"}
    PROVE  RootsInv'
<1>1. /\ live' \in [R!Parts -> Generations] /\ \A x \in R!Parts : live'[x] \in onDisk
      /\ OneGeneration(live')
  BY JournalShape DEF RootsInv, Journaled
<1>2. RootTyped'
  BY <1>1 DEF RootsInv, RootTyped, Sessioned
<1> QED  BY <1>1, <1>2 DEF RootsInv, OneGeneration

LEMMA JournalStep ==
    ASSUME RootsInv,
           R!GiveUp \/ R!Finish \/ R!Recover \/ R!AbandonRepair \/ (\E b \in BOOLEAN : R!PublishRepair(b))
           \/ \E x \in R!Parts : R!CommitPart(x) \/ R!RestorePart(x)
    PROVE  RootsInv'
<1>1. rootJournal # None
  BY DEF R!GiveUp, R!Finish, R!Recover, R!AbandonRepair, R!PublishRepair, R!CommitPart, R!RestorePart
<1>2. UNCHANGED <<rootPlan, files, strangers, onDisk, sessionPins, processes, boot, reference>>
  BY DEF R!GiveUp, R!Finish, R!Recover, R!AbandonRepair, R!PublishRepair, R!CommitPart, R!RestorePart, R!root
<1>3. Journaled
  BY <1>1 DEF RootsInv
<1>4. /\ live \in [R!Parts -> Generations]
      /\ \A x \in R!Parts : live[x] \in onDisk /\ live[x] \in {rootJournal.before[x], rootJournal.staged[x]}
  BY <1>3 DEF RootsInv, RootTyped, Journaled
<1> rootJournal \in R!Journals
  BY <1>3 DEF Journaled
<1>5. CASE R!GiveUp
  <2>1. rootJournal' = [rootJournal EXCEPT !.phase = "rolling_back"] /\ live' = live
    BY <1>5 DEF R!GiveUp
  <2> QED  BY <1>1, <1>2, <1>4, <2>1, JournalKept DEF R!Phases
<1>6. CASE R!Finish
  <2>1. \/ rootJournal.phase = "cleanup" /\ rootJournal' = None
        \/ live = rootJournal.before /\ rootJournal' = [rootJournal EXCEPT !.phase = "rollback_cleanup"]
        \/ rootJournal.phase = "rollback_cleanup" /\ rootJournal' = None
    BY <1>6 DEF R!Finish
  <2>2. live' = live
    BY <1>6 DEF R!Finish
  <2>3. ASSUME rootJournal' = None, rootJournal.phase \in {"cleanup", "rollback_cleanup"} PROVE RootsInv'
    <3>1. \/ live' = rootJournal.before
          \/ live' = rootJournal.staged /\ rootJournal.phase = "cleanup"
      BY <1>3, <2>2, <2>3 DEF Journaled
    <3> QED  BY <1>1, <1>2, <2>3, <3>1, JournalGone
  <2>4. ASSUME live = rootJournal.before, rootJournal' = [rootJournal EXCEPT !.phase = "rollback_cleanup"]
        PROVE  RootsInv'
    BY <1>1, <1>2, <1>4, <2>2, <2>4, JournalKept DEF R!Phases
  <2> QED  BY <2>1, <2>3, <2>4
<1>7. CASE R!Recover
  <2>1. /\ rootJournal' = None /\ rootJournal.phase \in R!Phases
        /\ live' = IF R!Outcome(rootJournal.phase) = "complete-new" THEN rootJournal.staged ELSE rootJournal.before
    BY <1>7 DEF R!Recover
  <2>2. ASSUME R!Outcome(rootJournal.phase) = "complete-new"
        PROVE  rootJournal.phase \in {"prepared", "committing", "cleanup"}
    BY <2>1, <2>2 DEF R!Outcome, R!Phases
  <2> QED  BY <1>1, <1>2, <2>1, <2>2, JournalGone
<1>8. CASE R!AbandonRepair
  <2>1. rootJournal' = None /\ live' = live /\ rootJournal.phase = "repairing"
    BY <1>8 DEF R!AbandonRepair
  <2>2. live' = rootJournal.before
    BY <1>3, <2>1 DEF Journaled
  <2> QED  BY <1>1, <1>2, <2>1, <2>2, JournalGone
<1>9. ASSUME NEW b \in BOOLEAN, R!PublishRepair(b) PROVE RootsInv'
  <2>1. rootJournal' = None /\ live' = rootJournal.staged /\ rootJournal.phase = "repairing"
    BY <1>9 DEF R!PublishRepair
  <2> QED  BY <1>1, <1>2, <2>1, JournalGone
<1>10. ASSUME NEW x \in R!Parts, R!CommitPart(x) PROVE RootsInv'
  <2> DEFINE ph == IF live' = rootJournal.staged THEN "cleanup" ELSE "committing"
  <2>1. /\ rootJournal.phase \in {"prepared", "committing"}
        /\ live' = [live EXCEPT ![x] = rootJournal.staged[x]]
        /\ rootJournal' = [rootJournal EXCEPT !.phase = ph]
    BY <1>10 DEF R!CommitPart
  <2>2. /\ ph \in R!Phases /\ ph \notin {"preparing", "rollback_cleanup"}
        /\ ph = "cleanup" => live' = rootJournal.staged
    BY DEF R!Phases
  <2>3. /\ live' \in [R!Parts -> Generations]
        /\ \A y \in R!Parts : live'[y] \in onDisk /\ live'[y] \in {rootJournal.before[y], rootJournal.staged[y]}
    BY <1>3, <1>4, <2>1, JournalShape DEF Journaled
  <2> HIDE DEF ph
  <2> QED  BY <1>1, <1>2, <2>1, <2>2, <2>3, JournalKept
<1>11. ASSUME NEW x \in R!Parts, R!RestorePart(x) PROVE RootsInv'
  <2>1. /\ rootJournal.phase = "rolling_back" /\ rootJournal' = rootJournal
        /\ live' = [live EXCEPT ![x] = rootJournal.before[x]]
    BY <1>11 DEF R!RestorePart
  <2>2. rootJournal' = [rootJournal EXCEPT !.phase = "rolling_back"]
    BY <2>1, JournalShape DEF R!Phases
  <2>3. /\ live' \in [R!Parts -> Generations]
        /\ \A y \in R!Parts : live'[y] \in onDisk /\ live'[y] \in {rootJournal.before[y], rootJournal.staged[y]}
    BY <1>3, <1>4, <2>1, JournalShape DEF Journaled
  <2> QED  BY <1>1, <1>2, <2>2, <2>3, JournalKept DEF R!Phases
<1> QED
  BY <1>5, <1>6, <1>7, <1>8, <1>9, <1>10, <1>11

LEMMA StageRepairStep ==
    ASSUME RootsInv, NEW g \in Generations, R!StageRepair(g)
    PROVE  RootsInv'
<1> DEFINE old == live["runtime"]
<1>1. /\ rootJournal = None /\ OneGeneration(live)
      /\ old \in onDisk /\ live["records"] \in onDisk /\ live \in [R!Parts -> Generations]
  BY DEF R!StageRepair, RootsInv, RootTyped, OneGeneration, R!Parts
<1>2. rootPlan[old] \in Plans
  BY <1>1 DEF RootsInv, RootTyped
<1>3. /\ rootPlan' = [rootPlan EXCEPT ![g] = rootPlan[old]]
      /\ files' = [files EXCEPT ![g] = R!Built(rootPlan[old])]
      /\ onDisk' = onDisk \union {g}
      /\ rootJournal' = [phase |-> "repairing", before |-> live, staged |-> [x \in R!Parts |-> g], edges |-> sessionPins]
      /\ UNCHANGED <<strangers, live, sessionPins, processes, boot, reference>>
  BY DEF R!StageRepair
<1>4. files' \in [Generations -> [Hops -> R!Files \union {None}]]
  BY <1>2, <1>3, BuiltFiles DEF RootsInv, RootTyped
<1>5. RootTyped'
  BY <1>2, <1>3, <1>4, RootFacts DEF RootsInv, RootTyped, Sessioned
<1>6. rootJournal' \in R!Journals
  <2>1. sessionPins \in [Sessions -> R!Pins \union {None}]
    BY DEF RootsInv, RootTyped, Sessioned
  <2> QED  BY <1>1, <1>3, <2>1 DEF R!Journals
<1>7. Journaled'
  BY <1>1, <1>3, <1>6 DEF Journaled, OneGeneration, R!Parts
<1> QED  BY <1>5, <1>6, <1>7, JournalShape DEF RootsInv

\* What is collected is none of what the rest leads to.
LEMMA CollectStep ==
    ASSUME RootsInv, NEW g \in Generations, R!Collect(g)
    PROVE  RootsInv'
<1>1. /\ onDisk' = onDisk \ {g} /\ rootPlan' = [rootPlan EXCEPT ![g] = None]
      /\ files' = [files EXCEPT ![g] = R!Bare] /\ strangers' = strangers \ {g}
      /\ UNCHANGED <<live, rootJournal, sessionPins, processes, boot, reference>>
  BY DEF R!Collect
<1>2. /\ reference # g
      /\ \A s \in Sessions : sessionPins[s] # None => sessionPins[s].generation # g
      /\ \A x \in R!Parts : live[x] # g
      /\ rootJournal # None => \A x \in R!Parts : rootJournal.before[x] # g /\ rootJournal.staged[x] # g
  BY DEF R!Collect, R!Retained
<1>3. files' \in [Generations -> [Hops -> R!Files \union {None}]]
  BY <1>1, BareFiles DEF RootsInv, RootTyped
<1>4. RootTyped'
  BY <1>1, <1>2, <1>3 DEF RootsInv, RootTyped, Sessioned
<1>5. rootJournal # None => Journaled'
  BY <1>1, <1>2, JournalShape DEF RootsInv, Journaled, OneGeneration
<1> QED  BY <1>1, <1>4, <1>5 DEF RootsInv, OneGeneration

LEMMA RootsStep ==
    ASSUME RootsInv, R!Next \/ UNCHANGED rootVars
    PROVE  RootsInv'
<1>1. CASE UNCHANGED rootVars
  BY <1>1 DEF rootVars, RootsInv, RootTyped, Sessioned, Journaled, OneGeneration
<1>2. CASE R!Next
  BY <1>2, SessionsStep, LaunchStep, FilesStep, ReferenceStep, CrashStep, BeginStep, StageStep, JournalStep,
     StageRepairStep, CollectStep DEF R!Next
<1> QED  BY <1>1, <1>2

--------------------------------------------------------------------------------
(* Policy grants.                                                                *)

\* What the history of a grant may be: it begins active, lapses at most once, and a
\* revocation ends it.
Lived(r) ==
    /\ r \in G!Records
    /\ Len(r.states) \in 1 .. 3 /\ r.states[1].status = "active"
    /\ Len(r.states) = 2 => r.states[2].status \in {"lapsed", "revoked"}
    /\ Len(r.states) = 3 => r.states[2].status = "lapsed" /\ r.states[3].status = "revoked"
    /\ \A i \in 1 .. (Len(r.states) - 1) : r.states[i].time <= r.states[i + 1].time
    /\ r.states[1].time = r.time /\ r.policy.until > r.time

Last(r) == r.states[Len(r.states)]

LEMMA LivedIsWellFormed ==
    ASSUME NEW r, Lived(r)
    PROVE  G!WellFormed(r)
<1> DEFINE s == r.states
           t == [i \in DOMAIN s |-> s[i].status]
<1>1. s \in Seq(G!States) /\ Len(s) \in {1, 2, 3} /\ DOMAIN s = 1 .. Len(s)
  BY DEF Lived, G!Records
<1>2. s[1].status = "active"
  BY DEF Lived
<1> HIDE DEF s
<1>3. t \in G!Lives
  <2>1. CASE Len(s) = 1
    <3>1. t = <<"active">>
      BY <1>1, <1>2, <2>1
    <3> QED  BY <3>1 DEF G!Lives
  <2>2. CASE Len(s) = 2
    <3>1. s[2].status \in {"lapsed", "revoked"}
      BY <2>2 DEF Lived, s
    <3>2. t = <<"active", "lapsed">> \/ t = <<"active", "revoked">>
      BY <1>1, <1>2, <2>2, <3>1
    <3> QED  BY <3>2 DEF G!Lives
  <2>3. CASE Len(s) = 3
    <3>1. s[2].status = "lapsed" /\ s[3].status = "revoked"
      BY <2>3 DEF Lived, s
    <3>2. t = <<"active", "lapsed", "revoked">>
      BY <1>1, <1>2, <2>3, <3>1
    <3> QED  BY <3>2 DEF G!Lives
  <2> QED  BY <1>1, <2>1, <2>2, <2>3
<1> QED
  BY <1>3 DEF Lived, G!WellFormed, s

\* A history goes on with a lapse of what is active, or with a revocation of what is
\* not revoked yet.
LEMMA LivesOn ==
    ASSUME NEW r, Lived(r), now \in G!Times, Last(r).time <= now, NEW st,
           \/ G!Current(r) = "active" /\ st \in {"lapsed", "revoked"}
           \/ G!Current(r) # "revoked" /\ st = "revoked",
           NEW q, q = [r EXCEPT !.states = Append(r.states, [status |-> st, time |-> now])]
    PROVE  Lived(q) /\ G!Current(q) = st /\ Last(q).time = now /\ q.entry = r.entry /\ q.policy = r.policy
<1> DEFINE s == r.states
           x == [status |-> st, time |-> now]
<1>1. /\ s \in Seq(G!States) /\ Len(s) \in {1, 2, 3} /\ s[1].status = "active"
      /\ Len(s) = 2 => s[2].status \in {"lapsed", "revoked"}
      /\ Len(s) = 3 => s[3].status = "revoked"
      /\ s[Len(s)].time <= now /\ s[1].time = r.time
      /\ \A i \in 1 .. (Len(s) - 1) : s[i].time <= s[i + 1].time
  BY DEF Lived, G!Records, Last
<1>2. x \in G!States
  BY DEF G!States
<1>3. Append(s, x) \in Seq(G!States)
  BY <1>1, <1>2
<1>4. /\ q \in G!Records /\ q.states = Append(s, x) /\ q.time = r.time
      /\ q.entry = r.entry /\ q.policy = r.policy
  BY <1>3 DEF Lived, G!Records
<1>5. \/ s[Len(s)].status = "active" /\ st \in {"lapsed", "revoked"}
      \/ s[Len(s)].status # "revoked" /\ st = "revoked"
  BY DEF G!Current
<1>6. r.policy.until > r.time
  BY DEF Lived
<1> HIDE DEF s, x
<1>7. /\ Len(q.states) = Len(s) + 1 /\ q.states[Len(s) + 1] = x
      /\ \A i \in 1 .. Len(s) : q.states[i] = s[i]
  BY <1>1, <1>4
<1>8. x.status = st /\ x.time = now
  BY DEF x
<1>9. Len(s) \in {1, 2} /\ (Len(s) = 2 => s[2].status = "lapsed" /\ st = "revoked")
  BY <1>1, <1>5
<1>10. \A i \in 1 .. (Len(q.states) - 1) : q.states[i].time <= q.states[i + 1].time
  <2>1. Len(q.states) - 1 = Len(s)
    BY <1>7, <1>9
  <2> SUFFICES ASSUME NEW i \in 1 .. Len(s) PROVE q.states[i].time <= q.states[i + 1].time
    BY <2>1
  <2>2. CASE i = Len(s)
    BY <1>1, <1>7, <1>8, <2>2
  <2>3. CASE i # Len(s)
    <3>1. i + 1 \in 1 .. Len(s) /\ i \in 1 .. (Len(s) - 1)
      BY <1>9, <2>3
    <3> QED  BY <1>1, <1>7, <3>1
  <2> QED  BY <2>2, <2>3
<1>11. Lived(q)
  BY <1>1, <1>4, <1>5, <1>6, <1>7, <1>8, <1>9, <1>10 DEF Lived
<1> QED
  BY <1>1, <1>4, <1>7, <1>8, <1>11 DEF G!Current, Last

KeyShapes == [present : BOOLEAN, pending : BOOLEAN, intact : BOOLEAN, grants : SUBSET Grants]

GrantsInv ==
    /\ now \in G!Times /\ entryPolicy \in [PolicyEntries -> EntryPolicies \union {None}]
    /\ records \in [Grants -> G!Records \union {None}]
    /\ journal \in [Keys -> KeyShapes]
    /\ \A g \in Grants : records[g] # None => Lived(records[g]) /\ Last(records[g]).time <= now
    /\ \A k \in Keys :
        /\ \A g \in journal[k].grants : records[g] # None
        /\ journal[k].present /\ journal[k].grants # {}
               /\ (\A g \in journal[k].grants : G!Current(records[g]) = "revoked")
           => journal[k].pending
        /\ (\E g \in journal[k].grants : records[g] # None /\ G!Current(records[g]) = "active")
           => journal[k].present

LEMMA GrantsHold ==
    ASSUME GrantsInv
    PROVE  G!TypeOK /\ G!RecordsStayReadable /\ G!NoKeyIsForgotten /\ G!ActiveKeysStay
<1>1. G!TypeOK
  BY DEF GrantsInv, G!TypeOK, KeyShapes
<1>2. G!RecordsStayReadable
  BY LivedIsWellFormed DEF GrantsInv, G!RecordsStayReadable, G!Granted, G!Given
<1>3. G!NoKeyIsForgotten
  BY DEF GrantsInv, G!NoKeyIsForgotten
<1>4. G!ActiveKeysStay
  BY DEF GrantsInv, G!ActiveKeysStay, G!Active
<1> QED  BY <1>1, <1>2, <1>3, <1>4

LEMMA GrantFacts ==
    /\ KeysOf \in [Grants -> SUBSET Keys] /\ MaxTime \in Nat
    /\ EntryPolicies \subseteq [hooks : SUBSET Hooks, since : 0 .. MaxTime, until : 0 .. MaxTime]
    /\ None \notin EntryPolicies /\ None \notin G!Records
BY PartsAssumption DEF G!GrantAssumption

LEMMA GrantsInit == G!Init => GrantsInv
BY GrantFacts DEF G!Init, GrantsInv, KeyShapes, G!Times

\* A launch that is admitted is of a grant that is not revoked.
LEMMA AdmittedIsNotRevoked ==
    ASSUME NEW r, NEW broken, NEW effective, G!Decision(r, broken, effective) = "admitted"
    PROVE  G!Current(r) # "revoked"
BY DEF G!Decision

LEMMA LaunchGrantStep ==
    ASSUME GrantsInv, NEW g \in Grants, NEW broken, NEW effective, G!Launch(g, broken, effective)
    PROVE  GrantsInv'
<1>1. /\ UNCHANGED <<now, entryPolicy, records>> /\ records[g] # None
      /\ journal' = [k \in Keys |->
                       IF k \in KeysOf[g]
                       THEN [present |-> TRUE, pending |-> FALSE, intact |-> TRUE,
                             grants |-> journal[k].grants \union {g}]
                       ELSE journal[k]]
      /\ G!Current(records[g]) # "revoked"
  BY AdmittedIsNotRevoked DEF G!Launch, G!Given
<1>2. ASSUME NEW k \in Keys
      PROVE  /\ journal'[k] \in KeyShapes
             /\ \A x \in journal'[k].grants : records[x] # None
             /\ journal'[k].present /\ journal'[k].grants # {}
                    /\ (\A x \in journal'[k].grants : G!Current(records[x]) = "revoked")
                => journal'[k].pending
             /\ (\E x \in journal'[k].grants : records[x] # None /\ G!Current(records[x]) = "active")
                => journal'[k].present
  <2>1. CASE k \in KeysOf[g]
    BY <1>1, <2>1 DEF GrantsInv, KeyShapes
  <2>2. CASE k \notin KeysOf[g]
    BY <1>1, <2>2 DEF GrantsInv
  <2> QED  BY <2>1, <2>2
<1>3. journal' \in [Keys -> KeyShapes]
  BY <1>1, <1>2
<1> QED
  BY <1>1, <1>2, <1>3 DEF GrantsInv, G!Current

\* What a revocation makes of a record.
LEMMA RevokedLives ==
    ASSUME NEW r, Lived(r), now \in G!Times, Last(r).time <= now
    PROVE  /\ Lived(G!Revoked(r)) /\ G!Current(G!Revoked(r)) = "revoked"
           /\ Last(G!Revoked(r)).time <= now
<1>1. CASE G!Current(r) = "revoked"
  BY <1>1 DEF G!Revoked
<1>2. CASE G!Current(r) # "revoked"
  <2>1. G!Revoked(r) = [r EXCEPT !.states = Append(r.states, [status |-> "revoked", time |-> now])]
    BY <1>2 DEF G!Revoked
  <2> QED  BY <1>2, <2>1, LivesOn DEF G!Times
<1> QED  BY <1>1, <1>2

\* The records of an entry first, then the keys of those grants: what no active grant
\* names is gone or waits.
LEMMA RevokeStep ==
    ASSUME GrantsInv, NEW e \in PolicyEntries, G!Revoke(e)
    PROVE  GrantsInv'
<1> DEFINE affected == {g \in G!Granted : records[g].entry = e}
           rs == [g \in Grants |-> IF g \in affected THEN G!Revoked(records[g]) ELSE records[g]]
           taken(k) == journal[k].grants \intersect affected # {} /\ G!Unshared(k, affected, rs)
<1>1. /\ UNCHANGED <<now, entryPolicy>> /\ records' = rs
      /\ journal' = [k \in Keys |->
                       IF taken(k)
                       THEN IF journal[k].intact
                            THEN [journal[k] EXCEPT !.present = FALSE, !.pending = FALSE]
                            ELSE [journal[k] EXCEPT !.pending = TRUE]
                       ELSE journal[k]]
  BY DEF G!Revoke
<1>2. /\ affected \subseteq Grants /\ \A g \in affected : records[g] # None
      /\ \A g \in affected : rs[g] = G!Revoked(records[g])
      /\ \A g \in Grants \ affected : rs[g] = records[g]
  BY DEF G!Granted, G!Given
<1>3. \A k \in Keys : taken(k) => \A g \in journal[k].grants : ~(rs[g] # None /\ G!Current(rs[g]) = "active")
  BY DEF G!Unshared, G!Active, GrantsInv, KeyShapes
<1>4. \A k \in Keys : journal[k].grants \intersect affected # {} /\ ~taken(k)
          => \E g \in journal[k].grants : rs[g] # None /\ G!Current(rs[g]) = "active"
  BY DEF G!Unshared, G!Active
<1>5. \A k \in Keys : taken(k) => journal[k].grants \intersect affected # {}
  OBVIOUS
<1> HIDE DEF affected, rs, taken
<1>6. ASSUME NEW g \in Grants, records[g] # None
      PROVE  /\ rs[g] # None /\ Lived(rs[g]) /\ Last(rs[g]).time <= now
             /\ g \in affected => G!Current(rs[g]) = "revoked"
  <2>1. Lived(records[g]) /\ Last(records[g]).time <= now /\ now \in G!Times
    BY <1>6 DEF GrantsInv
  <2>2. CASE g \in affected
    <3>1. Lived(rs[g]) /\ Last(rs[g]).time <= now /\ G!Current(rs[g]) = "revoked"
      BY <1>2, <2>1, <2>2, RevokedLives
    <3> QED  BY <3>1, GrantFacts DEF Lived
  <2>3. CASE g \notin affected
    BY <1>2, <1>6, <2>1, <2>3
  <2> QED  BY <2>2, <2>3
<1>7. \A g \in Grants : records[g] = None => rs[g] = None
  BY <1>2
<1>8. rs \in [Grants -> G!Records \union {None}]
  <2>1. \A g \in Grants : rs[g] \in G!Records \union {None}
    BY <1>6, <1>7 DEF Lived
  <2> QED  BY <2>1 DEF rs
<1>9. ASSUME NEW k \in Keys
      PROVE  /\ journal'[k] \in KeyShapes /\ journal'[k].grants = journal[k].grants
             /\ taken(k) => ~journal'[k].present \/ journal'[k].pending
             /\ ~taken(k) => journal'[k] = journal[k]
  BY <1>1 DEF GrantsInv, KeyShapes
<1>10. ASSUME NEW k \in Keys
       PROVE  /\ \A g \in journal'[k].grants : rs[g] # None
              /\ journal'[k].present /\ journal'[k].grants # {}
                     /\ (\A g \in journal'[k].grants : G!Current(rs[g]) = "revoked")
                 => journal'[k].pending
              /\ (\E g \in journal'[k].grants : rs[g] # None /\ G!Current(rs[g]) = "active")
                 => journal'[k].present
  <2>1. journal[k].grants \subseteq Grants /\ \A g \in journal[k].grants : records[g] # None
    BY DEF GrantsInv, KeyShapes
  <2>2. \A g \in journal'[k].grants : rs[g] # None
    BY <1>6, <1>9, <2>1
  <2>3. CASE taken(k)
    BY <1>3, <1>9, <2>2, <2>3
  <2>4. CASE ~taken(k)
    <3>1. journal'[k] = journal[k]
      BY <1>9, <2>4
    <3>2. ASSUME journal[k].present, journal[k].grants # {},
                 \A g \in journal[k].grants : G!Current(rs[g]) = "revoked"
          PROVE  journal[k].pending
      <4>1. journal[k].grants \intersect affected = {}
        BY <1>4, <2>4, <3>2
      <4>2. \A g \in journal[k].grants : rs[g] = records[g]
        BY <1>2, <2>1, <4>1
      <4> QED  BY <3>2, <4>2 DEF GrantsInv
    <3>3. ASSUME NEW g \in journal[k].grants, G!Current(rs[g]) = "active"
          PROVE  journal[k].present
      <4>1. g \notin affected
        BY <1>6, <2>1, <3>3
      <4>2. rs[g] = records[g]
        BY <1>2, <2>1, <4>1
      <4> QED  BY <2>1, <3>3, <4>2 DEF GrantsInv
    <3> QED  BY <2>2, <3>1, <3>2, <3>3
  <2> QED  BY <2>3, <2>4
<1>11. journal' \in [Keys -> KeyShapes]
  BY <1>1, <1>9
<1>12. now' = now /\ entryPolicy' = entryPolicy /\ records' = rs
  BY <1>1
<1> QED
  BY <1>6, <1>7, <1>8, <1>10, <1>11, <1>12 DEF GrantsInv, G!Current, Lived, Last

LEMMA ApproveGrantStep ==
    ASSUME GrantsInv, NEW g \in Grants, NEW e \in PolicyEntries, NEW hooks, G!Approve(g, e, hooks)
    PROVE  GrantsInv'
<1> DEFINE s == <<[status |-> "active", time |-> now]>>
           r == [entry |-> e, policy |-> entryPolicy[e], time |-> now, hooks |-> hooks, states |-> s]
<1>1. /\ records[g] = None /\ records' = [records EXCEPT ![g] = r]
      /\ UNCHANGED <<now, entryPolicy, journal>>
  BY DEF G!Approve, G!Given
<1>2. /\ entryPolicy[e] \in EntryPolicies /\ hooks \subseteq entryPolicy[e].hooks
      /\ now < entryPolicy[e].until /\ now \in G!Times
  BY DEF G!Approve, GrantsInv
<1>3. s \in Seq(G!States) /\ Len(s) = 1 /\ s[1] = [status |-> "active", time |-> now]
  BY <1>2 DEF G!States
<1>4. hooks \in SUBSET Hooks
  BY <1>2, GrantFacts
<1> HIDE DEF s
<1>5. r \in G!Records /\ r.states = s /\ r.time = now /\ r.policy = entryPolicy[e]
  BY <1>2, <1>3, <1>4 DEF G!Records
<1> HIDE DEF r
<1>6. Lived(r) /\ Last(r).time <= now
  <2>1. Len(r.states) = 1 /\ r.states[1].status = "active" /\ r.states[1].time = now /\ now \in Nat
    BY <1>2, <1>3, <1>5 DEF G!Times
  <2>2. r.policy.until > r.time /\ r.states[1].time = r.time
    BY <1>2, <1>5, <2>1, GrantFacts DEF G!Times
  <2> QED  BY <1>5, <2>1, <2>2 DEF Lived, Last
<1>7. records' \in [Grants -> G!Records \union {None}]
  BY <1>1, <1>5 DEF GrantsInv
<1>8. \A x \in Grants : records'[x] # None => Lived(records'[x]) /\ Last(records'[x]).time <= now
  BY <1>1, <1>6 DEF GrantsInv
<1>9. \A k \in Keys : g \notin journal[k].grants
  BY <1>1 DEF GrantsInv
<1>10. \A k \in Keys : \A x \in journal[k].grants : records'[x] = records[x]
  BY <1>1, <1>9 DEF GrantsInv, KeyShapes
<1> QED
  BY <1>1, <1>7, <1>8, <1>10 DEF GrantsInv, Lived, Last, G!Current

LEMMA LapseStep ==
    ASSUME GrantsInv, NEW g \in Grants, G!Lapse(g)
    PROVE  GrantsInv'
<1> DEFINE r == [records[g] EXCEPT !.states = Append(@, [status |-> "lapsed", time |-> now])]
<1>1. /\ records[g] # None /\ G!Current(records[g]) = "active"
      /\ records' = [records EXCEPT ![g] = r] /\ UNCHANGED <<now, entryPolicy, journal>>
  BY DEF G!Lapse, G!Given, GrantsInv
<1>2. Lived(records[g]) /\ Last(records[g]).time <= now /\ now \in G!Times
  BY <1>1 DEF GrantsInv
<1>3. r = [records[g] EXCEPT !.states = Append(records[g].states, [status |-> "lapsed", time |-> now])]
  OBVIOUS
<1> HIDE DEF r
<1>4. Lived(r) /\ G!Current(r) = "lapsed" /\ Last(r).time <= now
  BY <1>1, <1>2, <1>3, LivesOn DEF G!Times
<1>5. r # None /\ records' \in [Grants -> G!Records \union {None}]
  BY <1>1, <1>4, GrantFacts DEF GrantsInv, Lived
<1>6. \A x \in Grants : records'[x] = IF x = g THEN r ELSE records[x]
  BY <1>1 DEF GrantsInv
<1>7. \A x \in Grants : records'[x] # None => Lived(records'[x]) /\ Last(records'[x]).time <= now
  BY <1>4, <1>6 DEF GrantsInv
<1>8. ASSUME NEW k \in Keys
      PROVE  /\ \A x \in journal[k].grants : records'[x] # None
             /\ journal[k].present /\ journal[k].grants # {}
                    /\ (\A x \in journal[k].grants : G!Current(records'[x]) = "revoked")
                => journal[k].pending
             /\ (\E x \in journal[k].grants : records'[x] # None /\ G!Current(records'[x]) = "active")
                => journal[k].present
  BY <1>4, <1>5, <1>6 DEF GrantsInv, KeyShapes
<1> QED
  BY <1>1, <1>5, <1>7, <1>8 DEF GrantsInv, Lived, Last, G!Current

LEMMA TouchStep ==
    ASSUME GrantsInv, NEW k \in Keys, G!Touch(k)
    PROVE  GrantsInv'
<1>1. /\ journal' = [journal EXCEPT ![k].intact = ~journal[k].intact]
      /\ UNCHANGED <<now, entryPolicy, records>>
  BY DEF G!Touch
<1>2. ASSUME NEW x \in Keys
      PROVE  /\ journal'[x] \in KeyShapes /\ journal'[x].grants = journal[x].grants
             /\ journal'[x].present = journal[x].present /\ journal'[x].pending = journal[x].pending
  BY <1>1 DEF GrantsInv, KeyShapes
<1>3. journal' \in [Keys -> KeyShapes]
  BY <1>1, <1>2 DEF GrantsInv
<1> QED
  BY <1>1, <1>2, <1>3 DEF GrantsInv, Lived, Last, G!Current

LEMMA TickStep ==
    ASSUME GrantsInv, G!Tick
    PROVE  GrantsInv'
<1>1. now' = now + 1 /\ now' \in G!Times /\ UNCHANGED <<entryPolicy, records, journal>>
  BY GrantFacts DEF G!Tick, GrantsInv, G!Times
<1>2. \A g \in Grants : records[g] # None => Last(records[g]).time <= now'
  <2> SUFFICES ASSUME NEW g \in Grants, records[g] # None PROVE Last(records[g]).time <= now'
    OBVIOUS
  <2>1. Lived(records[g]) /\ Last(records[g]).time <= now /\ now \in Nat
    BY DEF GrantsInv, G!Times
  <2>2. Last(records[g]).time \in Nat
    <3>1. records[g].states \in Seq(G!States) /\ Len(records[g].states) \in 1 .. 3
      BY <2>1 DEF Lived, G!Records
    <3>2. Last(records[g]) \in G!States
      BY <3>1 DEF Last
    <3> QED  BY <3>2 DEF G!States, G!Times
  <2> QED  BY <1>1, <2>1, <2>2
<1> QED
  BY <1>1, <1>2 DEF GrantsInv, Lived, Last, G!Current

LEMMA GrantsStep ==
    ASSUME GrantsInv, G!Next \/ UNCHANGED grantsVars
    PROVE  GrantsInv'
<1>1. CASE UNCHANGED grantsVars
  BY <1>1 DEF grantsVars, GrantsInv, Lived, Last, G!Current
<1>2. ASSUME NEW e \in PolicyEntries, NEW c \in EntryPolicies \union {None}, G!Edit(e, c) PROVE GrantsInv'
  BY <1>2 DEF G!Edit, GrantsInv, Lived, Last, G!Current
<1>3. CASE G!Next
  BY <1>2, <1>3, LaunchGrantStep, RevokeStep, ApproveGrantStep, LapseStep, TouchStep, TickStep DEF G!Next
<1> QED  BY <1>1, <1>3

--------------------------------------------------------------------------------
(* Credentials of a home.                                                        *)

CredentialsInv == C!TypeOK

LEMMA CredentialFacts ==
    /\ PerHome \notin Nodes /\ None \notin Nodes /\ None \notin {C!Stale, C!Mismatch}
    /\ MaxGeneration \in Nat \ {0} /\ Evidenced \subseteq C!Evidence
BY PartsAssumption DEF C!SourcesAssumption

LEMMA CredentialsInit == C!Init => CredentialsInv
BY CredentialFacts DEF C!Init, CredentialsInv, C!TypeOK, C!Sources

\* What the boundary lets through is of the binding, in what the fragment carries.
LEMMA BoundaryIsBound ==
    ASSUME NEW p, NEW b, NEW context_, C!FinalBoundary(p, b, context_) = None
    PROVE  /\ p.projection.source = b.source /\ b.context = context_
           /\ p.projection.generation = b.generation /\ p.projection.policy = b.policy
<1>1. C!PlanIsWhole(p) /\ b # None
  BY CredentialFacts DEF C!FinalBoundary
<1>2. /\ ~(b.source # p.projection.source \/ b.generation # p.generation \/ b.policy # p.policy)
      /\ b.context = context_
  BY <1>1, CredentialFacts DEF C!FinalBoundary
<1> QED  BY <1>1, <1>2 DEF C!PlanIsWhole

LEMMA CredentialsHold == C!ExecutedAsBound
BY BoundaryIsBound DEF C!ExecutedAsBound

LEMMA CredentialsStep ==
    ASSUME CredentialsInv, C!Next \/ UNCHANGED credentialVars
    PROVE  CredentialsInv'
<1> USE DEF CredentialsInv, C!TypeOK
<1>1. CASE UNCHANGED credentialVars
  BY <1>1 DEF credentialVars
<1>2. ASSUME NEW c \in C!Configurations, C!Configure(c) PROVE CredentialsInv'
  BY <1>2 DEF C!Configure
<1>3. ASSUME NEW o, C!Adopt(o) PROVE CredentialsInv'
  <2>1. config.source \in C!Sources
    BY DEF C!Configurations
  <2> QED  BY <1>3, <2>1 DEF C!Adopt
<1>4. ASSUME NEW e \in Evidenced, C!Appear(e) PROVE CredentialsInv'
  BY <1>4 DEF C!Appear
<1>5. ASSUME NEW n \in Nodes, C!Rotate(n) PROVE CredentialsInv'
  <2>1. generation[n] + 1 \in 1 .. MaxGeneration
    BY <1>5, CredentialFacts DEF C!Rotate
  <2> QED  BY <1>5, <2>1 DEF C!Rotate
<1>6. CASE C!MovePolicy
  BY <1>6, CredentialFacts DEF C!MovePolicy
<1>7. ASSUME NEW n \in Nodes, NEW c \in BoundContexts, C!Register(n, c) PROVE CredentialsInv'
  BY <1>7 DEF C!Register
<1>8. CASE C!Plan
  <2> DEFINE today == [source |-> config.source, generation |-> generation[config.source], policy |-> credentialPolicy]
  <2>1. today \in C!Projections
    BY <1>8 DEF C!Plan, C!Projections
  <2>2. plan' = [extension |-> today.source, generation |-> today.generation, policy |-> today.policy,
                 projection |-> today]
    BY <1>8 DEF C!Plan
  <2> HIDE DEF today
  <2>3. plan'.projection \in C!Projections
    BY <2>1, <2>2
  <2> QED  BY <1>8, <2>3 DEF C!Plan
<1>9. CASE C!Replan
  <2>1. PICK n \in Nodes : plan' = [plan EXCEPT !.extension = n, !.generation = generation[n], !.policy = credentialPolicy]
    BY <1>9 DEF C!Replan
  <2>2. plan'.projection \in C!Projections
    BY <2>1, <1>9 DEF C!Replan
  <2> QED  BY <1>9, <2>2 DEF C!Replan
<1> QED
  BY <1>1, <1>2, <1>3, <1>4, <1>5, <1>6, <1>7, <1>8, <1>9 DEF C!Next

--------------------------------------------------------------------------------
(* Admission of a launch.                                                        *)

\* The record of a launch; only a hosted one has a lease in it.
Recorded(r) ==
    /\ r = [project |-> r.project, permission |-> r.permission, binding |-> r.binding,
            policy |-> r.policy, provider |-> r.provider, qualification |-> r.qualification,
            suffix |-> r.suffix, route |-> r.route, state |-> r.state, lease |-> r.lease]
    /\ r.route \in {"native", "hosted"} /\ (r.route = "native" => r.lease = None)

Leased(x) ==
    /\ x = [phase |-> x.phase, holder |-> x.holder, revision |-> x.revision,
            binding |-> x.binding, provider |-> x.provider]
    /\ x.phase \in {"prepared", "active"} /\ x.holder \in Launches

\* What an admitted launch has: the record that preparing it now would make, a lease
\* of its own that nothing has used, and no less than the project asks.
Stands(l, p) ==
    /\ p = E!Prepared(l, force, p.route, p.suffix)
    /\ p.route = "hosted" => lease.holder = l /\ lease.phase = "prepared"
    /\ force.project.mode # "none" =>
           force.permission.mode # "yolo" /\ ~force.policy.relaxed /\ ~force.policy.uninspected
    /\ force.qualification.provider = force.provider /\ force.lane.approved
    /\ force.project.noTools => force.qualification.noTools

AdmissionInv ==
    /\ force \in E!Forces /\ moves \in 0 .. MaxMoves
    /\ lease # None => Leased(lease)
    /\ DOMAIN prepared = Launches /\ DOMAIN verdict = Launches
    /\ \A l \in Launches : prepared[l] # None => Recorded(prepared[l])
    /\ \A l \in Launches : verdict[l] = "admit" => Stands(l, prepared[l])

LEMMA AdmissionFacts == MaxMoves \in Nat /\ None # "admit"
BY PartsAssumption DEF E!MovesAssumption

LEMMA AdmissionHolds ==
    ASSUME AdmissionInv
    PROVE  E!TypeOK /\ E!StillAsPrepared /\ E!AdmittedAsAsked
BY DEF AdmissionInv, Leased, Stands, E!TypeOK, E!StillAsPrepared, E!AdmittedAsAsked

LEMMA ForceFields ==
    ASSUME NEW f, f \in E!Forces
    PROVE  /\ f.project \in E!Projects /\ f.permission \in E!Permissions /\ f.binding \in Nat
           /\ f.policy \in E!Policies /\ f.provider \in 1 .. 2
           /\ f.qualification \in E!Qualifications /\ f.lane \in E!Lanes
BY DEF E!Forces

\* The verdict is to admit only if nothing compared differs and nothing asked for is
\* missing.
LEMMA AdmitMeans ==
    ASSUME NEW l, NEW p, NEW f, E!Verdict(l, p, f) = "admit"
    PROVE  /\ p.project = f.project /\ p.permission = f.permission /\ p.binding = f.binding
           /\ p.policy = f.policy /\ p.provider = f.provider /\ p.qualification = f.qualification
           /\ p.provider = f.qualification.provider
           /\ ~E!Bypasses(p) /\ ~E!Uninspected(p)
           /\ ~(p.permission.mode = "native" /\ p.policy.relaxed)
           /\ f.lane.approved /\ ~(p.project.noTools /\ ~f.qualification.noTools)
           /\ p.state = E!LauncherState(l, p.binding)
           /\ p.route # "native" =>
                  /\ E!LeaseShown(l, p) = p.lease /\ E!LeaseShown(l, p).holder = l
                  /\ E!LeaseShown(l, p).phase = "prepared"
BY DEF E!Verdict, E!Downgraded, E!QualificationHolds, E!LeaseHolds

LEMMA JudgedStands ==
    ASSUME NEW l, NEW p, Recorded(p), force \in E!Forces, E!Verdict(l, p, force) = "admit"
    PROVE  Stands(l, p)
<1>1. /\ p.project = force.project /\ p.permission = force.permission /\ p.binding = force.binding
      /\ p.policy = force.policy /\ p.provider = force.provider /\ p.qualification = force.qualification
      /\ p.provider = force.qualification.provider /\ p.state = E!LauncherState(l, p.binding)
      /\ force.lane.approved /\ ~(p.project.noTools /\ ~force.qualification.noTools)
  BY AdmitMeans
<1>2. ~E!Bypasses(p) /\ ~E!Uninspected(p) /\ ~(p.permission.mode = "native" /\ p.policy.relaxed)
  BY AdmitMeans
<1>3. p.route # "native" => lease = p.lease /\ lease.holder = l /\ lease.phase = "prepared"
  BY AdmitMeans DEF E!LeaseShown
<1>4. p = E!Prepared(l, force, p.route, p.suffix)
  BY <1>1, <1>3 DEF Recorded, E!Prepared
<1>5. force.permission.mode \in {"yolo", "native"}
  BY ForceFields DEF E!Permissions, E!Permission
<1>6. force.project.mode # "none" =>
          force.permission.mode # "yolo" /\ ~force.policy.relaxed /\ ~force.policy.uninspected
  <2> SUFFICES ASSUME force.project.mode # "none"
               PROVE  force.permission.mode # "yolo" /\ ~force.policy.relaxed /\ ~force.policy.uninspected
    OBVIOUS
  <2>1. force.permission.mode = "native"
    BY <1>1, <1>2, <1>5 DEF E!Bypasses
  <2> QED  BY <1>1, <1>2, <2>1 DEF E!Uninspected
<1> QED  BY <1>1, <1>3, <1>4, <1>6 DEF Stands

LEMMA AdmissionInit == E!Init => AdmissionInv
<1> SUFFICES ASSUME E!Init PROVE AdmissionInv
  OBVIOUS
<1>1. force \in E!Forces
  <2>1. force \in [project : {E!Project("none", FALSE), E!Project("strict", TRUE)}, permission : E!Permissions,
                   binding : {0}, policy : {E!Policy("complete", FALSE, FALSE)}, provider : 1 .. 2,
                   qualification : E!Qualifications, lane : E!Lanes]
    BY DEF E!Init
  <2>2. /\ force = [project |-> force.project, permission |-> force.permission, binding |-> force.binding,
                    policy |-> force.policy, provider |-> force.provider,
                    qualification |-> force.qualification, lane |-> force.lane]
        /\ force.project \in {E!Project("none", FALSE), E!Project("strict", TRUE)}
        /\ force.permission \in E!Permissions /\ force.binding \in {0}
        /\ force.policy \in {E!Policy("complete", FALSE, FALSE)} /\ force.provider \in 1 .. 2
        /\ force.qualification \in E!Qualifications /\ force.lane \in E!Lanes
    BY <2>1
  <2>3. force.project \in E!Projects /\ force.policy \in E!Policies /\ force.binding \in Nat
    BY <2>2 DEF E!Projects, E!Project, E!Policies, E!Policy
  <2> QED  BY <2>2, <2>3 DEF E!Forces
<1> QED
  BY <1>1, AdmissionFacts DEF E!Init, AdmissionInv

\* What moves takes every verdict back.
LEMMA MoveStep ==
    ASSUME AdmissionInv, NEW f \in E!Forces, E!Move(f)
    PROVE  AdmissionInv'
<1>1. /\ force' = f /\ verdict' = [l \in Launches |-> None] /\ moves' = moves + 1 /\ moves < MaxMoves
      /\ UNCHANGED <<lease, prepared>>
  BY DEF E!Move, E!Unjudged
<1>2. moves' \in 0 .. MaxMoves
  BY <1>1, AdmissionFacts DEF AdmissionInv
<1> QED
  BY <1>1, <1>2, AdmissionFacts DEF AdmissionInv, Leased, Recorded

LEMMA LeaseStep ==
    ASSUME AdmissionInv, E!Activate \/ E!Release \/ \E l \in Launches : E!Acquire(l)
    PROVE  AdmissionInv'
<1>1. /\ verdict' = [l \in Launches |-> None] /\ UNCHANGED <<force, prepared>>
      /\ moves' \in 0 .. MaxMoves
  BY AdmissionFacts DEF E!Activate, E!Release, E!Acquire, E!Unjudged, AdmissionInv
<1>2. lease' # None => Leased(lease')
  <2>1. CASE E!Activate
    <3>1. lease' = [lease EXCEPT !.phase = "active"] /\ Leased(lease)
      BY <2>1 DEF E!Activate, AdmissionInv
    <3> QED  BY <3>1 DEF Leased
  <2>2. CASE E!Release
    BY <2>2 DEF E!Release
  <2>3. ASSUME NEW l \in Launches, E!Acquire(l) PROVE lease' # None => Leased(lease')
    BY <2>3 DEF E!Acquire, E!Lease, Leased
  <2> QED  BY <2>1, <2>2, <2>3
<1> QED
  BY <1>1, <1>2, AdmissionFacts DEF AdmissionInv, Leased, Recorded

LEMMA PrepareStep ==
    ASSUME AdmissionInv, NEW l \in Launches, NEW route \in {"native", "hosted"}, NEW suffix,
           E!Prepare(l, route, suffix)
    PROVE  AdmissionInv'
<1> DEFINE p == E!Prepared(l, force, route, suffix)
<1>1. /\ prepared' = [prepared EXCEPT ![l] = p] /\ verdict' = [verdict EXCEPT ![l] = None]
      /\ UNCHANGED <<force, lease, moves>>
  BY DEF E!Prepare
<1>2. Recorded(p)
  BY DEF Recorded, E!Prepared
<1> HIDE DEF p
<1>3. \A x \in Launches : prepared'[x] # None => Recorded(prepared'[x])
  BY <1>1, <1>2 DEF AdmissionInv
<1>4. \A x \in Launches : verdict'[x] = "admit" => x # l /\ verdict[x] = "admit" /\ prepared'[x] = prepared[x]
  BY <1>1, AdmissionFacts DEF AdmissionInv
<1>5. \A x \in Launches : verdict'[x] = "admit" => Stands(x, prepared[x])'
  BY <1>1, <1>4 DEF AdmissionInv, Stands, E!Prepared
<1> QED
  BY <1>1, <1>3, <1>5 DEF AdmissionInv, Leased

LEMMA AdmitStep ==
    ASSUME AdmissionInv, NEW l \in Launches, E!Admit(l)
    PROVE  AdmissionInv'
<1>1. /\ prepared[l] # None /\ verdict' = [verdict EXCEPT ![l] = E!Verdict(l, prepared[l], force)]
      /\ UNCHANGED <<force, lease, prepared, moves>>
  BY DEF E!Admit
<1>2. \A x \in Launches : verdict'[x] = "admit" => Stands(x, prepared[x])
  BY <1>1, JudgedStands DEF AdmissionInv
<1>3. \A x \in Launches : verdict'[x] = "admit" => Stands(x, prepared[x])'
  BY <1>1, <1>2 DEF Stands, E!Prepared
<1> QED
  BY <1>1, <1>3 DEF AdmissionInv, Leased, Recorded

LEMMA AdmissionStep ==
    ASSUME AdmissionInv, E!Next \/ UNCHANGED admissionVars
    PROVE  AdmissionInv'
<1>1. CASE UNCHANGED admissionVars
  BY <1>1 DEF admissionVars, AdmissionInv, Leased, Recorded, Stands, E!Prepared
<1>2. CASE E!Next
  <2> force \in E!Forces
    BY DEF AdmissionInv
  <2>1. ASSUME NEW x \in E!Projects, E!Move([force EXCEPT !.project = x]) PROVE AdmissionInv'
    BY <2>1, MoveStep DEF E!Forces
  <2>2. ASSUME NEW x \in E!Permissions, E!Move([force EXCEPT !.permission = x]) PROVE AdmissionInv'
    BY <2>2, MoveStep DEF E!Forces
  <2>3. ASSUME NEW x \in E!Policies, E!Move([force EXCEPT !.policy = x]) PROVE AdmissionInv'
    BY <2>3, MoveStep DEF E!Forces
  <2>4. ASSUME NEW x \in E!Qualifications, E!Move([force EXCEPT !.qualification = x]) PROVE AdmissionInv'
    BY <2>4, MoveStep DEF E!Forces
  <2>5. ASSUME NEW x \in E!Lanes, E!Move([force EXCEPT !.lane = x]) PROVE AdmissionInv'
    BY <2>5, MoveStep DEF E!Forces
  <2>6. ASSUME NEW x \in 1 .. 2, E!Move([force EXCEPT !.provider = x]) PROVE AdmissionInv'
    BY <2>6, MoveStep DEF E!Forces
  <2>7. ASSUME E!Move([force EXCEPT !.binding = @ + 1]) PROVE AdmissionInv'
    BY <2>7, MoveStep DEF E!Forces
  <2> QED
    BY <1>2, <2>1, <2>2, <2>3, <2>4, <2>5, <2>6, <2>7, LeaseStep, PrepareStep, AdmitStep DEF E!Next
<1> QED  BY <1>1, <1>2

--------------------------------------------------------------------------------
(* Security postures.                                                            *)

Shaped(c) ==
    /\ c = [revision |-> c.revision, schema |-> c.schema, posture |-> c.posture, machine |-> c.machine,
            system |-> c.system, hardens |-> c.hardens, locked |-> c.locked,
            passthrough |-> c.passthrough, others |-> c.others]
    /\ c.schema \in {1, 2} /\ c.passthrough \in {"s4-warn", "s4-enforce"}

WellAsked(o) == o.kind \in Y!Kinds /\ o.mcp \in BOOLEAN /\ o.unreachable \in BOOLEAN

PosturesInv == Y!TypeOK /\ Shaped(posture) /\ WellAsked(op)

LEMMA PostureFacts == MaxEdits \in Nat /\ None # "permissive" /\ None # "hardened"
BY PartsAssumption DEF Y!EditsAssumption

LEMMA LockKeys ==
    /\ \A k \in Y!Knobs : Y!LockKey[k] = IF k \in Y!Audits THEN "audit" ELSE k
    /\ "security_posture" \notin Y!Knobs /\ "audit" \notin Y!Knobs
BY DEF Y!LockKey, Y!Knobs, Y!ManagerKnobs, Y!Audits

\* What is wrong, by code, and what of it refuses.
LEMMA DiagnosticsAre ==
    ASSUME NEW c, NEW o
    PROVE  LET installs == o.kind \in {"install", "profile-install"} IN
           \A d : d \in Y!Diagnostics(c, o) <=>
               \/ ~Y!Hardened(c) /\ d = Y!Found("security_posture_permissive", "warning")
               \/ Y!Hardened(c) /\ Y!Weak(c, "allowed_sources") /\ installs
                  /\ d = Y!Found("source_allowlist_empty", "error")
               \/ o.kind = "profile-install" /\ Y!Weak(c, "mcp_package_allowlist")
                  /\ d = Y!Found("mcp_package_allowlist_empty",
                                 IF Y!Hardened(c) /\ o.mcp THEN "error" ELSE "warning")
               \/ Y!Hardened(c) /\ Y!NullExplicit(c) /\ o.kind = "profile-install"
                  /\ d = Y!Found("passable_env_names_unbounded_refused", "error")
               \/ o.unreachable /\ installs
                  /\ d = Y!Found("registry_unreachable_during_install",
                                 IF Y!Hardened(c) THEN "error" ELSE "warning")
BY DEF Y!Diagnostics, Y!When

LEMMA FoundIs ==
    ASSUME NEW code, NEW severity
    PROVE  Y!Found(code, severity).code = code /\ Y!Found(code, severity).severity = severity
BY DEF Y!Found

LEMMA CodesAre ==
    ASSUME NEW c, NEW o
    PROVE  {d.code : d \in Y!Diagnostics(c, o)} =
               (IF Y!Hardened(c) THEN {} ELSE {"security_posture_permissive"})
               \union (IF Y!Hardened(c) /\ Y!Weak(c, "allowed_sources")
                              /\ o.kind \in {"install", "profile-install"}
                       THEN {"source_allowlist_empty"} ELSE {})
               \union (IF o.kind = "profile-install" /\ Y!Weak(c, "mcp_package_allowlist")
                       THEN {"mcp_package_allowlist_empty"} ELSE {})
               \union (IF Y!Hardened(c) /\ Y!NullExplicit(c) /\ o.kind = "profile-install"
                       THEN {"passable_env_names_unbounded_refused"} ELSE {})
               \union (IF o.unreachable /\ o.kind \in {"install", "profile-install"}
                       THEN {"registry_unreachable_during_install"} ELSE {})
BY DiagnosticsAre, FoundIs

LEMMA ErrorsAre ==
    ASSUME NEW c, NEW o
    PROVE  LET installs == o.kind \in {"install", "profile-install"} IN
           (\E d \in Y!Diagnostics(c, o) : d.severity = "error") <=>
               /\ Y!Hardened(c)
               /\ \/ Y!Weak(c, "allowed_sources") /\ installs
                  \/ o.kind = "profile-install" /\ Y!Weak(c, "mcp_package_allowlist") /\ o.mcp
                  \/ Y!NullExplicit(c) /\ o.kind = "profile-install"
                  \/ o.unreachable /\ installs
BY DiagnosticsAre, FoundIs

\* A configuration that nothing is locked in is what its machine and posture say.
LEMMA PlainReads ==
    ASSUME NEW c, c.schema = 2, c.locked = {}, NEW strong, NEW weak, c.machine = Y!Machine(strong, weak)
    PROVE  /\ Y!Weak(c, "allowed_sources") <=> "allowed_sources" \notin strong
           /\ Y!Weak(c, "mcp_package_allowlist") <=> "mcp_package_allowlist" \notin strong
           /\ Y!NullExplicit(c) <=> "passable_env_names" \in weak \ strong
           /\ "audit_mode" \in weak => Y!Resolve(c, "audit_mode").source = "explicit"
           /\ \A o : Y!WellFormed(c, o)
<1>1. /\ DOMAIN c.machine = strong \union weak
      /\ \A k \in strong \union weak : c.machine[k] = IF k \in strong THEN "strong" ELSE "weak"
  BY DEF Y!Machine
<1>2. /\ "allowed_sources" \in Y!Known(c) /\ "mcp_package_allowlist" \in Y!Known(c)
      /\ "passable_env_names" \in Y!Known(c)
  BY DEF Y!Known, Y!Knobs, Y!ManagerKnobs
<1>3. \A k : Y!Resolve(c, k) = IF k \in strong \union weak
                               THEN [value |-> IF k \in strong THEN "strong" ELSE "weak", source |-> "explicit"]
                               ELSE [value |-> Y!Default(c, k), source |-> "profile"]
  BY <1>1 DEF Y!Resolve
<1>4. Y!Default(c, "allowed_sources") = "weak" /\ Y!Default(c, "mcp_package_allowlist") = "weak"
  BY DEF Y!Default, Y!Postured
<1>5. /\ Y!Weak(c, "allowed_sources") <=> "allowed_sources" \notin strong
      /\ Y!Weak(c, "mcp_package_allowlist") <=> "mcp_package_allowlist" \notin strong
  BY <1>2, <1>3, <1>4 DEF Y!Weak
<1>6. Y!NullExplicit(c) <=> "passable_env_names" \in weak \ strong
  BY <1>2, <1>3 DEF Y!Weak, Y!NullExplicit
<1>7. \A o : Y!WellFormed(c, o)
  BY DEF Y!WellFormed
<1>8. "audit_mode" \in weak => Y!Resolve(c, "audit_mode").source = "explicit"
  BY <1>3
<1> QED  BY <1>5, <1>6, <1>7, <1>8

LEMMA PlainIs ==
    ASSUME NEW revision_, NEW posture_, NEW strong, NEW weak, NEW c,
           c = Y!Plain(revision_, posture_, strong, weak)
    PROVE  /\ c.revision = revision_ /\ c.schema = 2 /\ c.posture = posture_ /\ c.locked = {}
           /\ c.machine = Y!Machine(strong, weak) /\ Shaped(c)
BY DEF Y!Plain, Shaped

\* A case under its name, and what it starts from.
Shows(s) ==
    /\ Y!KeepsItsName(s, s.config, s.op)
    /\ Shaped(s.config) /\ WellAsked(s.op) /\ Y!WellFormed(s.config, s.op)

LEMMA PermissiveStatus ==
    ASSUME NEW s, s = Y!Case("revision-A-default-permissive-status",
                             Y!Plain("A", None, {}, {}),
                             Y!Op("status", FALSE, FALSE), {"security_posture_permissive"}, "current")
    PROVE  Shows(s)
<1> DEFINE c == s.config
           o == s.op
<1>1. /\ s.name = "revision-A-default-permissive-status" /\ s.promise = {"security_posture_permissive"} /\ s.outcome = "current"
      /\ c = Y!Plain("A", None, {}, {})
      /\ o.kind = "status" /\ o.mcp = FALSE /\ o.unreachable = FALSE
  BY DEF Y!Case, Y!Op
<1> HIDE DEF c, o
<1>2. /\ c.schema = 2 /\ c.locked = {} /\ c.posture = None /\ c.revision = "A" /\ Shaped(c)
      /\ c.machine = Y!Machine({}, {})
  BY <1>1, PlainIs
<1>3. ~Y!Hardened(c)
  BY <1>2, PostureFacts DEF Y!Hardened, Y!Profile
<1>4. /\ Y!Weak(c, "allowed_sources") /\ Y!Weak(c, "mcp_package_allowlist")
      /\ ~Y!NullExplicit(c) /\ Y!WellFormed(c, o)
  BY <1>2, PlainReads
<1>5. {d.code : d \in Y!Diagnostics(c, o)} = {"security_posture_permissive"}
  BY <1>1, <1>3, <1>4, CodesAre
<1>6. Y!Outcome(c, o) = "current"
  BY <1>1, <1>3, <1>4, ErrorsAre DEF Y!Outcome, Y!Contradicts
<1> QED
  BY <1>1, <1>2, <1>4, <1>5, <1>6 DEF Shows, Y!KeepsItsName, WellAsked, Y!Kinds, c, o

LEMMA FlipInstalls ==
    ASSUME NEW s, s = Y!Case("revision-B-default-hardened-flip-install",
                             Y!Plain("B", None, Y!Both, {}),
                             Y!Op("install", FALSE, FALSE), {}, "proceeds")
    PROVE  Shows(s)
<1> DEFINE c == s.config
           o == s.op
<1>1. /\ s.name = "revision-B-default-hardened-flip-install" /\ s.promise = {} /\ s.outcome = "proceeds"
      /\ c = Y!Plain("B", None, Y!Both, {})
      /\ o.kind = "install" /\ o.mcp = FALSE /\ o.unreachable = FALSE
  BY DEF Y!Case, Y!Op
<1> HIDE DEF c, o
<1>2. /\ c.schema = 2 /\ c.locked = {} /\ c.posture = None /\ c.revision = "B" /\ Shaped(c)
      /\ c.machine = Y!Machine(Y!Both, {})
  BY <1>1, PlainIs
<1>3. Y!Hardened(c)
  BY <1>2, PostureFacts DEF Y!Hardened, Y!Profile
<1>4. /\ ~Y!Weak(c, "allowed_sources") /\ ~Y!Weak(c, "mcp_package_allowlist")
      /\ ~Y!NullExplicit(c) /\ Y!WellFormed(c, o)
  BY <1>2, PlainReads DEF Y!Both
<1>5. {d.code : d \in Y!Diagnostics(c, o)} = {}
  <2>1. Y!Diagnostics(c, o) = {}
    BY <1>1, <1>3, <1>4, DiagnosticsAre
  <2> QED  BY <2>1
<1>6. Y!Outcome(c, o) = "proceeds"
  BY <1>1, <1>3, <1>4, ErrorsAre DEF Y!Outcome, Y!Contradicts
<1> QED
  BY <1>1, <1>2, <1>4, <1>5, <1>6 DEF Shows, Y!KeepsItsName, WellAsked, Y!Kinds, c, o

LEMMA HardenedStatus ==
    ASSUME NEW s, s = Y!Case("explicit-hardened-effective-defaults",
                             Y!Plain("A", "hardened", {}, {}),
                             Y!Op("status", FALSE, FALSE), {}, "current")
    PROVE  Shows(s)
<1> DEFINE c == s.config
           o == s.op
<1>1. /\ s.name = "explicit-hardened-effective-defaults" /\ s.promise = {} /\ s.outcome = "current"
      /\ c = Y!Plain("A", "hardened", {}, {})
      /\ o.kind = "status" /\ o.mcp = FALSE /\ o.unreachable = FALSE
  BY DEF Y!Case, Y!Op
<1> HIDE DEF c, o
<1>2. /\ c.schema = 2 /\ c.locked = {} /\ c.posture = "hardened" /\ c.revision = "A" /\ Shaped(c)
      /\ c.machine = Y!Machine({}, {})
  BY <1>1, PlainIs
<1>3. Y!Hardened(c)
  BY <1>2, PostureFacts DEF Y!Hardened, Y!Profile
<1>4. /\ Y!Weak(c, "allowed_sources") /\ Y!Weak(c, "mcp_package_allowlist")
      /\ ~Y!NullExplicit(c) /\ Y!WellFormed(c, o)
  BY <1>2, PlainReads
<1>5. {d.code : d \in Y!Diagnostics(c, o)} = {}
  <2>1. Y!Diagnostics(c, o) = {}
    BY <1>1, <1>3, <1>4, DiagnosticsAre
  <2> QED  BY <2>1
<1>6. Y!Outcome(c, o) = "current"
  BY <1>1, <1>3, <1>4, ErrorsAre DEF Y!Outcome, Y!Contradicts
<1> QED
  BY <1>1, <1>2, <1>4, <1>5, <1>6 DEF Shows, Y!KeepsItsName, WellAsked, Y!Kinds, c, o

LEMMA KnobBeatsDefault ==
    ASSUME NEW s, s = Y!Case("explicit-knob-beats-profile-default",
                             Y!Plain("A", "hardened", Y!Both, {"audit_mode"}),
                             Y!Op("install", FALSE, FALSE), {}, "proceeds")
    PROVE  Shows(s)
<1> DEFINE c == s.config
           o == s.op
<1>1. /\ s.name = "explicit-knob-beats-profile-default" /\ s.promise = {} /\ s.outcome = "proceeds"
      /\ c = Y!Plain("A", "hardened", Y!Both, {"audit_mode"})
      /\ o.kind = "install" /\ o.mcp = FALSE /\ o.unreachable = FALSE
  BY DEF Y!Case, Y!Op
<1> HIDE DEF c, o
<1>2. /\ c.schema = 2 /\ c.locked = {} /\ c.posture = "hardened" /\ c.revision = "A" /\ Shaped(c)
      /\ c.machine = Y!Machine(Y!Both, {"audit_mode"})
  BY <1>1, PlainIs
<1>3. Y!Hardened(c)
  BY <1>2, PostureFacts DEF Y!Hardened, Y!Profile
<1>4. /\ ~Y!Weak(c, "allowed_sources") /\ ~Y!Weak(c, "mcp_package_allowlist")
      /\ ~Y!NullExplicit(c) /\ Y!WellFormed(c, o) /\ Y!Resolve(c, "audit_mode").source = "explicit"
  BY <1>2, PlainReads DEF Y!Both
<1>5. {d.code : d \in Y!Diagnostics(c, o)} = {}
  <2>1. Y!Diagnostics(c, o) = {}
    BY <1>1, <1>3, <1>4, DiagnosticsAre
  <2> QED  BY <2>1
<1>6. Y!Outcome(c, o) = "proceeds"
  BY <1>1, <1>3, <1>4, ErrorsAre DEF Y!Outcome, Y!Contradicts
<1> QED
  BY <1>1, <1>2, <1>4, <1>5, <1>6 DEF Shows, Y!KeepsItsName, WellAsked, Y!Kinds, c, o

LEMMA EmptySources ==
    ASSUME NEW s, s = Y!Case("refusal-source-allowlist-empty-explicit",
                             Y!Plain("A", "hardened", {}, {"allowed_sources"}),
                             Y!Op("install", FALSE, FALSE), {"source_allowlist_empty"}, "refused")
    PROVE  Shows(s)
<1> DEFINE c == s.config
           o == s.op
<1>1. /\ s.name = "refusal-source-allowlist-empty-explicit" /\ s.promise = {"source_allowlist_empty"} /\ s.outcome = "refused"
      /\ c = Y!Plain("A", "hardened", {}, {"allowed_sources"})
      /\ o.kind = "install" /\ o.mcp = FALSE /\ o.unreachable = FALSE
  BY DEF Y!Case, Y!Op
<1> HIDE DEF c, o
<1>2. /\ c.schema = 2 /\ c.locked = {} /\ c.posture = "hardened" /\ c.revision = "A" /\ Shaped(c)
      /\ c.machine = Y!Machine({}, {"allowed_sources"})
  BY <1>1, PlainIs
<1>3. Y!Hardened(c)
  BY <1>2, PostureFacts DEF Y!Hardened, Y!Profile
<1>4. /\ Y!Weak(c, "allowed_sources") /\ Y!Weak(c, "mcp_package_allowlist")
      /\ ~Y!NullExplicit(c) /\ Y!WellFormed(c, o)
  BY <1>2, PlainReads
<1>5. {d.code : d \in Y!Diagnostics(c, o)} = {"source_allowlist_empty"}
  BY <1>1, <1>3, <1>4, CodesAre, ZenonT(30)
<1>6. Y!Outcome(c, o) = "refused"
  BY <1>1, <1>3, <1>4, ErrorsAre DEF Y!Outcome, Y!Contradicts
<1> QED
  BY <1>1, <1>2, <1>4, <1>5, <1>6 DEF Shows, Y!KeepsItsName, WellAsked, Y!Kinds, c, o

LEMMA EmptyPackages ==
    ASSUME NEW s, s = Y!Case("refusal-mcp-allowlist-empty-with-declarations",
                             Y!Plain("B", None, {"allowed_sources"}, {}),
                             Y!Op("profile-install", TRUE, FALSE), {"mcp_package_allowlist_empty"}, "refused")
    PROVE  Shows(s)
<1> DEFINE c == s.config
           o == s.op
<1>1. /\ s.name = "refusal-mcp-allowlist-empty-with-declarations" /\ s.promise = {"mcp_package_allowlist_empty"} /\ s.outcome = "refused"
      /\ c = Y!Plain("B", None, {"allowed_sources"}, {})
      /\ o.kind = "profile-install" /\ o.mcp = TRUE /\ o.unreachable = FALSE
  BY DEF Y!Case, Y!Op
<1> HIDE DEF c, o
<1>2. /\ c.schema = 2 /\ c.locked = {} /\ c.posture = None /\ c.revision = "B" /\ Shaped(c)
      /\ c.machine = Y!Machine({"allowed_sources"}, {})
  BY <1>1, PlainIs
<1>3. Y!Hardened(c)
  BY <1>2, PostureFacts DEF Y!Hardened, Y!Profile
<1>4. /\ ~Y!Weak(c, "allowed_sources") /\ Y!Weak(c, "mcp_package_allowlist")
      /\ ~Y!NullExplicit(c) /\ Y!WellFormed(c, o)
  BY <1>2, PlainReads
<1>5. {d.code : d \in Y!Diagnostics(c, o)} = {"mcp_package_allowlist_empty"}
  BY <1>1, <1>3, <1>4, CodesAre, ZenonT(30)
<1>6. Y!Outcome(c, o) = "refused"
  BY <1>1, <1>3, <1>4, ErrorsAre DEF Y!Outcome, Y!Contradicts
<1> QED
  BY <1>1, <1>2, <1>4, <1>5, <1>6 DEF Shows, Y!KeepsItsName, WellAsked, Y!Kinds, c, o

LEMMA EmptyPackagesWarn ==
    ASSUME NEW s, s = Y!Case("hardened-empty-mcp-allowlist-without-declarations-warns",
                             Y!Plain("B", "hardened", {"allowed_sources"}, {}),
                             Y!Op("profile-install", FALSE, FALSE), {"mcp_package_allowlist_empty"}, "proceeds")
    PROVE  Shows(s)
<1> DEFINE c == s.config
           o == s.op
<1>1. /\ s.name = "hardened-empty-mcp-allowlist-without-declarations-warns" /\ s.promise = {"mcp_package_allowlist_empty"} /\ s.outcome = "proceeds"
      /\ c = Y!Plain("B", "hardened", {"allowed_sources"}, {})
      /\ o.kind = "profile-install" /\ o.mcp = FALSE /\ o.unreachable = FALSE
  BY DEF Y!Case, Y!Op
<1> HIDE DEF c, o
<1>2. /\ c.schema = 2 /\ c.locked = {} /\ c.posture = "hardened" /\ c.revision = "B" /\ Shaped(c)
      /\ c.machine = Y!Machine({"allowed_sources"}, {})
  BY <1>1, PlainIs
<1>3. Y!Hardened(c)
  BY <1>2, PostureFacts DEF Y!Hardened, Y!Profile
<1>4. /\ ~Y!Weak(c, "allowed_sources") /\ Y!Weak(c, "mcp_package_allowlist")
      /\ ~Y!NullExplicit(c) /\ Y!WellFormed(c, o)
  BY <1>2, PlainReads
<1>5. {d.code : d \in Y!Diagnostics(c, o)} = {"mcp_package_allowlist_empty"}
  BY <1>1, <1>3, <1>4, CodesAre, ZenonT(30)
<1>6. Y!Outcome(c, o) = "proceeds"
  BY <1>1, <1>3, <1>4, ErrorsAre DEF Y!Outcome, Y!Contradicts
<1> QED
  BY <1>1, <1>2, <1>4, <1>5, <1>6 DEF Shows, Y!KeepsItsName, WellAsked, Y!Kinds, c, o

LEMMA NullNames ==
    ASSUME NEW s, s = Y!Case("refusal-passable-env-null",
                             Y!Plain("A", "hardened", Y!Both, {"passable_env_names"}),
                             Y!Op("profile-install", TRUE, FALSE), {"passable_env_names_unbounded_refused"}, "refused")
    PROVE  Shows(s)
<1> DEFINE c == s.config
           o == s.op
<1>1. /\ s.name = "refusal-passable-env-null" /\ s.promise = {"passable_env_names_unbounded_refused"} /\ s.outcome = "refused"
      /\ c = Y!Plain("A", "hardened", Y!Both, {"passable_env_names"})
      /\ o.kind = "profile-install" /\ o.mcp = TRUE /\ o.unreachable = FALSE
  BY DEF Y!Case, Y!Op
<1> HIDE DEF c, o
<1>2. /\ c.schema = 2 /\ c.locked = {} /\ c.posture = "hardened" /\ c.revision = "A" /\ Shaped(c)
      /\ c.machine = Y!Machine(Y!Both, {"passable_env_names"})
  BY <1>1, PlainIs
<1>3. Y!Hardened(c)
  BY <1>2, PostureFacts DEF Y!Hardened, Y!Profile
<1>4. /\ ~Y!Weak(c, "allowed_sources") /\ ~Y!Weak(c, "mcp_package_allowlist")
      /\ Y!NullExplicit(c) /\ Y!WellFormed(c, o)
  BY <1>2, PlainReads DEF Y!Both
<1>5. {d.code : d \in Y!Diagnostics(c, o)} = {"passable_env_names_unbounded_refused"}
  BY <1>1, <1>3, <1>4, CodesAre, ZenonT(30)
<1>6. Y!Outcome(c, o) = "refused"
  BY <1>1, <1>3, <1>4, ErrorsAre DEF Y!Outcome, Y!Contradicts
<1> QED
  BY <1>1, <1>2, <1>4, <1>5, <1>6 DEF Shows, Y!KeepsItsName, WellAsked, Y!Kinds, c, o

LEMMA PermissiveInstall ==
    ASSUME NEW s, s = Y!Case("revision-A-permissive-warning-once-install",
                             Y!Plain("A", None, {}, {}),
                             Y!Op("install", FALSE, FALSE), {"security_posture_permissive"}, "proceeds")
    PROVE  Shows(s)
<1> DEFINE c == s.config
           o == s.op
<1>1. /\ s.name = "revision-A-permissive-warning-once-install" /\ s.promise = {"security_posture_permissive"} /\ s.outcome = "proceeds"
      /\ c = Y!Plain("A", None, {}, {})
      /\ o.kind = "install" /\ o.mcp = FALSE /\ o.unreachable = FALSE
  BY DEF Y!Case, Y!Op
<1> HIDE DEF c, o
<1>2. /\ c.schema = 2 /\ c.locked = {} /\ c.posture = None /\ c.revision = "A" /\ Shaped(c)
      /\ c.machine = Y!Machine({}, {})
  BY <1>1, PlainIs
<1>3. ~Y!Hardened(c)
  BY <1>2, PostureFacts DEF Y!Hardened, Y!Profile
<1>4. /\ Y!Weak(c, "allowed_sources") /\ Y!Weak(c, "mcp_package_allowlist")
      /\ ~Y!NullExplicit(c) /\ Y!WellFormed(c, o)
  BY <1>2, PlainReads
<1>5. {d.code : d \in Y!Diagnostics(c, o)} = {"security_posture_permissive"}
  BY <1>1, <1>3, <1>4, CodesAre, ZenonT(30)
<1>6. Y!Outcome(c, o) = "proceeds"
  BY <1>1, <1>3, <1>4, ErrorsAre DEF Y!Outcome, Y!Contradicts
<1> QED
  BY <1>1, <1>2, <1>4, <1>5, <1>6 DEF Shows, Y!KeepsItsName, WellAsked, Y!Kinds, c, o

LEMMA UnreachableWarns ==
    ASSUME NEW s, s = Y!Case("unreachable-registry-permissive-warns",
                             Y!Plain("A", None, {"allowed_sources"}, {}),
                             Y!Op("install", FALSE, TRUE), {"security_posture_permissive", "registry_unreachable_during_install"}, "proceeds")
    PROVE  Shows(s)
<1> DEFINE c == s.config
           o == s.op
<1>1. /\ s.name = "unreachable-registry-permissive-warns" /\ s.promise = {"security_posture_permissive", "registry_unreachable_during_install"} /\ s.outcome = "proceeds"
      /\ c = Y!Plain("A", None, {"allowed_sources"}, {})
      /\ o.kind = "install" /\ o.mcp = FALSE /\ o.unreachable = TRUE
  BY DEF Y!Case, Y!Op
<1> HIDE DEF c, o
<1>2. /\ c.schema = 2 /\ c.locked = {} /\ c.posture = None /\ c.revision = "A" /\ Shaped(c)
      /\ c.machine = Y!Machine({"allowed_sources"}, {})
  BY <1>1, PlainIs
<1>3. ~Y!Hardened(c)
  BY <1>2, PostureFacts DEF Y!Hardened, Y!Profile
<1>4. /\ ~Y!Weak(c, "allowed_sources") /\ Y!Weak(c, "mcp_package_allowlist")
      /\ ~Y!NullExplicit(c) /\ Y!WellFormed(c, o)
  BY <1>2, PlainReads
<1>5. {d.code : d \in Y!Diagnostics(c, o)} = {"security_posture_permissive", "registry_unreachable_during_install"}
  BY <1>1, <1>3, <1>4, CodesAre
<1>6. Y!Outcome(c, o) = "proceeds"
  BY <1>1, <1>3, <1>4, ErrorsAre DEF Y!Outcome, Y!Contradicts
<1> QED
  BY <1>1, <1>2, <1>4, <1>5, <1>6 DEF Shows, Y!KeepsItsName, WellAsked, Y!Kinds, c, o

LEMMA UnreachableRefuses ==
    ASSUME NEW s, s = Y!Case("unreachable-registry-hardened-refuses",
                             Y!Plain("A", "hardened", {"allowed_sources"}, {}),
                             Y!Op("install", FALSE, TRUE), {"registry_unreachable_during_install"}, "refused")
    PROVE  Shows(s)
<1> DEFINE c == s.config
           o == s.op
<1>1. /\ s.name = "unreachable-registry-hardened-refuses" /\ s.promise = {"registry_unreachable_during_install"} /\ s.outcome = "refused"
      /\ c = Y!Plain("A", "hardened", {"allowed_sources"}, {})
      /\ o.kind = "install" /\ o.mcp = FALSE /\ o.unreachable = TRUE
  BY DEF Y!Case, Y!Op
<1> HIDE DEF c, o
<1>2. /\ c.schema = 2 /\ c.locked = {} /\ c.posture = "hardened" /\ c.revision = "A" /\ Shaped(c)
      /\ c.machine = Y!Machine({"allowed_sources"}, {})
  BY <1>1, PlainIs
<1>3. Y!Hardened(c)
  BY <1>2, PostureFacts DEF Y!Hardened, Y!Profile
<1>4. /\ ~Y!Weak(c, "allowed_sources") /\ Y!Weak(c, "mcp_package_allowlist")
      /\ ~Y!NullExplicit(c) /\ Y!WellFormed(c, o)
  BY <1>2, PlainReads
<1>5. {d.code : d \in Y!Diagnostics(c, o)} = {"registry_unreachable_during_install"}
  BY <1>1, <1>3, <1>4, CodesAre, ZenonT(30)
<1>6. Y!Outcome(c, o) = "refused"
  BY <1>1, <1>3, <1>4, ErrorsAre DEF Y!Outcome, Y!Contradicts
<1> QED
  BY <1>1, <1>2, <1>4, <1>5, <1>6 DEF Shows, Y!KeepsItsName, WellAsked, Y!Kinds, c, o

LEMMA NonCurrent ==
    ASSUME NEW s, s = Y!Case("hardened-contradiction-status-check-non-current",
                             Y!Plain("B", None, {}, {}),
                             Y!Op("status-check", TRUE, FALSE), {}, "non-current")
    PROVE  Shows(s)
<1> DEFINE c == s.config
           o == s.op
<1>1. /\ s.name = "hardened-contradiction-status-check-non-current" /\ s.promise = {} /\ s.outcome = "non-current"
      /\ c = Y!Plain("B", None, {}, {})
      /\ o.kind = "status-check" /\ o.mcp = TRUE /\ o.unreachable = FALSE
  BY DEF Y!Case, Y!Op
<1> HIDE DEF c, o
<1>2. /\ c.schema = 2 /\ c.locked = {} /\ c.posture = None /\ c.revision = "B" /\ Shaped(c)
      /\ c.machine = Y!Machine({}, {})
  BY <1>1, PlainIs
<1>3. Y!Hardened(c)
  BY <1>2, PostureFacts DEF Y!Hardened, Y!Profile
<1>4. /\ Y!Weak(c, "allowed_sources") /\ Y!Weak(c, "mcp_package_allowlist")
      /\ ~Y!NullExplicit(c) /\ Y!WellFormed(c, o)
  BY <1>2, PlainReads
<1>5. {d.code : d \in Y!Diagnostics(c, o)} = {}
  <2>1. Y!Diagnostics(c, o) = {}
    BY <1>1, <1>3, <1>4, DiagnosticsAre
  <2> QED  BY <2>1
<1>6. Y!Outcome(c, o) = "non-current"
  BY <1>1, <1>3, <1>4, ErrorsAre DEF Y!Outcome, Y!Contradicts
<1> QED
  BY <1>1, <1>2, <1>4, <1>5, <1>6 DEF Shows, Y!KeepsItsName, WellAsked, Y!Kinds, c, o

LEMMA WarnFollows ==
    ASSUME NEW s, s = Y!Case("hardened-absent-passthrough-follows-s4-warn",
                             [Y!Plain("A", "hardened", Y!Both, {}) EXCEPT !.passthrough = "s4-warn"],
                             Y!Op("profile-install", TRUE, FALSE), {}, "proceeds")
    PROVE  Shows(s)
<1> DEFINE c == s.config
           o == s.op
<1>1. /\ s.name = "hardened-absent-passthrough-follows-s4-warn" /\ s.promise = {} /\ s.outcome = "proceeds"
      /\ c = [Y!Plain("A", "hardened", Y!Both, {}) EXCEPT !.passthrough = "s4-warn"]
      /\ o.kind = "profile-install" /\ o.mcp = TRUE /\ o.unreachable = FALSE
  BY DEF Y!Case, Y!Op
<1> HIDE DEF c, o
<1>2. /\ c.schema = 2 /\ c.locked = {} /\ c.posture = "hardened" /\ Shaped(c)
      /\ c.machine = Y!Machine(Y!Both, {})
  BY <1>1 DEF Y!Plain, Shaped
<1>3. Y!Hardened(c)
  BY <1>2, PostureFacts DEF Y!Hardened, Y!Profile
<1>4. /\ ~Y!Weak(c, "allowed_sources") /\ ~Y!Weak(c, "mcp_package_allowlist")
      /\ ~Y!NullExplicit(c) /\ Y!WellFormed(c, o)
  BY <1>2, PlainReads DEF Y!Both
<1>5. {d.code : d \in Y!Diagnostics(c, o)} = {}
  <2>1. Y!Diagnostics(c, o) = {}
    BY <1>1, <1>3, <1>4, DiagnosticsAre
  <2> QED  BY <2>1
<1>6. Y!Outcome(c, o) = "proceeds"
  BY <1>1, <1>3, <1>4, ErrorsAre DEF Y!Outcome, Y!Contradicts
<1> QED
  BY <1>1, <1>2, <1>4, <1>5, <1>6 DEF Shows, Y!KeepsItsName, WellAsked, Y!Kinds, c, o

LEMMA RowsFlipped ==
    ASSUME NEW s, s = Y!Case("posture-rows-flipped-revisions",
                             [Y!Plain("B", "hardened", Y!Both \union {"audit_mode", "transitive_system_modules", "require_source_signers"}, {}) EXCEPT !.others = "B"],
                             Y!Op("status", TRUE, FALSE), {}, "current")
    PROVE  Shows(s)
<1> DEFINE c == s.config
           o == s.op
<1>1. /\ s.name = "posture-rows-flipped-revisions" /\ s.promise = {} /\ s.outcome = "current"
      /\ c = [Y!Plain("B", "hardened", Y!Both \union {"audit_mode", "transitive_system_modules", "require_source_signers"}, {}) EXCEPT !.others = "B"]
      /\ o.kind = "status" /\ o.mcp = TRUE /\ o.unreachable = FALSE
  BY DEF Y!Case, Y!Op
<1> HIDE DEF c, o
<1>2. /\ c.schema = 2 /\ c.locked = {} /\ c.posture = "hardened" /\ Shaped(c)
      /\ c.machine = Y!Machine(Y!Both \union {"audit_mode", "transitive_system_modules", "require_source_signers"}, {})
  BY <1>1 DEF Y!Plain, Shaped
<1>3. Y!Hardened(c)
  BY <1>2, PostureFacts DEF Y!Hardened, Y!Profile
<1>4. /\ ~Y!Weak(c, "allowed_sources") /\ ~Y!Weak(c, "mcp_package_allowlist")
      /\ ~Y!NullExplicit(c) /\ Y!WellFormed(c, o)
  BY <1>2, PlainReads DEF Y!Both
<1>5. {d.code : d \in Y!Diagnostics(c, o)} = {}
  <2>1. Y!Diagnostics(c, o) = {}
    BY <1>1, <1>3, <1>4, DiagnosticsAre
  <2> QED  BY <2>1
<1>6. Y!Outcome(c, o) = "current"
  BY <1>1, <1>3, <1>4, ErrorsAre DEF Y!Outcome, Y!Contradicts
<1> QED
  BY <1>1, <1>2, <1>4, <1>5, <1>6 DEF Shows, Y!KeepsItsName, WellAsked, Y!Kinds, c, o

LEMMA LockedValue ==
    ASSUME NEW s, s = Y!Case("locked-value-beats-explicit",
                             [Y!Plain("A", None, {}, Y!Audits) EXCEPT !.locked = {"audit"},
                                  !.system = Y!Machine(Y!Audits, {})],
                             Y!Op("status", FALSE, FALSE), {"security_posture_permissive"}, "current")
    PROVE  Shows(s)
<1> DEFINE c == s.config
           o == s.op
<1>1. /\ s.name = "locked-value-beats-explicit" /\ s.promise = {"security_posture_permissive"}
      /\ s.outcome = "current"
      /\ c = [Y!Plain("A", None, {}, Y!Audits) EXCEPT !.locked = {"audit"},
                  !.system = Y!Machine(Y!Audits, {})]
      /\ o.kind = "status" /\ o.mcp = FALSE /\ o.unreachable = FALSE
  BY DEF Y!Case, Y!Op
<1> HIDE DEF c, o
<1>2. /\ c.schema = 2 /\ c.locked = {"audit"} /\ c.posture = None /\ c.revision = "A" /\ Shaped(c)
      /\ c.system = Y!Machine(Y!Audits, {})
  BY <1>1 DEF Y!Plain, Shaped
<1>3. ~Y!Hardened(c)
  BY <1>2, PostureFacts DEF Y!Hardened, Y!Profile
<1>4. DOMAIN c.system = Y!Audits /\ \A k \in Y!Audits : c.system[k] = "strong"
  BY <1>2 DEF Y!Machine
<1>5. Y!WellFormed(c, o)
  <2>1. \A k \in Y!Known(c) : Y!LockKey[k] \in c.locked => k \in DOMAIN c.system
    BY <1>2, <1>4, LockKeys DEF Y!Known
  <2>2. c.schema # 1 /\ "security_posture" \notin c.locked
    BY <1>2
  <2> QED  BY <2>1, <2>2 DEF Y!WellFormed
<1>6. {d.code : d \in Y!Diagnostics(c, o)} = {"security_posture_permissive"}
  <2>1. Y!Diagnostics(c, o) = {Y!Found("security_posture_permissive", "warning")}
    BY <1>1, <1>3, DiagnosticsAre
  <2> QED  BY <2>1, FoundIs
<1>7. Y!Outcome(c, o) = "current"
  BY <1>1 DEF Y!Outcome
<1>8. Y!Rows(c)["audit_mode"] = [value |-> "strong", source |-> "lock"]
  <2>1. "audit_mode" \in Y!Known(c) /\ "audit_mode" \in Y!Audits /\ "audit_mode" \in Y!Knobs
    BY <1>2 DEF Y!Known, Y!Knobs, Y!ManagerKnobs, Y!Audits
  <2>2. Y!Resolve(c, "audit_mode") = [value |-> "strong", source |-> "lock"]
    BY <1>2, <1>4, <2>1, LockKeys DEF Y!Resolve
  <2>3. "audit_mode" \in Y!Known(c) \ {"passable_env_names"}
    BY <2>1
  <2>4. Y!Rows(c)["audit_mode"] = Y!Resolve(c, "audit_mode")
    BY <2>1, <2>3 DEF Y!Rows
  <2> QED  BY <2>2, <2>4
<1> QED
  BY <1>1, <1>2, <1>5, <1>6, <1>7, <1>8 DEF Shows, Y!KeepsItsName, WellAsked, Y!Kinds, c, o

LEMMA LockedPosture ==
    ASSUME NEW s, s = Y!Case("locked-posture-beats-explicit-permissive",
                             [Y!Plain("A", "permissive", {}, {}) EXCEPT !.locked = {"security_posture"},
                                  !.hardens = TRUE],
                             Y!Op("status", FALSE, FALSE), {}, "current")
    PROVE  Shows(s)
<1> DEFINE c == s.config
           o == s.op
<1>1. /\ s.name = "locked-posture-beats-explicit-permissive" /\ s.promise = {} /\ s.outcome = "current"
      /\ c = [Y!Plain("A", "permissive", {}, {}) EXCEPT !.locked = {"security_posture"}, !.hardens = TRUE]
      /\ o.kind = "status" /\ o.mcp = FALSE /\ o.unreachable = FALSE
  BY DEF Y!Case, Y!Op
<1> HIDE DEF c, o
<1>2. c.schema = 2 /\ c.locked = {"security_posture"} /\ c.hardens = TRUE /\ Shaped(c)
  BY <1>1 DEF Y!Plain, Shaped
<1>3. Y!Hardened(c)
  BY <1>2 DEF Y!Hardened, Y!Profile
<1>4. Y!WellFormed(c, o)
  BY <1>2, LockKeys DEF Y!WellFormed, Y!Known, Y!Audits
<1>5. {d.code : d \in Y!Diagnostics(c, o)} = {}
  <2>1. Y!Diagnostics(c, o) = {}
    BY <1>1, <1>3, DiagnosticsAre
  <2> QED  BY <2>1
<1>6. Y!Outcome(c, o) = "current"
  BY <1>1 DEF Y!Outcome
<1> QED
  BY <1>1, <1>2, <1>3, <1>4, <1>5, <1>6 DEF Shows, Y!KeepsItsName, WellAsked, Y!Kinds, c, o

LEMMA SchemaOne ==
    ASSUME NEW s, s = Y!Case("schema1-machine-is-permissive",
                             [Y!Plain("B", None, {}, {"audit_mode"}) EXCEPT !.schema = 1],
                             Y!Op("install", FALSE, FALSE), {"security_posture_permissive"}, "proceeds")
    PROVE  Shows(s)
<1> DEFINE c == s.config
           o == s.op
<1>1. /\ s.name = "schema1-machine-is-permissive" /\ s.promise = {"security_posture_permissive"}
      /\ s.outcome = "proceeds"
      /\ c = [Y!Plain("B", None, {}, {"audit_mode"}) EXCEPT !.schema = 1]
      /\ o.kind = "install" /\ o.mcp = FALSE /\ o.unreachable = FALSE
  BY DEF Y!Case, Y!Op
<1> HIDE DEF c, o
<1>2. /\ c.schema = 1 /\ c.locked = {} /\ c.posture = None /\ Shaped(c)
      /\ c.machine = Y!Machine({}, {"audit_mode"})
  BY <1>1 DEF Y!Plain, Shaped
<1>3. ~Y!Hardened(c)
  BY <1>2 DEF Y!Hardened, Y!Profile
<1>4. Y!WellFormed(c, o)
  <2>1. DOMAIN c.machine = {"audit_mode"}
    BY <1>2 DEF Y!Machine
  <2> QED  BY <1>1, <1>2, <2>1 DEF Y!WellFormed, Y!ManagerKnobs
<1>5. {d.code : d \in Y!Diagnostics(c, o)} = {"security_posture_permissive"}
  <2>1. Y!Diagnostics(c, o) = {Y!Found("security_posture_permissive", "warning")}
    BY <1>1, <1>3, DiagnosticsAre
  <2> QED  BY <2>1, FoundIs
<1>6. Y!Outcome(c, o) = "proceeds"
  BY <1>1, <1>3, ErrorsAre DEF Y!Outcome
<1> QED
  BY <1>1, <1>2, <1>4, <1>5, <1>6 DEF Shows, Y!KeepsItsName, WellAsked, Y!Kinds, c, o

LEMMA ScenariosShow ==
    ASSUME NEW s \in Y!Scenarios
    PROVE  Shows(s)
<1>1. CASE s \in Y!MergeCases
  BY <1>1, PermissiveStatus, FlipInstalls, HardenedStatus, KnobBeatsDefault, LockedValue, LockedPosture
     DEF Y!MergeCases
<1>2. CASE s \in Y!RefusalCases
  BY <1>2, EmptySources, EmptyPackages, EmptyPackagesWarn, NullNames, PermissiveInstall DEF Y!RefusalCases
<1>3. CASE s \in Y!ReleaseCases
  BY <1>3, UnreachableWarns, UnreachableRefuses, SchemaOne, NonCurrent, WarnFollows, RowsFlipped
     DEF Y!ReleaseCases
<1> QED  BY <1>1, <1>2, <1>3 DEF Y!Scenarios

\* What holds of every configuration, edited or not.
LEMMA CaseAdmitted ==
    ASSUME NEW n, NEW c, NEW o, NEW s \in Y!AdmittedAs(n, c, o)
    PROVE  Y!KeepsItsName(s, c, o)
<1>1. s \in Y!Scenarios /\ s.config = c /\ s.op = o
  BY DEF Y!AdmittedAs
<1>2. Y!KeepsItsName(s, s.config, s.op)
  BY <1>1, ScenariosShow DEF Shows
<1> QED  BY <1>1, <1>2

LEMMA CheckForetells ==
    ASSUME NEW c, NEW m \in BOOLEAN
    PROVE  Y!Outcome(c, Y!Op("status-check", m, FALSE)) = "non-current" <=>
               Y!Outcome(c, [Y!Op("status-check", m, FALSE) EXCEPT !.kind = "profile-install"]) = "refused"
<1> DEFINE o == Y!Op("status-check", m, FALSE)
           q == [o EXCEPT !.kind = "profile-install"]
<1>1. /\ o.kind = "status-check" /\ o.mcp = m
      /\ q.kind = "profile-install" /\ q.mcp = m /\ q.unreachable = FALSE
  BY DEF Y!Op
<1> HIDE DEF o, q
<1>2. Y!Outcome(c, o) = "non-current" <=> Y!Contradicts(c, o)
  BY <1>1 DEF Y!Outcome
<1>3. Y!Outcome(c, q) = "refused" <=> \E d \in Y!Diagnostics(c, q) : d.severity = "error"
  BY <1>1 DEF Y!Outcome
<1>4. (\E d \in Y!Diagnostics(c, q) : d.severity = "error") <=> Y!Contradicts(c, o)
  BY <1>1, ErrorsAre DEF Y!Contradicts
<1>5. Y!Outcome(c, o) = "non-current" <=> Y!Outcome(c, q) = "refused"
  BY <1>2, <1>3, <1>4
<1> QED  BY <1>5 DEF o, q

LEMMA HardenedStays ==
    ASSUME NEW c, Shaped(c), Y!Hardened(c), c.revision = "A"
    PROVE  LET flipped == [c EXCEPT !.revision = "B"] IN
           /\ Y!Profile(flipped) = Y!Profile(c)
           /\ flipped.schema = c.schema /\ flipped.locked = c.locked /\ flipped.system = c.system
           /\ flipped.machine = c.machine /\ flipped.passthrough = c.passthrough
           /\ flipped.others = c.others
<1> DEFINE flipped == [c EXCEPT !.revision = "B"]
<1>1. /\ flipped.schema = c.schema /\ flipped.locked = c.locked /\ flipped.system = c.system
      /\ flipped.machine = c.machine /\ flipped.passthrough = c.passthrough
      /\ flipped.others = c.others /\ flipped.posture = c.posture
  BY DEF Shaped
<1> HIDE DEF flipped
<1>2. c.schema # 1 /\ ("security_posture" \in c.locked \/ c.posture # None)
  BY DEF Y!Hardened, Y!Profile
<1>3. Y!Profile(flipped) = Y!Profile(c)
  BY <1>1, <1>2 DEF Y!Profile
<1> QED  BY <1>1, <1>3 DEF flipped

LEMMA FlipIsForetold ==
    ASSUME NEW c, Shaped(c), NEW o, c.revision = "A",
           Y!Found("security_posture_permissive", "warning") \notin Y!Diagnostics(c, o)
    PROVE  LET flipped == [c EXCEPT !.revision = "B"] IN
           Y!Outcome(flipped, o) = Y!Outcome(c, o) /\ Y!Rows(flipped) = Y!Rows(c)
<1> DEFINE flipped == [c EXCEPT !.revision = "B"]
<1>1. Y!Hardened(c)
  BY DiagnosticsAre
<1>2. /\ Y!Profile(flipped) = Y!Profile(c)
      /\ flipped.schema = c.schema /\ flipped.locked = c.locked /\ flipped.system = c.system
      /\ flipped.machine = c.machine /\ flipped.passthrough = c.passthrough
      /\ flipped.others = c.others
  BY <1>1, HardenedStays
<1> HIDE DEF flipped
<1>3. Y!Hardened(flipped)
  BY <1>1, <1>2 DEF Y!Hardened
<1>4. Y!Known(flipped) = Y!Known(c) /\ Y!Shipped(flipped) = Y!Shipped(c)
  BY <1>2 DEF Y!Known, Y!Shipped
<1>5. \A k : Y!Default(flipped, k) = Y!Default(c, k)
  BY <1>1, <1>2, <1>3 DEF Y!Default
<1>6. \A k : Y!Resolve(flipped, k) = Y!Resolve(c, k)
  BY <1>2, <1>5 DEF Y!Resolve
<1>7. /\ \A k : Y!Weak(flipped, k) <=> Y!Weak(c, k)
      /\ Y!NullExplicit(flipped) <=> Y!NullExplicit(c)
  BY <1>4, <1>6 DEF Y!Weak, Y!NullExplicit
<1>8. Y!Contradicts(flipped, o) <=> Y!Contradicts(c, o)
  BY <1>1, <1>3, <1>7 DEF Y!Contradicts
<1>9. (\E d \in Y!Diagnostics(flipped, o) : d.severity = "error")
      <=> \E d \in Y!Diagnostics(c, o) : d.severity = "error"
  BY <1>1, <1>3, <1>7, ErrorsAre
<1>10. Y!Outcome(flipped, o) = Y!Outcome(c, o)
  BY <1>8, <1>9 DEF Y!Outcome
<1>11. Y!Rows(flipped) = Y!Rows(c)
  BY <1>2, <1>4, <1>6 DEF Y!Rows
<1> QED  BY <1>10, <1>11 DEF flipped

LEMMA LockHolds ==
    ASSUME NEW c, Shaped(c), NEW k, Y!LockKey[k] \in c.locked, NEW v
    PROVE  Y!Resolve([c EXCEPT !.machine = Y!SetOf(@, {k}, v)], k).value = c.system[k]
<1> DEFINE d == [c EXCEPT !.machine = Y!SetOf(@, {k}, v)]
<1>1. d.locked = c.locked /\ d.system = c.system
  BY DEF Shaped
<1> HIDE DEF d
<1>2. Y!Resolve(d, k).value = c.system[k]
  BY <1>1 DEF Y!Resolve
<1> QED  BY <1>2 DEF d

LEMMA WeakIsNamed ==
    ASSUME NEW c, Shaped(c), Y!Hardened(c), NEW k \in Y!Knobs, Y!Weak(c, k)
    PROVE  \/ \E gate \in DOMAIN Y!Rows(c) :
                  gate = k /\ Y!Rows(c)[gate].source \in {"explicit", "lock"}
           \/ k = "passable_env_names" /\ Y!Rows(c)["env-passthrough"].value = "s4-warn"
           \/ Y!Outcome(c, Y!Op("profile-install", TRUE, FALSE)) = "refused"
<1>1. c.schema # 1 /\ Y!Known(c) = Y!Knobs /\ "env-passthrough" \in Y!Shipped(c)
  BY DEF Y!Hardened, Y!Profile, Y!Known, Y!Shipped
<1>2. Y!Resolve(c, k).value = "weak"
  BY DEF Y!Weak
<1>3. Y!Resolve(c, k).source \in {"explicit", "lock"}
      \/ Y!Default(c, k) = "weak"
  <2>1. CASE Y!LockKey[k] \in c.locked
    BY <2>1 DEF Y!Resolve
  <2>2. CASE Y!LockKey[k] \notin c.locked /\ k \in DOMAIN c.machine
    BY <2>2 DEF Y!Resolve
  <2>3. CASE Y!LockKey[k] \notin c.locked /\ k \notin DOMAIN c.machine
    BY <1>2, <2>3 DEF Y!Resolve
  <2> QED  BY <2>1, <2>2, <2>3
<1>4. (\E d \in Y!Diagnostics(c, Y!Op("profile-install", TRUE, FALSE)) : d.severity = "error")
      => Y!Outcome(c, Y!Op("profile-install", TRUE, FALSE)) = "refused"
  BY DEF Y!Outcome, Y!Op
<1>5. Y!Weak(c, "allowed_sources") \/ Y!Weak(c, "mcp_package_allowlist") \/ Y!NullExplicit(c)
      => \E d \in Y!Diagnostics(c, Y!Op("profile-install", TRUE, FALSE)) : d.severity = "error"
  <2> DEFINE o == Y!Op("profile-install", TRUE, FALSE)
  <2>1. o.kind = "profile-install" /\ o.mcp = TRUE /\ o.unreachable = FALSE
    BY DEF Y!Op
  <2> HIDE DEF o
  <2>2. Y!Weak(c, "allowed_sources") \/ Y!Weak(c, "mcp_package_allowlist") \/ Y!NullExplicit(c)
        => \E d \in Y!Diagnostics(c, o) : d.severity = "error"
    BY <2>1, ErrorsAre
  <2> QED  BY <2>2 DEF o
<1>6. CASE k # "passable_env_names" /\ Y!Resolve(c, k).source \in {"explicit", "lock"}
  <2>1. k \in DOMAIN Y!Rows(c)
    BY <1>1, <1>6 DEF Y!Rows
  <2>2. k # "security_posture"
    BY LockKeys
  <2>3. Y!Rows(c)[k] = Y!Resolve(c, k)
    BY <1>1, <1>6, <2>2 DEF Y!Rows
  <2> QED  BY <1>6, <2>1, <2>3
<1>7. CASE k = "passable_env_names" /\ Y!Resolve(c, k).source \in {"explicit", "lock"}
  <2>1. Y!NullExplicit(c)
    BY <1>7 DEF Y!NullExplicit
  <2> QED  BY <1>4, <1>5, <2>1
<1>8. CASE Y!Default(c, k) = "weak"
  <2>1. /\ k \notin Y!Postured
        /\ k = "passable_env_names" => c.passthrough = "s4-warn"
    BY <1>8 DEF Y!Default, Shaped
  <2>2. k \in {"allowed_sources", "mcp_package_allowlist", "passable_env_names"}
    BY <2>1 DEF Y!Knobs, Y!ManagerKnobs, Y!Postured
  <2>3. CASE k = "passable_env_names"
    <3>1. Y!Rows(c)["env-passthrough"].value = c.passthrough
      <4>1. "env-passthrough" \notin Y!Knobs
        BY DEF Y!Knobs, Y!ManagerKnobs
      <4> DEFINE gates == {"security_posture"} \union (Y!Known(c) \ {"passable_env_names"}) \union Y!Shipped(c)
      <4>2. "env-passthrough" \in gates
        BY <1>1
      <4> HIDE DEF gates
      <4>3. Y!Rows(c) =
                [gate \in gates |->
                    IF gate = "security_posture" THEN Y!Profile(c)
                    ELSE IF gate \in Y!Knobs THEN Y!Resolve(c, gate)
                    ELSE [value |-> IF gate = "others" THEN c.others ELSE c.passthrough, source |-> "shipped"]]
        BY DEF Y!Rows, gates
      <4>4. Y!Rows(c)["env-passthrough"] =
                [value |-> IF "env-passthrough" = "others" THEN c.others ELSE c.passthrough, source |-> "shipped"]
        BY <4>1, <4>2, <4>3
      <4> QED  BY <4>4
    <3> QED  BY <2>1, <2>3, <3>1
  <2> QED  BY <1>4, <1>5, <2>2, <2>3
<1> QED  BY <1>3, <1>6, <1>7, <1>8

LEMMA PosturesHold ==
    ASSUME PosturesInv
    PROVE  /\ Y!TypeOK /\ Y!NamedAsShown /\ Y!StatusForetells /\ Y!NoSilentFlip
           /\ Y!LockedIsLocked /\ Y!WeaknessIsNamed
<1>1. Shaped(posture) /\ op.mcp \in BOOLEAN
  BY DEF PosturesInv, WellAsked
<1>2. Y!NamedAsShown
  BY CaseAdmitted DEF Y!NamedAsShown
<1>3. Y!StatusForetells
  BY <1>1, CheckForetells DEF Y!StatusForetells
<1>4. Y!NoSilentFlip
  BY <1>1, FlipIsForetold DEF Y!NoSilentFlip
<1>5. Y!LockedIsLocked
  BY <1>1, LockHolds DEF Y!LockedIsLocked
<1>6. Y!WeaknessIsNamed
  BY <1>1, WeakIsNamed DEF Y!WeaknessIsNamed
<1> QED  BY <1>2, <1>3, <1>4, <1>5, <1>6 DEF PosturesInv

LEMMA PosturesInit == Y!Init => PosturesInv
<1> SUFFICES ASSUME NEW s \in Y!Scenarios, edits = 0, name = s.name, posture = s.config, op = s.op
             PROVE  PosturesInv
  BY DEF Y!Init
<1>1. Shaped(posture) /\ WellAsked(op) /\ Y!WellFormed(posture, op)
  BY ScenariosShow DEF Shows
<1> QED  BY <1>1, PostureFacts DEF PosturesInv, Y!TypeOK

LEMMA Reshaped ==
    ASSUME NEW c, Shaped(c), NEW x
    PROVE  /\ Shaped([c EXCEPT !.machine = x]) /\ Shaped([c EXCEPT !.posture = x])
           /\ Shaped([c EXCEPT !.locked = x]) /\ Shaped([c EXCEPT !.system = x])
           /\ Shaped([c EXCEPT !.hardens = x]) /\ Shaped([c EXCEPT !.revision = x])
           /\ x \in {"s4-warn", "s4-enforce"} => Shaped([c EXCEPT !.passthrough = x])
<1>1. Shaped([c EXCEPT !.machine = x])
  BY DEF Shaped
<1>2. Shaped([c EXCEPT !.posture = x])
  BY DEF Shaped
<1>3. Shaped([c EXCEPT !.locked = x])
  BY DEF Shaped
<1>4. Shaped([c EXCEPT !.system = x])
  BY DEF Shaped
<1>5. Shaped([c EXCEPT !.hardens = x])
  BY DEF Shaped
<1>6. Shaped([c EXCEPT !.revision = x])
  BY DEF Shaped
<1>7. ASSUME x \in {"s4-warn", "s4-enforce"} PROVE Shaped([c EXCEPT !.passthrough = x])
  BY <1>7 DEF Shaped
<1> QED  BY <1>1, <1>2, <1>3, <1>4, <1>5, <1>6, <1>7

LEMMA Relocked ==
    ASSUME NEW c, Shaped(c), NEW x, NEW y, NEW z
    PROVE  Shaped([c EXCEPT !.locked = x, !.system = y, !.hardens = z])
<1> DEFINE d == [c EXCEPT !.locked = x]
           e == [d EXCEPT !.system = y]
<1>1. Shaped(d)
  BY Reshaped
<1>2. Shaped(e)
  <2> HIDE DEF d
  <2> QED  BY <1>1, Reshaped
<1>3. Shaped([e EXCEPT !.hardens = z])
  <2> HIDE DEF e
  <2> QED  BY <1>2, Reshaped
<1> QED  BY <1>3 DEF d, e

LEMMA Reshipped ==
    ASSUME NEW c, Shaped(c), NEW x, NEW y \in {"s4-warn", "s4-enforce"}
    PROVE  Shaped([c EXCEPT !.revision = x, !.passthrough = y])
<1> DEFINE d == [c EXCEPT !.revision = x]
<1>1. Shaped(d)
  BY Reshaped
<1>2. Shaped([d EXCEPT !.passthrough = y])
  <2> HIDE DEF d
  <2> QED  BY <1>1, Reshaped
<1> QED  BY <1>2 DEF d

LEMMA EditStep ==
    ASSUME PosturesInv, NEW c, NEW o, Shaped(c), WellAsked(o), Y!Edited(c, o)
    PROVE  PosturesInv'
<1>1. edits' \in 0 .. MaxEdits
  BY PostureFacts DEF PosturesInv, Y!TypeOK, Y!Edited
<1>2. posture' = c /\ op' = o /\ name' = name /\ Y!WellFormed(c, o)
  BY DEF Y!Edited
<1> QED  BY <1>1, <1>2 DEF PosturesInv, Y!TypeOK

LEMMA PosturesStep ==
    ASSUME PosturesInv, Y!Next \/ UNCHANGED postureVars
    PROVE  PosturesInv'
<1>1. Shaped(posture) /\ WellAsked(op)
  BY DEF PosturesInv
<1>2. CASE UNCHANGED postureVars
  BY <1>2 DEF postureVars, PosturesInv, Y!TypeOK
<1>3. CASE \E k \in Y!Knobs : Y!DropKnob(k) \/ \E v \in {"weak", "strong"} : Y!SetKnob(k, v)
  BY <1>1, <1>3, Reshaped, EditStep DEF Y!DropKnob, Y!SetKnob
<1>4. CASE \E p \in {"permissive", "hardened", None} : Y!SetPosture(p)
  <2>1. PICK p : Y!SetPosture(p)
    BY <1>4
  <2>2. Shaped([posture EXCEPT !.posture = p])
    BY <1>1, Reshaped
  <2> QED  BY <1>1, <2>1, <2>2, EditStep DEF Y!SetPosture
<1>5. CASE \E l \in Y!LockNames, v \in {"weak", "strong"} : Y!Lock(l, v)
  <2>1. PICK l, v : Y!Lock(l, v)
    BY <1>5
  <2> DEFINE c == [posture EXCEPT !.locked = @ \union {l},
                                  !.system = Y!SetOf(@, {k \in Y!Knobs : Y!LockKey[k] = l}, v),
                                  !.hardens = @ \/ l = "security_posture"]
  <2>2. Shaped(c)
    BY <1>1, Relocked
  <2>3. Y!Edited(c, op)
    BY <2>1 DEF Y!Lock
  <2> HIDE DEF c
  <2> QED  BY <1>1, <2>2, <2>3, EditStep
<1>6. CASE Y!Unlock
  <2>1. Shaped([posture EXCEPT !.locked = {}])
    BY <1>1, Reshaped
  <2> QED  BY <1>1, <1>6, <2>1, EditStep DEF Y!Unlock
<1>7. CASE \E r \in {"A", "B"}, p \in {"s4-warn", "s4-enforce"} : Y!Ship(r, p)
  <2>1. PICK r \in {"A", "B"}, p \in {"s4-warn", "s4-enforce"} : Y!Ship(r, p)
    BY <1>7
  <2>2. Shaped([posture EXCEPT !.revision = r, !.passthrough = p])
    BY <1>1, Reshipped
  <2> QED  BY <1>1, <2>1, <2>2, EditStep DEF Y!Ship
<1>8. CASE \E kind \in Y!Kinds, mcp, unreachable \in BOOLEAN : Y!Ask(Y!Op(kind, mcp, unreachable))
  <2>1. PICK kind \in Y!Kinds, mcp \in BOOLEAN, unreachable \in BOOLEAN :
             Y!Ask(Y!Op(kind, mcp, unreachable))
    BY <1>8
  <2>2. WellAsked(Y!Op(kind, mcp, unreachable))
    BY DEF Y!Op, WellAsked
  <2> QED  BY <1>1, <2>1, <2>2, EditStep DEF Y!Ask
<1> QED  BY <1>2, <1>3, <1>4, <1>5, <1>6, <1>7, <1>8 DEF Y!Next

--------------------------------------------------------------------------------
(* The parts side by side.                                                       *)

LEMMA PartSteps ==
    /\ InitManager => part \in Parts /\ Init
    /\ InitManager /\ part = "writes" => W!Init
    /\ InitManager /\ part = "seeds" => H!Init
    /\ InitManager /\ part = "hook" => S!Init
    /\ InitManager /\ part = "reads" => F!Init
    /\ InitManager /\ part = "publication" => L!Init
    /\ InitManager /\ part = "roots" => R!Init
    /\ InitManager /\ part = "umbrella" => U!Init
    /\ InitManager /\ part = "grants" => G!Init
    /\ InitManager /\ part = "credentials" => C!Init
    /\ InitManager /\ part = "postures" => Y!Init
    /\ InitManager /\ part = "admission" => E!Init
    /\ [NextManager]_managerVars =>
        /\ part' = part
        /\ part = "writes" => W!Next \/ UNCHANGED writesVars
        /\ part = "seeds" => H!Next \/ UNCHANGED seedsVars
        /\ part = "hook" => S!Next \/ UNCHANGED hookVars
        /\ part = "reads" => F!Next \/ UNCHANGED readVars
        /\ part = "publication" => L!Next \/ UNCHANGED publicationVars
        /\ part = "roots" => R!Next \/ UNCHANGED rootVars
        /\ part = "umbrella" => U!Next \/ UNCHANGED umbrellaVars
        /\ part = "plans" => P!Next \/ UNCHANGED planVars
        /\ part # "plans" => UNCHANGED planVars
        /\ part = "grants" => G!Next \/ UNCHANGED grantsVars
        /\ part = "credentials" => C!Next \/ UNCHANGED credentialVars
        /\ part = "postures" => Y!Next \/ UNCHANGED postureVars
        /\ part = "admission" => E!Next \/ UNCHANGED admissionVars
BY DEF InitManager, NextManager, managerVars

HomeInv ==
    /\ part = "writes" => WritesInv
    /\ part = "seeds" => SeedsInv
    /\ part = "hook" => HookInv
    /\ part = "reads" => ReadsInv
    /\ part = "publication" => PublicationInv

\* No write follows a foreign link, a home inherits no server it does not own to, no
\* shell sources what was never approved without having said so, what cannot be read is
\* not lost, and no global operation mixes two locks or loses what the owner put there.
THEOREM HomeSafety == SpecManager => []HomeStaysOwn
<1>1. InitManager => HomeInv
  BY PartSteps, WritesInit, SeedsInit, HookInit, ReadsInit, PublicationInit DEF HomeInv
<1>2. HomeInv /\ [NextManager]_managerVars => HomeInv'
  <2> SUFFICES ASSUME HomeInv, [NextManager]_managerVars PROVE HomeInv'
    OBVIOUS
  <2>1. part' = part
    BY PartSteps
  <2>2. part = "writes" => WritesInv'
    BY PartSteps, WritesStep DEF HomeInv
  <2>3. part = "seeds" => SeedsInv'
    BY PartSteps, SeedsStep DEF HomeInv
  <2>4. part = "hook" => HookInv'
    BY PartSteps, HookStep DEF HomeInv
  <2>5. part = "reads" => ReadsInv'
    BY PartSteps, ReadsStep DEF HomeInv
  <2>6. part = "publication" => PublicationInv'
    BY PartSteps, PublicationStep DEF HomeInv
  <2> QED  BY <2>1, <2>2, <2>3, <2>4, <2>5, <2>6 DEF HomeInv
<1>3. HomeInv => HomeStaysOwn
  BY SeedsHold, PublicationHolds
  DEF HomeInv, HomeStaysOwn, WritesInv, SeedsInv, HookInv, ReadsInv, PublicationInv
<1> QED  BY <1>1, <1>2, <1>3, PTL DEF SpecManager

PoliciesInv ==
    /\ part = "grants" => GrantsInv
    /\ part = "credentials" => CredentialsInv
    /\ part = "postures" => PosturesInv
    /\ part = "admission" => AdmissionInv

\* No order of approvals, lapses and revocations makes a record unreadable or takes a key
\* from a grant that lives; a plan that passes the final boundary carries what its node
\* bound; a security posture means what its status, its locks and its cases say; and a
\* launch is admitted only on what still stands, never weaker than asked.
THEOREM PolicySafety == SpecManager => []PoliciesKeepTheirWord
<1>1. InitManager => PoliciesInv
  BY PartSteps, GrantsInit, CredentialsInit, PosturesInit, AdmissionInit DEF PoliciesInv
<1>2. PoliciesInv /\ [NextManager]_managerVars => PoliciesInv'
  <2> SUFFICES ASSUME PoliciesInv, [NextManager]_managerVars PROVE PoliciesInv'
    OBVIOUS
  <2>1. part' = part
    BY PartSteps
  <2>2. part = "grants" => GrantsInv'
    BY PartSteps, GrantsStep DEF PoliciesInv
  <2>3. part = "credentials" => CredentialsInv'
    BY PartSteps, CredentialsStep DEF PoliciesInv
  <2>4. part = "postures" => PosturesInv'
    BY PartSteps, PosturesStep DEF PoliciesInv
  <2>5. part = "admission" => AdmissionInv'
    BY PartSteps, AdmissionStep DEF PoliciesInv
  <2> QED  BY <2>1, <2>2, <2>3, <2>4, <2>5 DEF PoliciesInv
<1>3. PoliciesInv => PoliciesKeepTheirWord
  BY GrantsHold, CredentialsHold, PosturesHold, AdmissionHolds
  DEF PoliciesInv, PoliciesKeepTheirWord, CredentialsInv
<1> QED  BY <1>1, <1>2, <1>3, PTL DEF SpecManager

RunsInv ==
    /\ part = "roots" => RootsInv
    /\ part = "umbrella" => UmbrellaInv
    /\ part = "plans" => PlansInv

LEMMA RunsInvariant == SpecManager => []RunsInv
<1>1. InitManager => RunsInv
  BY PartSteps, RootsInit, UmbrellaInit, PlansInit DEF RunsInv
<1>2. RunsInv /\ [NextManager]_managerVars => RunsInv'
  <2> SUFFICES ASSUME RunsInv, [NextManager]_managerVars PROVE RunsInv'
    OBVIOUS
  <2>1. part' = part
    BY PartSteps
  <2>2. part = "roots" => RootsInv'
    BY PartSteps, RootsStep DEF RunsInv
  <2>3. part = "umbrella" => UmbrellaInv'
    BY PartSteps, UmbrellaStep DEF RunsInv
  <2>4. part = "plans" => PlansInv'
    BY PartSteps, PlansStep DEF RunsInv
  <2> QED  BY <2>1, <2>2, <2>3, <2>4 DEF RunsInv
<1> QED  BY <1>1, <1>2, PTL DEF SpecManager

\* A command a hook let through runs what the receipt pins, no mixture of generations
\* is left, nothing that is held is collected; a subcommand found without the PATH is a
\* trust root's, a change of revision surprises nobody who heeds it, and a miss is an
\* absence; and every plan that is locked or published is one.
THEOREM RunsSafety == SpecManager => []RunsAsVouched
<1>1. RunsInv => RunsAsVouched
  BY RootsHold, UmbrellaShaped, UmbrellaTrusted, UmbrellaForetold, UmbrellaAbsent, PlansHold
  DEF RunsInv, RunsAsVouched
<1> QED  BY <1>1, RunsInvariant, PTL

\* What is published is the plan that resolving at that moment would write, whatever
\* was edited and however an operation was interrupted before.
THEOREM PublishedIsDerived == SpecManager => PublishesDerived
<1>1. RunsInv /\ [NextManager]_managerVars => [shown' # shown => shown' = P!Derived]_shown
  <2> SUFFICES ASSUME RunsInv, [NextManager]_managerVars, shown' # shown PROVE shown' = P!Derived
    OBVIOUS
  <2>1. part = "plans"
    BY PartSteps DEF planVars
  <2> QED  BY <2>1, PartSteps, PublishingStep DEF RunsInv
<1> QED  BY <1>1, RunsInvariant, PTL DEF SpecManager, PublishesDerived
================================================================================
