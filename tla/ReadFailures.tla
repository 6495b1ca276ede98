----------------------------- MODULE ReadFailures -----------------------------
(* A file the manager keeps that is there and cannot be read is not a file that is  *)
(* not there (tools/validate.py, the read-failure vectors): what is said of one      *)
(* file of each class, and what the manager does on the strength of it, while         *)
(* permissions, disks and other programs come between.                                *)
CONSTANTS None

VARIABLES
    class,   \* the class of the file
    entry,   \* what is at its path: [kind, failure, bytes]
    held,    \* the bytes that were put there last by anyone but the manager's recovery
    home,    \* the home provisioned from a seed: [seed], or None
    report   \* what was said last: [operation, failing, absent, said], or None
vars == <<class, entry, held, home, report>>

--------------------------------------------------------------------------------
Lstat == {"permission-denied", "io-error"}
Parse == {"unparseable-content", "schema-invalid-content"}
Kind == {"symlink-where-regular-required", "directory-where-file-expected"}
ReadAssumption == None \notin Lstat \union Parse \union Kind \union {"parent-not-directory"}

Applicable ==
    [c \in {"marker", "lock", "seed", "passthrough", "backup-record"} |->
        CASE c = "marker" -> Lstat \union Parse
          [] c = "lock" -> Lstat \union Parse \union Kind \union {"parent-not-directory"}
          [] c = "seed" -> Lstat \union Kind \union {"unparseable-content", "parent-not-directory"}
          [] OTHER -> Lstat \union {"parent-not-directory"}]
Classes == DOMAIN Applicable

Operations ==
    [c \in Classes |->
        CASE c = "marker" -> {"env-resolve"}
          [] c = "lock" -> {"env-resolve", "repair", "update"}
          [] c = "seed" -> {"provision"}
          [] c = "passthrough" -> {"env-resolve", "env-status"}
          [] OTHER -> {"env-status", "restore"}]

Usual == [c \in Classes |->
    CASE c = "passthrough" -> "symlink" [] c = "backup-record" -> "directory" [] OTHER -> "file"]
KindWhen(c, f) ==
    CASE f = "symlink-where-regular-required" -> "symlink"
      [] f = "directory-where-file-expected" -> "directory"
      [] f = "parent-not-directory" /\ c = "backup-record" -> "file"
      [] OTHER -> Usual[c]

Missing == [kind |-> "missing", failure |-> None, bytes |-> None]
Whole(c, b) == [kind |-> Usual[c], failure |-> None, bytes |-> b]

\* The absence side of the family: nothing there, or no longer a link.
IsAbsent(op) ==
    \/ entry.kind = "missing"
    \/ class = "passthrough" /\ op = "env-status" /\ entry.kind = "directory" /\ entry.failure = None
InFamily(op) == IsAbsent(op) \/ entry.failure # None

--------------------------------------------------------------------------------
\* What is said, and of the dispositions pinned beside it those that hold and those
\* that do not.
Said(diagnostic, currency, does, refrains) ==
    [diagnostic |-> diagnostic, currency |-> currency, does |-> does, refrains |-> refrains]
NoLaunch == {"fragment_emitted", "row_current"}
Untouched == {"rebuilt", "written"}

Absent(c, op) ==
    CASE c = "marker" -> Said("environment_home_stale", "known", {}, NoLaunch)
      [] c = "lock" -> Said("profile_unknown", "known", {}, NoLaunch)
      [] c = "seed" -> Said(None, "known", {"provisioning_continues"}, {})
      [] c = "backup-record" ->
             IF op = "restore" THEN Said(None, "known", {}, {"written"})
             ELSE Said(None, "known", {"row_current"}, {})
      [] c = "passthrough" ->
             IF op = "env-resolve" THEN Said("environment_home_stale", "known", {}, NoLaunch)
             ELSE Said("environment_passthrough_detached", "known", {"repair_relinks"}, {"row_current"})

Unread(c, op) ==
    CASE c = "marker" -> Said("environment_marker_unreadable", "unknown", {}, NoLaunch)
      [] c = "lock" ->
             Said("environment_store_untrusted", "unknown", {},
                  IF op = "repair" THEN NoLaunch \union Untouched
                  ELSE IF op = "update" THEN {"row_current"} \union Untouched ELSE NoLaunch)
      [] c = "seed" -> Said("environment_seed_unreadable", "unknown", {}, {"provisioning_continues"})
      [] c = "backup-record" ->
             Said("environment_backup_record_unreadable", "unknown", {},
                  {IF op = "restore" THEN "written" ELSE "row_current"})
      [] c = "passthrough" ->
             Said("environment_passthrough_unreadable", "unknown", {},
                  IF op = "env-resolve" THEN NoLaunch ELSE {"row_current", "repair_relinks"})

AbsentAnyway(c, op, failure) == Absent(c, op)
Expected(c, op, failure) == IF failure = None THEN Absent(c, op) ELSE Unread(c, op)

Answers(o, answer) == answer \in o.does

--------------------------------------------------------------------------------
\* The scenarios every manager is measured by, and the answers that fail it.
Pin(c, op, failures) == {[class |-> c, operation |-> op, failure |-> f] : f \in failures}
LaunchScenarios ==
    Pin("marker", "env-resolve", {None} \union Applicable["marker"])
    \union Pin("lock", "env-resolve", {None} \union Applicable["lock"])
    \union Pin("lock", "repair", {"permission-denied"})
    \union Pin("lock", "update", {"unparseable-content"})
HomeScenarios ==
    Pin("seed", "provision", {None} \union Applicable["seed"])
    \union Pin("passthrough", "env-resolve", {None, "permission-denied"})
    \union Pin("passthrough", "env-status", {None} \union Applicable["passthrough"])
    \union Pin("backup-record", "env-status", {None, "permission-denied"})
    \union Pin("backup-record", "restore", {None, "io-error"})

Scenarios == LaunchScenarios \union HomeScenarios

Negatives ==
    {[class |-> "marker", said |-> Absent("marker", "env-resolve")],
     [class |-> "lock", said |-> Absent("lock", "env-resolve")],
     [class |-> "seed", said |-> Absent("seed", "provision")],
     [class |-> "passthrough", said |-> Absent("passthrough", "env-status")],
     [class |-> "backup-record", said |-> Absent("backup-record", "env-status")],
     [class |-> "lock", said |-> [Unread("lock", "repair") EXCEPT !.does = Untouched, !.refrains = NoLaunch]]}

--------------------------------------------------------------------------------
TypeOK ==
    /\ class \in Classes
    /\ entry.kind \in {"missing", Usual[class], KindWhen(class, entry.failure), "directory"}
    /\ entry.failure \in Applicable[class] \union {None}
    /\ entry.bytes \in {None, "own", "other", "made"}

Init ==
    /\ class \in Classes
    /\ entry = Whole(class, "own") /\ held = "own"
    /\ home = None /\ report = None

\* Anyone and anything else.
Break(f) ==
    /\ entry.kind # "missing" /\ f \in Applicable[class]
    /\ entry' = [entry EXCEPT !.failure = f, !.kind = KindWhen(class, f)]
    /\ UNCHANGED <<class, held, home, report>>
Mend ==
    /\ entry.failure # None
    /\ entry' = Whole(class, entry.bytes)
    /\ UNCHANGED <<class, held, home, report>>
Remove ==
    /\ entry' = Missing /\ held' = None
    /\ UNCHANGED <<class, home, report>>
Put(b) ==
    /\ entry' = Whole(class, b) /\ held' = b
    /\ UNCHANGED <<class, home, report>>
Detach ==
    /\ class = "passthrough"
    /\ entry' = [kind |-> "directory", failure |-> None, bytes |-> None] /\ held' = None
    /\ UNCHANGED <<class, home, report>>

\* An operation says what it finds and goes on as far as that lets it.
Operate(op) ==
    LET o == Expected(class, op, entry.failure) IN
    /\ op \in Operations[class] /\ InFamily(op)
    /\ report' = [operation |-> op, failing |-> entry.failure # None, absent |-> IsAbsent(op), said |-> o]
    /\ home' = IF Answers(o, "provisioning_continues") THEN [seed |-> None, left |-> held] ELSE home
    /\ entry' = IF Answers(o, "written") \/ Answers(o, "repair_relinks")
                THEN Whole(class, "made") ELSE entry
    /\ held' = IF entry.failure = None THEN entry'.bytes ELSE held
    /\ UNCHANGED class

Provision ==
    /\ class = "seed" /\ entry.kind = "file" /\ entry.failure = None
    /\ home' = [seed |-> entry.bytes, left |-> None]
    /\ UNCHANGED <<class, entry, held, report>>

Next ==
    \/ \E f \in Applicable[class] : Break(f)
    \/ Mend \/ Remove \/ Detach \/ Provision
    \/ \E b \in {"own", "other"} : Put(b)
    \/ \E op \in Operations[class] : Operate(op)

--------------------------------------------------------------------------------
\* Whatever could not be read for a while is as it was left when it can be read
\* again, and no home was made without the seed that was there all along.
NothingIsLost ==
    /\ entry.bytes = held
    /\ home # None => home.left = None

\* What is said of a file that is there and fails is never what is said of one that
\* is gone, and the manager is never held to an answer no scenario pins.
SaidAsItIs ==
    report # None =>
        /\ report.said.currency = "known" <=> report.absent
        /\ report.failing => \A n \in Negatives : n.class = class => n.said # report.said
        /\ \E s \in Scenarios :
               /\ s.class = class /\ (s.failure = None <=> ~report.failing)
               /\ Expected(s.class, s.operation, s.failure) = report.said
=============================================================================
