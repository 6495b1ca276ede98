------------------------------ MODULE EntryWrites ------------------------------
(* One entry of a managed surface and its backup destination, as the            *)
(* disposition of validate.py's write_nofollow oracle rules every write to      *)
(* them, while others put links, directories that are links and files in the    *)
(* way.  Bytes are names; the mode decides whether the manager's own entry is a  *)
(* link into its store.  The oracle derives one write; here writes follow each    *)
(* other and the record of the surface is kept between them.                     *)
EXTENDS Naturals

CONSTANTS None

Classes == {"materialize", "takeover", "repair", "backup"}
Modes == {"linked", "copied", "managed-home"}
Places == {"outside", "store"}
Nowhere == [kind |-> "absent", owner |-> None, points |-> None]
Regular(owner) == [kind |-> "file", owner |-> owner, points |-> None]
Link(owner, points) == [kind |-> "symlink", owner |-> owner, points |-> points]
Entries == {Nowhere} \union {Regular(o) : o \in {"manager", "foreign"}}
           \union {Link("foreign", p) : p \in Places} \union {Link("manager", "store")}

VARIABLES
    mode,
    entry,      \* what lies at the surface
    parent,     \* where a parent directory that is a link leads, or None
    recorded,   \* whether the marker records the surface
    backup,     \* what lies at the backup destination
    foreign,    \* place -> whether what is there is still as its owner left it
    displaced   \* foreign links a write has replaced and no backup holds

vars == <<mode, entry, parent, recorded, backup, foreign, displaced>>

Init ==
    /\ mode \in Modes /\ entry \in {Nowhere, Link("foreign", "outside"), Link("foreign", "store")}
    /\ parent = None /\ recorded = FALSE /\ backup = Nowhere
    /\ foreign = [p \in Places |-> TRUE] /\ displaced = {}

--------------------------------------------------------------------------------
\* Others: a link, a directory that is a link, nothing, a file where the manager's was.
Plant(e) ==
    /\ e.owner # "manager" /\ (e.kind = "file" => recorded) /\ entry' = e
    /\ UNCHANGED <<mode, parent, recorded, backup, foreign, displaced>>

Reroute(p) ==
    /\ parent' = p /\ UNCHANGED <<mode, entry, recorded, backup, foreign, displaced>>

PlantBackup(e) ==
    /\ e.owner # "manager" /\ e.kind # "file" /\ backup.kind # "saved" /\ backup' = e
    /\ UNCHANGED <<mode, entry, parent, recorded, foreign, displaced>>

\* The marker is lost or written for what is there.
Forget ==
    /\ recorded /\ entry.owner # "manager" /\ recorded' = FALSE
    /\ UNCHANGED <<mode, entry, parent, backup, foreign, displaced>>

\* _validate_write_nofollow_case: outcome or refusal of one write.
Disposition(class, authorized, target) ==
    CASE parent # None -> "environment_write_would_follow_link"
      [] OTHER ->
    CASE class = "backup" /\ target.kind = "symlink" -> "environment_write_would_follow_link"
      [] OTHER ->
    CASE target.kind = "absent" -> "written"
      [] target.kind = "file" -> "replaced"
      [] target.kind = "symlink" ->
            IF recorded \/ target.owner = "manager" \/ (class = "takeover" /\ authorized)
            THEN "replaced"
            ELSE IF target.points = "outside" THEN "environment_foreign_manager_detected"
            ELSE "environment_surface_unmanaged_conflict"

Admitted(d) == d \in {"written", "replaced"}

\* Mutant: a recorded link is backed up and a foreign one is not.
BacksUpOwn(target) == target.kind = "symlink" /\ recorded

BacksUp(target) == target.kind = "symlink" /\ ~(recorded \/ target.owner = "manager")

EntryAfter(target) ==
    IF target.kind = "symlink" /\ recorded /\ mode = "linked" THEN Link("manager", "store")
    ELSE Regular("manager")

\* Where a write ends that meets a link on its way without replacing it.
Reached(target, d) ==
    CASE parent # None -> {parent}
      [] parent = None -> IF target.kind = "symlink" /\ d = "written" THEN {target.points} ELSE {}

\* A write of the surface; the link it replaces goes to the backup destination.
Write(class, authorized) ==
    LET d == Disposition(class, authorized, entry) IN
    /\ class # "backup" /\ Admitted(d)
    /\ entry.kind = "file" => recorded
    /\ BacksUp(entry) => backup.kind = "absent"
    /\ foreign' = [p \in Places |-> foreign[p] /\ p \notin Reached(entry, d)]
    /\ backup' = IF BacksUp(entry) THEN [entry EXCEPT !.kind = "saved"] ELSE backup
    /\ displaced' = IF entry.kind = "symlink" /\ entry.owner = "foreign" /\ ~recorded /\ ~BacksUp(entry)
                    THEN displaced \union {entry} ELSE displaced
    /\ entry' = EntryAfter(entry) /\ recorded' = TRUE
    /\ UNCHANGED <<mode, parent>>

\* A backup is made anew at its destination.
Backup ==
    LET d == Disposition("backup", FALSE, backup) IN
    /\ entry.kind = "file" /\ backup.kind # "saved" /\ Admitted(d)
    /\ foreign' = [p \in Places |-> foreign[p] /\ p \notin Reached(backup, d)]
    /\ backup' = Regular("manager")
    /\ UNCHANGED <<mode, entry, parent, recorded, displaced>>

Next ==
    \/ \E e \in Entries : Plant(e) \/ PlantBackup(e)
    \/ \E p \in Places \union {None} : Reroute(p)
    \/ \E c \in Classes, a \in BOOLEAN : Write(c, a)
    \/ Forget \/ Backup

Spec == Init /\ [][Next]_vars

--------------------------------------------------------------------------------
TypeOK ==
    /\ mode \in Modes /\ entry \in Entries /\ parent \in Places \union {None}
    /\ recorded \in BOOLEAN /\ foreign \in [Places -> BOOLEAN]
    /\ backup \in Entries \union {[e EXCEPT !.kind = "saved"] : e \in Entries}

\* Whatever is planted between the writes, no write ends in what a foreign link
\* leads to, and a foreign link the manager has no record of is replaced only
\* into a backup.
ForeignIsKept == (\A p \in Places : foreign[p]) /\ displaced = {}
================================================================================
