---------------------------- MODULE RegistryRollback ----------------------------
(* Rollback protection of a registry, from the verdicts tools/validate.py     *)
(* recomputes: the page-boundary verdict of a client that keeps the highest   *)
(* boundary it accepted (expected_page_boundary_verdict), the verdict on its  *)
(* bootstrap checkpoint (expected_bootstrap_verdict) and the verdict on the   *)
(* operator's checkpoint when the service starts                              *)
(* (expected_checkpoint_verdict).  Around them: a service that appends, signs *)
(* and may be restored from any backup, mirrors that deliver whatever was     *)
(* ever signed, and the operations of one client, which overlap.              *)
(*                                                                            *)
(* A boundary is the log it was signed at: its version is the length of the   *)
(* log and its body (head, Merkle root) is the same if and only if the log    *)
(* is.  A boundary or checkpoint whose signature does not verify is refused   *)
(* before anything else and changes nothing: it is not delivered here.        *)
EXTENDS Sequences, Naturals

CONSTANTS
    Records,        \* what a log holds
    Operations,     \* of one client, each reading one cursor chain at a time
    MaxLog,         \* bound on the length of the log
    None            \* no checkpoint, no high-water, no chain

Logs == Seq(Records)

ASSUME NoneIsNoLog == None \notin Logs
ASSUME MaxLogIsNat == MaxLog \in Nat

VARIABLES
    live,           \* the log of the service
    ready,          \* it serves
    checkpoint,     \* the operator's startup checkpoint, or None
    signed,         \* boundaries signed so far: pages, backups and checkpoints
    pinned,         \* the client's bootstrap checkpoint, or None
    highWater,      \* the boundary the client persisted, or None
    chain,          \* operation -> the boundary of its first page, or None
    accepted        \* history: boundaries the client persisted or read pages at

service == <<live, ready, checkpoint, signed>>
vars == <<live, ready, checkpoint, signed, pinned, highWater, chain, accepted>>

Version(b) == Len(b)
Reproduces(log, b) == Len(b) =< Len(log) /\ SubSeq(log, 1, Len(b)) = b

Init ==
    /\ live = <<>> /\ ready = TRUE /\ checkpoint = None /\ signed = {<<>>}
    /\ pinned = None /\ highWater = None /\ chain = [o \in Operations |-> None]
    /\ accepted = {}

--------------------------------------------------------------------------------
(* The service.                                                               *)

AppendRecord(r) ==
    /\ ready /\ Len(live) < MaxLog
    /\ live' = Append(live, r)
    /\ signed' = signed \union {live'}
    /\ UNCHANGED <<ready, checkpoint, pinned, highWater, chain, accepted>>

\* The operator saves the boundary of a service that serves.
TakeCheckpoint ==
    /\ ready
    /\ checkpoint' = live
    /\ UNCHANGED <<live, ready, signed, pinned, highWater, chain, accepted>>

\* The store is lost and replaced by a backup; the checkpoint is kept outside it.
Restore(b) ==
    /\ live' = b /\ ready' = FALSE
    /\ UNCHANGED <<checkpoint, signed, pinned, highWater, chain, accepted>>

\* Mutant: a live log above the checkpoint is not compared with it.
StartsByVersion == checkpoint # None => Version(checkpoint) =< Version(live)

\* Without a checkpoint the service starts; it is refused below the checkpoint,
\* at its version with another body, and above it unless the log reproduces it.
Starts ==
    checkpoint # None =>
        \/ Version(live) = Version(checkpoint) /\ live = checkpoint
        \/ Version(live) > Version(checkpoint) /\ Reproduces(live, checkpoint)

Start ==
    /\ ~ready /\ Starts
    /\ ready' = TRUE
    /\ UNCHANGED <<live, checkpoint, signed, pinned, highWater, chain, accepted>>

--------------------------------------------------------------------------------
(* The client.                                                                *)

\* Machine configuration names a signed checkpoint file.
Configure(b) ==
    /\ pinned' = b
    /\ UNCHANGED <<service, highWater, chain, accepted>>

Persist(b) == highWater' = b /\ accepted' = accepted \union {b}

\* First use with a checkpoint: it is persisted before any response is read, and
\* stays when the first response is refused.
Bootstrap ==
    /\ highWater = None /\ pinned # None
    /\ Persist(pinned)
    /\ UNCHANGED <<service, pinned, chain>>

\* With a high-water present a checkpoint only advances it.
Supersedes(b) == Version(b) > Version(highWater)

Rebootstrap ==
    /\ highWater # None /\ pinned # None /\ Supersedes(pinned)
    /\ Persist(pinned)
    /\ UNCHANGED <<service, pinned, chain>>

\* Mutant: the body is not compared at an equal version.
StaleByVersion(b) == highWater # None /\ Version(b) < Version(highWater)

Stale(b) ==
    /\ highWater # None
    /\ \/ Version(b) < Version(highWater)
       \/ Version(b) = Version(highWater) /\ b # highWater

Advances(b) == highWater # None => Version(b) > Version(highWater)

\* The boundary is accepted: the high-water advances before the page contributes.
Accept(o, b) ==
    /\ highWater' = IF Advances(b) THEN b ELSE highWater
    /\ accepted' = accepted \union {b}
    /\ chain' = [chain EXCEPT ![o] = b]
    /\ UNCHANGED <<service, pinned>>

\* Mutant: the operation is removed together with its chain.
ExcludeDrops(o) ==
    /\ chain' = [p \in Operations \ {o} |-> chain[p]]
    /\ UNCHANGED <<service, pinned, highWater, accepted>>

\* The registry is excluded from the operation.
Exclude(o) ==
    /\ chain' = [chain EXCEPT ![o] = None]
    /\ UNCHANGED <<service, pinned, highWater, accepted>>

\* Without a checkpoint the first boundary from the network is trusted.
FirstPage(o, b) ==
    /\ chain[o] = None
    /\ highWater # None \/ pinned = None
    /\ ~Stale(b) /\ Accept(o, b)

\* A later page must carry the boundary of the chain; one that does is checked
\* against the high-water again, which another operation may have advanced.
LaterPage(o, b) ==
    /\ chain[o] # None
    /\ \/ (b # chain[o] \/ Stale(b)) /\ Exclude(o)
       \/ b = chain[o] /\ ~Stale(b) /\ Accept(o, b)

LastPage(o) == chain[o] # None /\ Exclude(o)

Next ==
    \/ \E r \in Records : AppendRecord(r)
    \/ TakeCheckpoint \/ Start
    \/ \E b \in signed : Restore(b) \/ Configure(b)
    \/ Bootstrap \/ Rebootstrap
    \/ \E o \in Operations : LastPage(o) \/ \E b \in signed : FirstPage(o, b) \/ LaterPage(o, b)

Spec == Init /\ [][Next]_vars

--------------------------------------------------------------------------------
TypeOK ==
    /\ live \in Logs /\ ready \in BOOLEAN
    /\ signed \subseteq Logs
    /\ checkpoint \in Logs \union {None}
    /\ pinned \in Logs \union {None} /\ highWater \in Logs \union {None}
    /\ chain \in [Operations -> Logs \union {None}]
    /\ accepted \subseteq Logs

\* A client never accepts two views of one version: whatever it persisted, from
\* a checkpoint or from the network, and whatever any of its operations read
\* pages at, agrees wherever the versions are equal, also after the service was
\* restored to an older log and signed another history over it.
OneBodyPerVersion ==
    \A s, t \in accepted : Version(s) = Version(t) => s = t

\* What a client persisted is never lost nor lowered, and is replaced only by a
\* boundary of a higher version.
HighWaterAdvances ==
    [][highWater # None =>
        /\ highWater' # None
        /\ highWater' = highWater \/ Version(highWater') > Version(highWater)]_vars

\* A service that serves holds everything its operator's checkpoint covers,
\* whichever backups it was restored from since the checkpoint was taken.
ServesPastCheckpoint ==
    ready /\ checkpoint # None => Reproduces(live, checkpoint)

\* So a client is safe from a restore its operator's checkpoint covers: if what
\* it persisted is part of the checkpoint, the first page of the service that
\* serves is accepted, and a restore never looks like an attack to it.
CoveredClientServed ==
    ready /\ checkpoint # None /\ highWater # None /\ Reproduces(checkpoint, highWater) =>
        ~Stale(live)
================================================================================
