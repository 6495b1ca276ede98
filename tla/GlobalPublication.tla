-------------------------- MODULE GlobalPublication --------------------------
(* `global add` and `global install` extend the lock of a profile and then put the   *)
(* skills it names in place; what somebody else keeps at one of those places stops     *)
(* them, and `profile sync --takeover` finishes from the lock they left                 *)
(* (tools/validate.py, the global lock-publication vectors).  Between any two of the     *)
(* pinned events the owner of the machine may put files into place or remove them.        *)
EXTENDS Naturals

CONSTANTS
    Surfaces, \* in-place surfaces
    Own,      \* what the owner may put there
    MaxLocks, \* bound: locks published after the first
    None

Managed == 0 .. MaxLocks
Places == Managed \union Own \union {None}
Operations == [takeover : BOOLEAN, phase : {"resolved", "stored", "published"},
               want : Managed, before : [Surfaces -> Places]]

\* Locks are numbered, so nothing of the owner's is mistaken for what comes from one.
PublicationAssumption ==
    /\ MaxLocks \in Nat /\ None \notin Nat \union Operations
    /\ \A x \in Own : x \notin Nat /\ x # None

VARIABLES
    profileLock, \* the published profile lock
    store,       \* the locks all store entries of which are published
    surface,     \* what is at each surface: a lock it comes from, something of the owner's, or None
    doing,       \* [takeover, phase, want, before (what each surface held)] of the operation under way, or None
    saved,       \* what was backed up
    kept         \* what the owner put there and did not remove
vars == <<profileLock, store, surface, doing, saved, kept>>

--------------------------------------------------------------------------------
ManagedAt(s) == surface[s] # None /\ surface[s] \notin Own
Idle == doing = None
At(phase) == doing # None /\ doing.phase = phase

TypeOK ==
    /\ profileLock \in Managed /\ store \subseteq Managed
    /\ surface \in [Surfaces -> Places] /\ doing \in Operations \union {None}
    /\ saved \subseteq Own /\ kept \subseteq Own

Init ==
    /\ profileLock = 0 /\ store = {0}
    /\ surface = [s \in Surfaces |-> 0] /\ doing = None /\ saved = {} /\ kept = {}

--------------------------------------------------------------------------------
\* The candidate is resolved and audited, its store entries are published, and then
\* the lock that refers to them.
Resolve ==
    /\ Idle /\ profileLock < MaxLocks
    /\ doing' = [takeover |-> FALSE, phase |-> "resolved", want |-> profileLock + 1, before |-> surface]
    /\ UNCHANGED <<profileLock, store, surface, saved, kept>>
PublishStore ==
    /\ At("resolved") /\ store' = store \union {doing.want}
    /\ doing' = [doing EXCEPT !.phase = "stored"]
    /\ UNCHANGED <<profileLock, surface, saved, kept>>
PublishLock ==
    /\ At("stored") /\ profileLock' = doing.want
    /\ doing' = [doing EXCEPT !.phase = "published"]
    /\ UNCHANGED <<store, surface, saved, kept>>

\* The takeover starts from the lock that is there.
ReadLock ==
    /\ Idle
    /\ doing' = [takeover |-> TRUE, phase |-> "published", want |-> profileLock, before |-> surface]
    /\ UNCHANGED <<profileLock, store, surface, saved, kept>>
BackUp(s) ==
    /\ At("published") /\ doing.takeover /\ surface[s] \in Own
    /\ saved' = saved \union {surface[s]}
    /\ UNCHANGED <<profileLock, store, surface, doing, kept>>

BackedUpSome(s) == surface[s] \in Own => doing.takeover /\ saved # {}
Replaceable(s) == surface[s] \in Own => doing.takeover /\ surface[s] \in saved
Materialize(s) ==
    /\ At("published") /\ surface[s] # doing.want /\ Replaceable(s)
    /\ surface' = [surface EXCEPT ![s] = doing.want]
    /\ doing' = [doing EXCEPT !.before[s] = surface[s]]
    /\ UNCHANGED <<profileLock, store, saved, kept>>

\* The conflict keeps the lock and rolls the surfaces back.
AsFound == surface
RolledBack == [s \in Surfaces |-> IF surface[s] = doing.want THEN doing.before[s] ELSE surface[s]]
Conflict ==
    /\ At("published") /\ ~doing.takeover /\ \E s \in Surfaces : surface[s] \in Own
    /\ surface' = RolledBack /\ doing' = None
    /\ UNCHANGED <<profileLock, store, saved, kept>>
Finish ==
    /\ At("published") /\ \A s \in Surfaces : surface[s] = doing.want
    /\ doing' = None
    /\ UNCHANGED <<profileLock, store, surface, saved, kept>>

\* The owner, at any time.
Put(s, x) ==
    /\ x \notin kept /\ surface[s] \notin Own
    /\ surface' = [surface EXCEPT ![s] = x] /\ kept' = kept \union {x} /\ saved' = saved \ {x}
    /\ UNCHANGED <<profileLock, store, doing>>
Remove(s) ==
    /\ surface' = [surface EXCEPT ![s] = None] /\ kept' = kept \ {surface[s]}
    /\ UNCHANGED <<profileLock, store, doing, saved>>
Take(x) ==
    /\ x \in saved /\ saved' = saved \ {x}
    /\ kept' = IF \E s \in Surfaces : surface[s] = x THEN kept ELSE kept \ {x}
    /\ UNCHANGED <<profileLock, store, surface, doing>>

Next ==
    \/ Resolve \/ PublishStore \/ PublishLock \/ ReadLock \/ Conflict \/ Finish
    \/ \E s \in Surfaces :
           BackUp(s) \/ Materialize(s) \/ Remove(s) \/ \E x \in Own : Put(s, x)
    \/ \E x \in Own : Take(x)

Spec == Init /\ [][Next]_vars

--------------------------------------------------------------------------------
\* Whoever reads the lock finds the store entries it refers to.
LockIsServed == profileLock \in store

\* No conflict leaves skills of two locks side by side, and none are in place of a
\* lock that is not published.
SurfacesAreOneSet ==
    Idle => \E lock \in 0 .. profileLock : \A s \in Surfaces : ManagedAt(s) => surface[s] = lock

\* What the owner put into place is there or backed up, also when it took the place
\* of something that was backed up before it.
OwnersIsKept == \A x \in kept : x \in saved \/ \E s \in Surfaces : surface[s] = x
==============================================================================
