------------------------------- MODULE ShellHook -------------------------------
(* The trust gate of the environment files a shell hook sources, as validate.py  *)
(* derives it from the approval record of the manager and the digest of the      *)
(* file: while files are edited, approved and shipped with records of their own, *)
(* shells activate.  Revision A sources and warns, revision B does not source.   *)
EXTENDS FiniteSets

CONSTANTS Files, Bytes, Shells, None

Warnings == {"shell_hook_env_unapproved", "shell_hook_env_changed"}
HookAssumption == None \notin Bytes \union Warnings

Rollouts == {"A-warning", "B-enforcing"}

VARIABLES
    rollout,
    content,    \* file -> its bytes
    record,     \* file -> bytes the manager's record approves, or None
    supplied,   \* file -> bytes a record inside the project approves, or None
    warned,     \* shell -> files it was warned of
    ran,        \* [shell, file, bytes] sourced so far
    approved    \* [file, bytes] that were approved at some time

vars == <<rollout, content, record, supplied, warned, ran, approved>>

Init ==
    /\ rollout \in Rollouts /\ content \in [Files -> Bytes]
    /\ record = [f \in Files |-> None] /\ supplied = record
    /\ warned = [s \in Shells |-> {}] /\ ran = {} /\ approved = {}

--------------------------------------------------------------------------------
Edit(f, b) ==
    /\ content' = [content EXCEPT ![f] = b]
    /\ UNCHANGED <<rollout, record, supplied, warned, ran, approved>>

Supply(f, b) ==
    /\ supplied' = [supplied EXCEPT ![f] = b]
    /\ UNCHANGED <<rollout, content, record, warned, ran, approved>>

\* An operator, or the manager for what it wrote, approves what is there.
Approve(f) ==
    /\ record' = [record EXCEPT ![f] = content[f]]
    /\ approved' = approved \union {[file |-> f, bytes |-> content[f]]}
    /\ UNCHANGED <<rollout, content, supplied, warned, ran>>

Revoke(f) ==
    /\ record' = [record EXCEPT ![f] = None]
    /\ UNCHANGED <<rollout, content, supplied, warned, ran, approved>>

\* Mutant: a record the project brings along counts.
TrustedByAny(f) == content[f] \in {record[f], supplied[f]}

Trusted(f) == content[f] = record[f]

Diagnostic(f) ==
    CASE Trusted(f) -> None
      [] ~Trusted(f) /\ record[f] = None -> "shell_hook_env_unapproved"
      [] ~Trusted(f) /\ record[f] # None -> "shell_hook_env_changed"

Sourced(f) == Trusted(f) \/ rollout = "A-warning"

\* A shell warns of a file once.
Activate(s, f) ==
    /\ warned' = IF Diagnostic(f) # None THEN [warned EXCEPT ![s] = @ \union {f}] ELSE warned
    /\ ran' = IF Sourced(f) THEN ran \union {[shell |-> s, file |-> f, bytes |-> content[f]]} ELSE ran
    /\ UNCHANGED <<rollout, content, record, supplied, approved>>

Next ==
    \/ \E f \in Files :
        \/ \E b \in Bytes : Edit(f, b) \/ Supply(f, b)
        \/ Approve(f) \/ Revoke(f)
        \/ \E s \in Shells : Activate(s, f)

Spec == Init /\ [][Next]_vars

--------------------------------------------------------------------------------
TypeOK ==
    /\ rollout \in Rollouts /\ content \in [Files -> Bytes] /\ record \in [Files -> Bytes \union {None}]
    /\ \A x \in ran : x.shell \in Shells /\ x.file \in Files /\ x.bytes \in Bytes

\* What a shell has sourced was once approved as it was or, while the rule only
\* warns, the shell has been told of that file; a project never approves itself.
RanApproved ==
    \A x \in ran :
        \/ [file |-> x.file, bytes |-> x.bytes] \in approved
        \/ rollout = "A-warning" /\ x.file \in warned[x.shell]
================================================================================
