---------------------------- MODULE WorkspaceConsent ----------------------------
(* What the workspace trust ledger promises: authority over a workspace comes *)
(* from a consent event that has not counted before, reaches exactly the      *)
(* environments and the path that the event named, and once withdrawn is      *)
(* never there again.  Protocol section 7.10; tools/workspace_trust.py keeps  *)
(* records with provenance, bindings and repository identities instead.       *)
CONSTANTS Environments, Paths, Transactions, None

VARIABLES
    granted,    \* the authority there is: <<environment, path, transaction>>
    spent,      \* the consent events that have counted
    answer      \* what the last request found authorized, or None

vars == <<granted, spent, answer>>

At(e, p) == {g \in granted : g[1] = e /\ g[2] = p}

Init == granted = {} /\ spent = {} /\ answer = None

Consent(t, envs, p) ==
    /\ t \notin spent
    /\ spent' = spent \union {t}
    /\ granted' = granted \union (envs \X {p} \X {t})
    /\ answer' = None

\* The operator withdraws whatever was consented for one environment and path.
Withdraw(e, p) ==
    /\ granted' = granted \ At(e, p)
    /\ answer' = None
    /\ UNCHANGED spent

\* A binding goes, and the authority that it brought.
Unbind(t) ==
    /\ granted' = {g \in granted : g[3] # t}
    /\ answer' = None
    /\ UNCHANGED spent

\* Asking never adds authority; it may find that some of it has lapsed.
Ask(e, p) ==
    \E lost \in SUBSET At(e, p) :
        /\ granted' = granted \ lost
        /\ answer' = IF At(e, p) \ lost = {} THEN None ELSE <<e, p>>
        /\ UNCHANGED spent

\* Listings, repetitions and refusals.
Other == answer' = None /\ UNCHANGED <<granted, spent>>

Next ==
    \/ \E t \in Transactions, envs \in SUBSET Environments, p \in Paths :
          Consent(t, envs, p)
    \/ \E e \in Environments, p \in Paths : Withdraw(e, p) \/ Ask(e, p)
    \/ \E t \in Transactions : Unbind(t)
    \/ Other

Spec == Init /\ [][Next]_vars
================================================================================
