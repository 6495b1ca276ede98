------------------------------ MODULE PolicyGrants -----------------------------
(* Policy grants of tools/workspace_policy_grant.py: a grant records consent    *)
(* given once under a policy entry, decides later launches without asking      *)
(* again, and owns keys in a journal which its revocation cleans up.            *)
(*                                                                            *)
(* Approving, lapsing, editing the policy and everything a decision observes    *)
(* are the environment's; Launch and Revoke are the code.  The digest of a     *)
(* policy entry is the entry.  Facts that are simply true or false are names in *)
(* Facts; "broken" holds those that are false.  The grammar of destinations and *)
(* the JSON schema are not modelled.                                           *)
EXTENDS Naturals, Sequences

CONSTANTS
    Grants, Entries, Keys, Hooks,
    Policies,       \* what an entry may say
    KeysOf,         \* grant -> the keys it owns
    MaxTime, None

Times == 0 .. MaxTime
States == [status : {"active", "lapsed", "revoked"}, time : Times]
Records == [entry : Entries, policy : Policies, time : Times, states : Seq(States),
            hooks : SUBSET Hooks]

GrantAssumption ==
    /\ KeysOf \in [Grants -> SUBSET Keys] /\ MaxTime \in Nat
    /\ Policies \subseteq [hooks : SUBSET Hooks, since : 0 .. MaxTime, until : 0 .. MaxTime]
    /\ None \notin Policies /\ None \notin Records

Readability == {"policy_readable", "ledger_readable", "journal_readable"}
Subject == {"registration", "repository", "nofollow_identity_matches", "root_commit"}
Destination == {"destination_verified", "ssh_pins_match", "command_free_routing", "remote_spelling"}
Identity == {"environment", "lane", "issuer", "project_trust"}
Facts == Readability \union Subject \union Destination \union Identity
         \union {"authenticated_approval", "adapter_qualified", "hook_state_readable"}

VARIABLES
    now,
    policy,         \* entry -> what it says now, or None
    records,        \* grant -> its record, or None
    journal         \* key -> present, pending cleanup, still as written, its grants

vars == <<now, policy, records, journal>>

Given(g) == records[g] # None
Current(r) == r.states[Len(r.states)].status
Granted == {g \in Grants : Given(g)}
Active(rs) == {g \in Grants : rs[g] # None /\ Current(rs[g]) = "active"}

Init ==
    /\ now = 0
    /\ policy \in [Entries -> Policies]
    /\ records = [g \in Grants |-> None]
    /\ journal = [k \in Keys |-> [present |-> FALSE, pending |-> FALSE, intact |-> TRUE, grants |-> {}]]

--------------------------------------------------------------------------------
\* record_error: the history is a life of a grant, in the order of its times.
Lives == {<<"active">>, <<"active", "revoked">>, <<"active", "lapsed">>,
          <<"active", "lapsed", "revoked">>}
WellFormed(r) ==
    /\ [i \in DOMAIN r.states |-> r.states[i].status] \in Lives
    /\ \A i \in 1 .. (Len(r.states) - 1) : r.states[i].time =< r.states[i + 1].time
    /\ r.states[1].time = r.time /\ r.policy.until > r.time

\* In force: neither lapsed nor due for review, dated inside the policy's time.
InForce(r) ==
    /\ Current(r) # "lapsed" /\ r.policy.until > now
    /\ r.policy.since =< r.time /\ r.time =< now
    /\ r.states[Len(r.states)].time =< now

HooksCovered(r, broken, effective) ==
    /\ "hook_state_readable" \notin broken
    /\ r.hooks \subseteq policy[r.entry].hooks /\ effective \subseteq r.hooks

\* decision: the first failed check answers.  A policy or digest that changed, a
\* revocation and a review that is due each have an answer of their own.
Decision(r, broken, effective) ==
    IF ~WellFormed(r) \/ broken \intersect Readability # {} THEN "workspace_trust_ledger_unreadable"
    ELSE IF "authenticated_approval" \in broken THEN "workspace_trust_policy_authority"
    ELSE IF policy[r.entry] = None \/ "registration" \in broken THEN "workspace_untrusted"
    ELSE IF r.policy # policy[r.entry] THEN "workspace_trust_policy_digest"
    ELSE IF Current(r) = "revoked" THEN "workspace_trust_grant_revoked"
    ELSE IF ~InForce(r) THEN "workspace_untrusted"
    ELSE IF broken \intersect Subject # {} THEN "workspace_trust_repository_changed"
    ELSE IF broken \intersect Destination # {} THEN "workspace_trust_destination_mismatch"
    ELSE IF broken \intersect Identity # {} THEN "workspace_untrusted"
    ELSE IF "adapter_qualified" \in broken THEN "workspace_trust_adapter_unqualified"
    ELSE IF ~HooksCovered(r, broken, effective) THEN "workspace_trust_hook_digest"
    ELSE "admitted"

\* An admitted launch writes the keys of its grant; a refused one nothing.
Launch(g, broken, effective) ==
    /\ Given(g) /\ Decision(records[g], broken, effective) = "admitted"
    /\ journal' = [k \in Keys |->
                     IF k \in KeysOf[g]
                     THEN [present |-> TRUE, pending |-> FALSE, intact |-> TRUE,
                           grants |-> journal[k].grants \union {g}]
                     ELSE journal[k]]
    /\ UNCHANGED <<now, policy, records>>

\* Mutant: a grant already revoked is revoked once more.
Again(r) == [r EXCEPT !.states = Append(@, [status |-> "revoked", time |-> now])]

Revoked(r) ==
    IF Current(r) = "revoked" THEN r
    ELSE [r EXCEPT !.states = Append(@, [status |-> "revoked", time |-> now])]

\* Mutant: a key stays while any other grant names it, revoked or not.
NotShared(k, affected, rs) == journal[k].grants \subseteq affected

\* Mutant: a key goes with the first of its grants that is revoked.
FirstTakesIt(k, affected, rs) == TRUE

\* A key another active grant names is left as it is.
Unshared(k, affected, rs) == journal[k].grants \intersect Active(rs) = {}

\* revoke: every record of the entry first, then the keys of those grants.
Revoke(e) ==
    LET affected == {g \in Granted : records[g].entry = e}
        rs == [g \in Grants |-> IF g \in affected THEN Revoked(records[g]) ELSE records[g]]
    IN
    /\ records' = rs
    /\ journal' = [k \in Keys |->
                     IF journal[k].grants \intersect affected # {} /\ Unshared(k, affected, rs)
                     THEN IF journal[k].intact
                          THEN [journal[k] EXCEPT !.present = FALSE, !.pending = FALSE]
                          ELSE [journal[k] EXCEPT !.pending = TRUE]
                     ELSE journal[k]]
    /\ UNCHANGED <<now, policy>>

--------------------------------------------------------------------------------
\* An operator approves a grant under an entry, for some of its hooks.
Approve(g, e, hooks) ==
    /\ ~Given(g) /\ policy[e] # None /\ hooks \subseteq policy[e].hooks
    /\ policy[e].since =< now /\ now < policy[e].until
    /\ records' = [records EXCEPT ![g] =
        [entry |-> e, policy |-> policy[e], time |-> now, hooks |-> hooks,
         states |-> <<[status |-> "active", time |-> now]>>]]
    /\ UNCHANGED <<now, policy, journal>>

Lapse(g) ==
    /\ Given(g) /\ Current(records[g]) = "active" /\ records[g].policy.until =< now
    /\ records' = [records EXCEPT ![g].states = Append(@, [status |-> "lapsed", time |-> now])]
    /\ UNCHANGED <<now, policy, journal>>

Edit(e, c) == policy' = [policy EXCEPT ![e] = c] /\ UNCHANGED <<now, records, journal>>
Tick == now < MaxTime /\ now' = now + 1 /\ UNCHANGED <<policy, records, journal>>

\* Someone edits a key or takes away the right to read it, or undoes that.
Touch(k) ==
    /\ journal[k].present
    /\ journal' = [journal EXCEPT ![k].intact = ~@]
    /\ UNCHANGED <<now, policy, records>>

Next ==
    \/ \E g \in Grants :
        \/ \E f \in {{}} \union {{x} : x \in Facts}, hs \in SUBSET Hooks : Launch(g, f, hs)
        \/ \E e \in Entries, hs \in SUBSET Hooks : Approve(g, e, hs)
        \/ Lapse(g)
    \/ \E e \in Entries : Revoke(e) \/ \E c \in Policies \union {None} : Edit(e, c)
    \/ \E k \in Keys : Touch(k)
    \/ Tick

Spec == Init /\ [][Next]_vars

--------------------------------------------------------------------------------
TypeOK ==
    /\ now \in Times /\ policy \in [Entries -> Policies \union {None}]
    /\ records \in [Grants -> Records \union {None}]
    /\ journal \in [Keys -> [present : BOOLEAN, pending : BOOLEAN, intact : BOOLEAN,
                             grants : SUBSET Grants]]

\* Whatever is approved, lapses and is revoked in whatever order and how often, no
\* record ever becomes one the ledger cannot read.
RecordsStayReadable == \A g \in Granted : WellFormed(records[g])

\* When the last of the grants that share a key is revoked, the key is gone or
\* waits for cleanup: a revocation that skipped it, since another grant was still
\* active, is made good by the revocation of that one, also after it lapsed.
NoKeyIsForgotten ==
    \A k \in Keys :
        journal[k].present /\ journal[k].grants # {}
            /\ (\A g \in journal[k].grants : Current(records[g]) = "revoked")
        => journal[k].pending

\* The key of a grant that is still active is there, whoever shared it was revoked.
ActiveKeysStay ==
    \A k \in Keys : journal[k].grants \intersect Active(records) # {} => journal[k].present
================================================================================
