--------------------------- MODULE FixtureOwnership ---------------------------
(***************************************************************************)
(* What a supervised test run promises its caller, whatever happens to the *)
(* processes that take part in it: one group of processes works inside one *)
(* exclusive root, the root is removed only when no process of the group   *)
(* can run, nothing is started once it is gone, and an outcome that is not *)
(* a refusal is drawn only when the group has stopped and the root is gone.*)
(***************************************************************************)
VARIABLES
  root,     \* "present" or "gone"
  group,    \* "none" before the test process starts, "running", "stopped"
  outcome   \* "open", "earned", "refused", or "abandoned" by a dead owner

vars == <<root, group, outcome>>

Init == root = "present" /\ group = "none" /\ outcome = "open"

Start ==
  /\ group = "none" /\ root = "present"
  /\ outcome \in {"open", "abandoned"}
  /\ group' = "running"
  /\ UNCHANGED <<root, outcome>>

Stop ==
  /\ group = "running"
  /\ group' = "stopped"
  /\ UNCHANGED <<root, outcome>>

Reclaim == group # "running" /\ root' = "gone"

Remove ==
  /\ root = "present"
  /\ Reclaim
  /\ UNCHANGED <<group, outcome>>

Earn ==
  /\ outcome = "open"
  /\ group = "stopped" /\ root = "gone"
  /\ outcome' = "earned"
  /\ UNCHANGED <<root, group>>

\* A refusal may take the root along, or leave it for inspection.
Refuse ==
  /\ outcome = "open"
  /\ outcome' = "refused"
  /\ Reclaim \/ UNCHANGED root
  /\ UNCHANGED group

Abandon ==
  /\ outcome = "open"
  /\ outcome' = "abandoned"
  /\ UNCHANGED <<root, group>>

Next == Start \/ Stop \/ Remove \/ Earn \/ Refuse \/ Abandon

Spec == Init /\ [][Next]_vars
=============================================================================
