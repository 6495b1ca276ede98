------------------------ MODULE MCFixtureSupervision ------------------------
(* Instances of FixtureSupervision for TLC. *)
EXTENDS FixtureSupervision

\* A passing body, a failing one, and one that panics with the refusal status.
MCBodyStatus == {0, 1, 2}
=============================================================================
