---------------------------- MODULE RegistryVectors ----------------------------
(* The gate on the registry vectors of tools/validate.py.  A vector is a named   *)
(* case; the gate recomputes its outcome from its inputs, so an editor who       *)
(* changes both together would be believed, and pins the inputs its name stands   *)
(* for.  Here one case is edited, input by input, with the outcome always        *)
(* rewritten to agree: what is left for the gate to refuse is a case that no      *)
(* longer is what its name says.  JSON types are right by construction; an input  *)
(* the verdict never reads is left out.                                          *)
EXTENDS Naturals

CONSTANT Versions

VersionsAssumption == Versions \subseteq Nat

CheckpointNames ==
    {"checkpoint-not-configured", "checkpoint-signature-invalid", "checkpoint-below-live-consistent",
     "checkpoint-equal-consistent", "checkpoint-equal-inconsistent", "live-below-checkpoint",
     "live-above-prefix-mismatch"}
FirstUseNames ==
    {"checkpoint-first-use-accepted", "checkpoint-first-network-below-tampered",
     "checkpoint-first-network-equal-different-tampered", "no-checkpoint-first-use-tofu",
     "checkpoint-signature-invalid-first-use"}
RebootstrapNames ==
    {"rebootstrap-advance-accepted", "rebootstrap-equal-consistent-noop", "rebootstrap-regression-refused",
     "rebootstrap-equal-inconsistent-refused", "rebootstrap-signature-invalid-ignored"}
DivergenceNames ==
    {"divergence-detected-advisory", "divergence-detected-strict", "divergence-views-agree",
     "divergence-different-sizes-skipped", "divergence-single-registry-skipped"}
Names == CheckpointNames \union FirstUseNames \union RebootstrapNames \union DivergenceNames

\* ours, theirs: live and checkpoint, first network and checkpoint, checkpoint and
\* stored.  agrees: the bodies, the roots or, for a live log above, its prefix.
Phases == {"startup", "bootstrap", "rebootstrap", "compare"}
Cases == [phase : Phases, configured : BOOLEAN, signed : BOOLEAN, ours : Versions,
          theirs : Versions, agrees : BOOLEAN, group : 0 .. 2, sameSize : BOOLEAN,
          policy : {"advisory", "strict"}]

VARIABLES name, case
vars == <<name, case>>

--------------------------------------------------------------------------------
\* expected_checkpoint_verdict.
Startup(c) ==
    CASE ~c.configured -> "checkpoint_not_configured"
      [] c.configured /\ ~c.signed -> "checkpoint_signature_invalid"
      [] c.configured /\ c.signed ->
            IF c.ours < c.theirs THEN "restore_below_checkpoint"
            ELSE IF c.agrees THEN "serves" ELSE "restore_inconsistent_with_checkpoint"

\* expected_bootstrap_verdict: first use, with state, and the comparison of views.
FirstUse(c) ==
    CASE ~c.configured -> "registry_bootstrap_tofu"
      [] c.configured /\ ~c.signed -> "unavailable"
      [] c.configured /\ c.signed ->
            IF c.ours < c.theirs \/ (c.ours = c.theirs /\ ~c.agrees) THEN "excluded_after_persisting"
            ELSE "persisted"

Again(c) ==
    CASE ~c.signed -> "ignored"
      [] c.signed ->
            IF c.ours < c.theirs \/ (c.ours = c.theirs /\ ~c.agrees) THEN "registry_checkpoint_regression"
            ELSE IF c.ours = c.theirs THEN "unchanged" ELSE "advanced"

Compared(c) ==
    CASE c.group < 2 \/ ~c.sameSize -> "not_compared"
      [] c.group = 2 /\ c.sameSize ->
            IF c.agrees THEN "agree"
            ELSE IF c.policy = "strict" THEN "registry_view_divergence_error"
            ELSE "registry_view_divergence_warning"

Verdict(c) ==
    CASE c.phase = "startup" -> Startup(c)
      [] c.phase = "bootstrap" -> FirstUse(c)
      [] c.phase = "rebootstrap" -> Again(c)
      [] c.phase = "compare" -> Compared(c)

\* What each name promises its readers.
Meaning(n) ==
    CASE n = "checkpoint-not-configured" -> "checkpoint_not_configured"
      [] n = "checkpoint-signature-invalid" -> "checkpoint_signature_invalid"
      [] n \in {"checkpoint-below-live-consistent", "checkpoint-equal-consistent"} -> "serves"
      [] n \in {"checkpoint-equal-inconsistent", "live-above-prefix-mismatch"} ->
            "restore_inconsistent_with_checkpoint"
      [] n = "live-below-checkpoint" -> "restore_below_checkpoint"
      [] n = "checkpoint-first-use-accepted" -> "persisted"
      [] n \in {"checkpoint-first-network-below-tampered",
                "checkpoint-first-network-equal-different-tampered"} -> "excluded_after_persisting"
      [] n = "no-checkpoint-first-use-tofu" -> "registry_bootstrap_tofu"
      [] n = "checkpoint-signature-invalid-first-use" -> "unavailable"
      [] n = "rebootstrap-advance-accepted" -> "advanced"
      [] n = "rebootstrap-equal-consistent-noop" -> "unchanged"
      [] n \in {"rebootstrap-regression-refused", "rebootstrap-equal-inconsistent-refused"} ->
            "registry_checkpoint_regression"
      [] n = "rebootstrap-signature-invalid-ignored" -> "ignored"
      [] n = "divergence-detected-advisory" -> "registry_view_divergence_warning"
      [] n = "divergence-detected-strict" -> "registry_view_divergence_error"
      [] n = "divergence-views-agree" -> "agree"
      [] n \in {"divergence-different-sizes-skipped", "divergence-single-registry-skipped"} -> "not_compared"

--------------------------------------------------------------------------------
\* require_checkpoint_scenario.
CheckpointPin(n, c) ==
    /\ c.phase = "startup"
    /\ c.configured <=> n # "checkpoint-not-configured"
    /\ n # "checkpoint-not-configured" => (c.signed <=> n # "checkpoint-signature-invalid")
    /\ n = "live-below-checkpoint" => c.ours < c.theirs
    /\ n \in {"checkpoint-equal-consistent", "checkpoint-equal-inconsistent"} =>
        c.ours = c.theirs /\ (c.agrees <=> n = "checkpoint-equal-consistent")
    /\ n \in {"checkpoint-below-live-consistent", "live-above-prefix-mismatch"} =>
        c.ours > c.theirs /\ (c.agrees <=> n = "checkpoint-below-live-consistent")

\* Mutant: a first network at the checkpoint's version is not told from one above.
FirstUsePinAtOrAbove(n, c) ==
    /\ c.phase = "bootstrap" /\ (c.configured <=> n # "no-checkpoint-first-use-tofu")
    /\ c.configured => (c.signed <=> n # "checkpoint-signature-invalid-first-use")
    /\ n = "checkpoint-first-network-below-tampered" => c.ours < c.theirs
    /\ n \in {"checkpoint-first-use-accepted", "checkpoint-first-network-equal-different-tampered"} =>
        c.ours >= c.theirs
    /\ n = "checkpoint-first-network-equal-different-tampered" => ~c.agrees

\* require_bootstrap_scenario, by phase.
FirstUsePin(n, c) ==
    /\ c.phase = "bootstrap" /\ (c.configured <=> n # "no-checkpoint-first-use-tofu")
    /\ c.configured => (c.signed <=> n # "checkpoint-signature-invalid-first-use")
    /\ n = "checkpoint-first-use-accepted" => c.ours > c.theirs
    /\ n = "checkpoint-first-network-below-tampered" => c.ours < c.theirs
    /\ n = "checkpoint-first-network-equal-different-tampered" => c.ours = c.theirs /\ ~c.agrees

RebootstrapPin(n, c) ==
    /\ c.phase = "rebootstrap" /\ c.configured
    /\ c.signed <=> n # "rebootstrap-signature-invalid-ignored"
    /\ n = "rebootstrap-regression-refused" => c.ours < c.theirs
    /\ n = "rebootstrap-advance-accepted" => c.ours > c.theirs
    /\ n \in {"rebootstrap-equal-consistent-noop", "rebootstrap-equal-inconsistent-refused"} =>
        c.ours = c.theirs /\ (c.agrees <=> n = "rebootstrap-equal-consistent-noop")

DivergencePin(n, c) ==
    /\ c.phase = "compare" /\ (c.group < 2 <=> n = "divergence-single-registry-skipped")
    /\ c.group = 2 => (~c.sameSize <=> n = "divergence-different-sizes-skipped")
    /\ n \in {"divergence-views-agree", "divergence-detected-advisory", "divergence-detected-strict"} =>
        (c.agrees <=> n = "divergence-views-agree")
    /\ n = "divergence-detected-advisory" => c.policy = "advisory"
    /\ n = "divergence-detected-strict" => c.policy = "strict"

\* The gate, for a case whose outcome agrees with its inputs.
Admits(n, c) ==
    CASE n \in CheckpointNames -> CheckpointPin(n, c)
      [] n \in FirstUseNames -> FirstUsePin(n, c)
      [] n \in RebootstrapNames -> RebootstrapPin(n, c)
      [] n \in DivergenceNames -> DivergencePin(n, c)

Init == name \in Names /\ case \in Cases /\ Admits(name, case)

\* One input is rewritten, and the outcome with it.
Rewrite(next) == case' = next /\ UNCHANGED name

Next ==
    \/ \E p \in Phases : Rewrite([case EXCEPT !.phase = p])
    \/ \E f \in {"configured", "signed", "agrees", "sameSize"}, b \in BOOLEAN :
        Rewrite([case EXCEPT ![f] = b])
    \/ \E f \in {"ours", "theirs"}, v \in Versions : Rewrite([case EXCEPT ![f] = v])
    \/ \E g \in 0 .. 2 : Rewrite([case EXCEPT !.group = g])
    \/ \E p \in {"advisory", "strict"} : Rewrite([case EXCEPT !.policy = p])

Spec == Init /\ [][Next]_vars

--------------------------------------------------------------------------------
TypeOK == name \in Names /\ case \in Cases

\* However a case is rewritten, as long as the gate admits it under its name it has
\* the outcome the name promises: no refusal is replaced by an acceptance that
\* agrees with itself.
NamesKeepTheirMeaning == Admits(name, case) => Verdict(case) = Meaning(name)
================================================================================
