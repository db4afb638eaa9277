------------------------------ MODULE MCTelemetry ------------------------------
(***************************************************************************)
(* Instances of Telemetry for TLC.                                         *)
(***************************************************************************)
EXTENDS Telemetry, TLC

CONSTANTS s1, m1, r1, main, topic

\* Two branches of one repository and a detached HEAD.
MCPlaces == {<<r1, main>>, <<r1, topic>>, <<r1, None>>}
Symmetric == Permutations({main, topic})
=============================================================================
