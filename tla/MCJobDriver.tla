---------------------------- MODULE MCJobDriver ----------------------------
(* Instances of JobDriver for TLC.                                         *)
EXTENDS JobDriver, TLC

CONSTANTS c1, d1, d2, s1, s2

\* One slot each: a job that changes hands changes machines.
TwoDrivers == s1 :> d1 @@ s2 :> d2

\* Two slots of one driver: a job that changes hands may stay on its machine.
OneDriver == s1 :> d1 @@ s2 :> d1

\* Two drivers with the same configuration are interchangeable, slots and all.
DriverSymmetry == {d1 :> d2 @@ d2 :> d1 @@ s1 :> s2 @@ s2 :> s1}
=============================================================================
