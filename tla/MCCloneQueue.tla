---------------------------- MODULE MCCloneQueue ----------------------------
(* Instances of CloneQueue for TLC.                                        *)
EXTENDS CloneQueue

CONSTANTS m1, m2, a1, a2, b, da, db, s1, s2, s3, s4

\* One member with two owners' repositories of one name, and another with one.
MCMemberOf == [r \in Checkouts |-> IF r = b THEN m2 ELSE m1]
MCDirOf == [r \in Checkouts |-> IF r = b THEN db ELSE da]
=============================================================================
