------------------------------ MODULE MCAccounts ------------------------------
(* Instances of Accounts, and with it of Migrations, for TLC.              *)
EXTENDS Accounts, TLC

CONSTANTS u1, u2, f1, f2, t1, t2, alice, bob, carl

Symmetric == Permutations({u1, u2}) \cup Permutations({t1, t2}) \cup Permutations({f1, f2}) \cup Permutations({bob, carl})
=============================================================================
