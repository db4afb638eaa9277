--------------------------- MODULE MCBranchHistory ---------------------------
(* Instances of BranchHistory for TLC.                                     *)
EXTENDS BranchHistory

CONSTANTS r1, r2

MCRepoOf == [c \in Commits |-> IF c = 2 THEN r2 ELSE r1]
===============================================================================
