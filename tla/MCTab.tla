-------------------------------- MODULE MCTab --------------------------------
(***************************************************************************)
(* A tab for TLC: two ranges and two changes between them, one press of    *)
(* Refresh, two repositories of which the installation may lose one, one   *)
(* save, and one thing that goes wrong.                                    *)
(***************************************************************************)
EXTENDS Tab
=============================================================================
