--------------------------------- MODULE Tab ---------------------------------
(***************************************************************************)
(* One tab of the dashboard: the shell with the figures, the workspace     *)
(* page in it, and the gate around both.  The two hooks share the gate and *)
(* nothing else, so a behaviour follows one of them; the other one is no   *)
(* more than the 401 that it may be answered.                              *)
(***************************************************************************)
EXTENDS StatsPage, WorkspacePage

VARIABLE hook   \* the one that is followed

vars == <<gateVars, statsVars, workspaceVars, hook>>

Init == GateInit /\ StatsInit /\ WorkspaceInit /\ hook \in {"useStats", "useWorkspace"}

OtherUnauthorized == ~session /\ reportUnauthenticated

\* A session that ends is one of the things that may go wrong.  What the gate does after a 401 is the
\* same whichever hook is followed.
Gate ==
    /\ \/ ~lapsed /\ SessionEnds /\ Hitch
       \/ ~lapsed /\ (SignsInElsewhere \/ OtherUnauthorized) /\ UNCHANGED hitches
       \/ hook = "useStats" /\ (\E answered \in BOOLEAN : check(answered)) /\ UNCHANGED hitches
    /\ UNCHANGED <<statsVars, rowVars, facts, listed, pageVars, hook>>

\* A page that is not rendered does nothing more.  Nothing is claimed of a page after a 401, and what it
\* does then is not followed.
Follows(h) == hook = h /\ UNCHANGED hook /\ gate /\ ~lapsed

useStats == Follows("useStats") /\ StatsNext /\ UNCHANGED workspaceVars
useWorkspace == Follows("useWorkspace") /\ WorkspaceNext /\ UNCHANGED statsVars

Next == Gate \/ useStats \/ useWorkspace

Spec == Init /\ [][Next]_vars /\ WorkspaceFairness
=============================================================================
