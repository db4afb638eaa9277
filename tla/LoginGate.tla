------------------------------ MODULE LoginGate ------------------------------
(***************************************************************************)
(* The gate of the dashboard (components/LoginGate.tsx, api/useSession.ts) *)
(* renders the pages for as long as it believes in a session.  A page that *)
(* is answered 401 reports it, and the gate asks the server itself.        *)
(***************************************************************************)
CONSTANTS None
VARIABLES
    session,    \* the server still knows the cookie
    gate,       \* the pages are rendered
    checks,     \* the gate is asking who this is
    lapsed      \* what the properties remember: some page has been answered 401

gateVars == <<session, gate, checks, lapsed>>

GateInit ==
    /\ session = TRUE
    /\ gate = TRUE
    /\ checks = FALSE
    /\ lapsed = FALSE

\* The cookie expires, or its owner is removed.
SessionEnds ==
    /\ session
    /\ session' = FALSE
    /\ UNCHANGED <<gate, checks, lapsed>>

\* They sign in again, in another tab: the cookie is the browser's.
SignsInElsewhere ==
    /\ ~session /\ gate
    /\ session' = TRUE
    /\ UNCHANGED <<gate, checks, lapsed>>

reportUnauthenticated ==
    /\ checks' = TRUE
    /\ lapsed' = TRUE
    /\ UNCHANGED <<session, gate>>

\* /api/auth/me answers.  If it cannot be reached, the gate keeps what it believes.
check(answered) ==
    /\ checks
    /\ checks' = FALSE
    /\ gate' = (session \/ ~answered)
    /\ UNCHANGED <<session, lapsed>>
=============================================================================
