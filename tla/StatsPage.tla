------------------------------ MODULE StatsPage ------------------------------
(***************************************************************************)
(* The figures of the dashboard in a tab: the hook useStats, which the     *)
(* shell calls with the range that is selected.  A chain of requests asks  *)
(* until the server has figures: 202 means that it is still computing.     *)
(* There is one chain of the effect, which a change of the range aborts,   *)
(* and one for every press of Refresh, which nothing aborts.               *)
(***************************************************************************)
EXTENDS LoginGate, Naturals

CONSTANTS
    Ranges,
    Presses,      \* the presses of Refresh, each with a chain of its own
    MaxChanges    \* of the range
ASSUME StatsPageAssumption == MaxChanges \in Nat /\ "effect" \notin Presses /\ Ranges # {}

VARIABLES
    range,        \* selected, as the shell keeps it
    figures,      \* the range of the figures on the screen, None before there are any
    pending,
    statsError,
    chains,       \* what each chain is doing, and the range it asks for
    timer,        \* the chain whose timeout is in timer.current
    changes,
    overtaken     \* what the properties remember: the range changed under a Refresh

statsVars == <<range, figures, pending, statsError, chains, timer, changes, overtaken>>

Chains == {"effect"} \cup Presses
Off == [at |-> "off", query |-> None]
Asks(q) == [at |-> "asked", query |-> q]
Is(c, at) == chains[c].at = at
Goes(c, at) == chains' = [chains EXCEPT ![c].at = at]
Ends(c) == chains' = [chains EXCEPT ![c] = Off]

StatsInit ==
    /\ range = CHOOSE q \in Ranges : TRUE   \* DEFAULT_RANGE
    /\ figures = None
    /\ pending = TRUE
    /\ statsError = FALSE
    /\ chains = [c \in Chains |-> IF c = "effect" THEN Asks(range) ELSE Off]
    /\ timer = None
    /\ changes = 0
    /\ overtaken = FALSE

-----------------------------------------------------------------------------
(* The answers to a request of chain c                                     *)

\* 202: ask again in two seconds.
Computing(c) ==
    /\ Is(c, "asked") /\ session
    /\ Goes(c, "waits")
    /\ timer' = c
    /\ pending' = TRUE
    /\ UNCHANGED <<gateVars, range, figures, statsError, changes, overtaken>>

\* 200: the figures of the range that was asked for.
Figures(c) ==
    /\ Is(c, "asked") /\ session
    /\ figures' = chains[c].query
    /\ pending' = FALSE
    /\ statsError' = FALSE
    /\ Ends(c)
    /\ UNCHANGED <<gateVars, range, timer, changes, overtaken>>

\* An error, of the server or on the way to it: what is on the screen stays.
Fails(c) ==
    /\ chains[c].at \in {"asked", "posted"}
    /\ statsError' = TRUE
    /\ pending' = FALSE
    /\ Ends(c)
    /\ UNCHANGED <<gateVars, range, figures, timer, changes, overtaken>>

Unauthorized(c) ==
    /\ Is(c, "asked") /\ ~session
    /\ reportUnauthenticated
    /\ pending' = FALSE
    /\ Ends(c)
    /\ UNCHANGED <<range, figures, statsError, timer, changes, overtaken>>

Tick(c) ==
    /\ Is(c, "waits")
    /\ Goes(c, "asked")
    /\ UNCHANGED <<gateVars, range, figures, pending, statsError, timer, changes, overtaken>>

-----------------------------------------------------------------------------
(* The person                                                              *)

StaleQuery(q) == chains["effect"]   \* seeded bug: poll is not made again for the new query

\* The chain of the effect for range q, in the place of the one that its cleanup aborts.
Restarted(q) == Asks(q)

\* The cleanup also clears the timeout that came last, whose chain ever that is of.
SetRange(q) ==
    /\ gate /\ q # range
    /\ changes < MaxChanges
    /\ changes' = changes + 1
    /\ range' = q
    /\ pending' = TRUE
    /\ chains' = [c \in Chains |-> IF c = "effect" THEN Restarted(q)
                                   ELSE IF c = timer /\ Is(c, "waits") THEN Off ELSE chains[c]]
    /\ overtaken' = (overtaken \/ \E c \in Presses : chains'[c] # Off)
    /\ UNCHANGED <<gateVars, figures, statsError, timer>>

\* The button is there while nothing is pending, or nothing was ever shown.
Refresh(c) ==
    /\ gate /\ (figures = None \/ ~pending)
    /\ chains[c] = Off
    /\ chains' = [chains EXCEPT ![c] = [at |-> "posted", query |-> range]]
    /\ pending' = TRUE
    /\ UNCHANGED <<gateVars, range, figures, statsError, timer, changes, overtaken>>

\* The POST is answered, anyhow.
Posted(c) ==
    /\ Is(c, "posted")
    /\ Goes(c, "asked")
    /\ UNCHANGED <<gateVars, range, figures, pending, statsError, timer, changes, overtaken>>

StatsStep(c) == Computing(c) \/ Figures(c) \/ Fails(c) \/ Unauthorized(c) \/ Tick(c) \/ Posted(c)

StatsNext ==
    \/ \E c \in Chains : StatsStep(c)
    \/ \E q \in Ranges : SetRange(q)
    \/ \E c \in Presses : Refresh(c)

-----------------------------------------------------------------------------
\* When nothing is under way, the figures are those of the range that is selected, or the page says
\* that something failed, or the gate has been told: no answer to an earlier question is the last to
\* arrive, unless the question was a Refresh that the change of the range came after
\* (useStats.ts:81-136).
ShownIsSelected ==
    gate /\ (\A c \in Chains : chains[c] = Off) =>
        figures = range \/ statsError \/ lapsed \/ overtaken
=============================================================================
