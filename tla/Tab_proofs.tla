------------------------------- MODULE Tab_proofs -------------------------------
(***************************************************************************)
(* The figures of a tab are those of the range that is selected, for any   *)
(* ranges, presses of Refresh, repositories and bounds.                    *)
(***************************************************************************)
EXTENDS Tab, TLAPS

\* A chain is off, or asks for a range.
StatsTypeOK ==
    /\ range \in Ranges
    /\ chains \in [Chains -> {Off} \cup [at : {"asked", "waits", "posted"}, query : Ranges]]

\* The chain of the effect asks for the range that is selected.
EffectInv == chains["effect"] = Off \/ chains["effect"].query = range

\* So does that of a press, unless the range has changed since.
PressInv == \A c \in Presses : chains[c] = Off \/ chains[c].query = range \/ overtaken

\* Nothing asks any more.
Quiet == \A c \in Chains : chains[c] = Off

\* What was asked has been answered, one way or the other.
EndInv == Quiet => figures = range \/ statsError \/ lapsed \/ overtaken

FiguresInv == StatsTypeOK /\ EffectInv /\ PressInv /\ EndInv

-----------------------------------------------------------------------------
(* The gate                                                                *)

\* That some page was answered 401 is never forgotten.
LEMMA LapsedStays ==
  ASSUME Next, lapsed
  PROVE  lapsed'
<1>1. CASE Gate
  BY <1>1 DEF Gate, SessionEnds, SignsInElsewhere, OtherUnauthorized, reportUnauthenticated, check
<1>2. CASE useStats
  BY <1>2 DEF useStats, Follows
<1>3. CASE useWorkspace
  BY <1>3 DEF useWorkspace, Follows
<1> QED
  BY <1>1, <1>2, <1>3 DEF Next

\* A step that leaves the figures alone keeps the invariant.
LEMMA FiguresAlone ==
  ASSUME FiguresInv, Next, UNCHANGED statsVars
  PROVE  FiguresInv'
BY LapsedStays DEF FiguresInv, StatsTypeOK, EffectInv, PressInv, Quiet, EndInv, statsVars

-----------------------------------------------------------------------------
(* The figures                                                             *)

\* An answer to chain c, or a timeout of it: c goes on for the range it asks for, or is over, and then
\* what it leaves is the answer to that.
LEMMA ChainStep ==
  ASSUME FiguresInv, NEW c \in Chains, StatsStep(c),
         lapsed => lapsed'
  PROVE  FiguresInv'
<1> USE DEF Off
<1>1. /\ UNCHANGED <<range, overtaken>>
      /\ chains \in [Chains -> {Off} \cup [at : {"asked", "waits", "posted"}, query : Ranges]]
  BY DEF FiguresInv, StatsTypeOK, StatsStep, Computing, Figures, Fails, Unauthorized, Tick, Posted
<1>2. chains[c] # Off
  BY DEF StatsStep, Computing, Figures, Fails, Unauthorized, Tick, Posted, Is
<1>3. chains[c] \in [at : {"asked", "waits", "posted"}, query : Ranges]
  BY <1>1, <1>2
<1>4. chains[c].query = range \/ overtaken
  BY <1>2 DEF FiguresInv, EffectInv, PressInv, Chains
<1>5. CASE \E at \in {"asked", "waits", "posted"} : Goes(c, at)
  <2>1. PICK at \in {"asked", "waits", "posted"} : chains' = [chains EXCEPT ![c].at = at]
    BY <1>5 DEF Goes
  <2>2. chains'[c] = [at |-> at, query |-> chains[c].query]
    BY <2>1, <1>1, <1>3
  <2>3. \A d \in Chains \ {c} : chains'[d] = chains[d]
    BY <2>1, <1>1
  <2>4. StatsTypeOK'
    BY <2>1, <2>2, <2>3, <1>1, <1>3 DEF FiguresInv, StatsTypeOK
  <2>5. \A d \in Chains : \/ chains'[d] = Off /\ chains[d] = Off
                          \/ chains'[d].query = chains[d].query /\ chains[d] # Off
    BY <2>2, <2>3, <1>2
  <2>6. EffectInv'
    BY <2>5, <1>1 DEF FiguresInv, EffectInv, Chains
  <2>7. PressInv'
    BY <2>5, <1>1, Zenon DEF FiguresInv, PressInv, Chains
  <2>8. chains'[c] # Off
    BY <2>2
  <2> QED
    BY <2>4, <2>6, <2>7, <2>8 DEF FiguresInv, EndInv, Quiet
<1>6. CASE Ends(c)
  <2>1. chains' = [chains EXCEPT ![c] = Off]
    BY <1>6 DEF Ends
  <2>2. StatsTypeOK' /\ EffectInv' /\ PressInv'
    BY <2>1, <1>1, StatsPageAssumption DEF FiguresInv, StatsTypeOK, EffectInv, PressInv, Chains
  <2>3. CASE Figures(c)
    BY <2>3, <1>1, <1>4, <2>2 DEF Figures, FiguresInv, EndInv
  <2>4. CASE Fails(c)
    BY <2>4, <2>2 DEF Fails, FiguresInv, EndInv
  <2>5. CASE Unauthorized(c)
    BY <2>5, <2>2 DEF Unauthorized, reportUnauthenticated, FiguresInv, EndInv
  <2>6. CASE Computing(c) \/ Tick(c) \/ Posted(c)
    BY <2>6, <2>1, <1>1, <1>3 DEF Computing, Tick, Posted, Goes
  <2> QED
    BY <2>3, <2>4, <2>5, <2>6 DEF StatsStep
<1> QED
  BY <1>5, <1>6 DEF StatsStep, Computing, Figures, Fails, Unauthorized, Tick, Posted

\* The range changes: the chain of the effect starts over with the new one, and whatever a press still
\* asks for is remembered as overtaken.
LEMMA RangeStep ==
  ASSUME FiguresInv, NEW q \in Ranges, SetRange(q)
  PROVE  FiguresInv'
<1> USE DEF Off
<1>1. chains' = [c \in Chains |-> IF c = "effect" THEN Asks(q)
                                  ELSE IF c = timer /\ Is(c, "waits") THEN Off ELSE chains[c]]
  BY DEF SetRange, Restarted
<1>2. range' = q /\ (overtaken' <=> overtaken \/ \E c \in Presses : chains'[c] # Off)
  BY DEF SetRange
<1>3. "effect" \in Chains /\ chains'["effect"] = [at |-> "asked", query |-> q]
  BY <1>1 DEF Chains, Asks
<1>4. StatsTypeOK'
  BY <1>1, <1>2, Zenon DEF FiguresInv, StatsTypeOK, Asks
<1> QED
  BY <1>2, <1>3, <1>4 DEF FiguresInv, EffectInv, PressInv, EndInv, Quiet

\* A press of Refresh asks for the range that is selected.
LEMMA PressStep ==
  ASSUME FiguresInv, NEW c \in Presses, Refresh(c)
  PROVE  FiguresInv'
<1> USE DEF Off
<1>1. chains' = [chains EXCEPT ![c] = [at |-> "posted", query |-> range]]
  BY DEF Refresh
<1>2. UNCHANGED <<range, overtaken>>
  BY DEF Refresh
<1>3. chains'[c] = [at |-> "posted", query |-> range] /\ \A d \in Chains \ {c} : chains'[d] = chains[d]
  BY <1>1 DEF FiguresInv, StatsTypeOK, Chains
<1>4. StatsTypeOK'
  BY <1>1, <1>2 DEF FiguresInv, StatsTypeOK, Chains
<1>5. chains'[c] # Off
  BY <1>3
<1>6. EffectInv'
  BY <1>2, <1>3, StatsPageAssumption DEF FiguresInv, EffectInv, Chains
<1>7. PressInv'
  <2> SUFFICES ASSUME NEW d \in Presses
               PROVE  chains'[d] = Off \/ chains'[d].query = range' \/ overtaken'
    BY DEF PressInv
  <2>1. CASE d = c
    BY <2>1, <1>2, <1>3
  <2>2. CASE d # c
    BY <2>2, <1>2, <1>3, Zenon DEF FiguresInv, PressInv, Chains
  <2> QED
    BY <2>1, <2>2
<1>8. EndInv'
  BY <1>5 DEF EndInv, Quiet, Chains
<1> QED
  BY <1>4, <1>6, <1>7, <1>8 DEF FiguresInv

-----------------------------------------------------------------------------
\* The invariant is there to begin with, and every step keeps it.
LEMMA FiguresInvariant == Spec => []FiguresInv
<1>1. Init => FiguresInv
  <2> SUFFICES ASSUME Init PROVE FiguresInv
    OBVIOUS
  <2>1. range \in Ranges
    BY StatsPageAssumption DEF Init, StatsInit
  <2>2. chains = [c \in Chains |-> IF c = "effect" THEN Asks(range) ELSE Off]
    BY DEF Init, StatsInit
  <2>3. chains["effect"] = [at |-> "asked", query |-> range]
    BY <2>2 DEF Chains, Asks
  <2>4. \A c \in Presses : chains[c] = Off
    BY <2>2, StatsPageAssumption DEF Chains
  <2>5. StatsTypeOK
    BY <2>1, <2>2 DEF StatsTypeOK, Asks
  <2> QED
    BY <2>3, <2>4, <2>5 DEF FiguresInv, EffectInv, PressInv, EndInv, Quiet, Chains, Off
<1>2. FiguresInv /\ [Next]_vars => FiguresInv'
  <2> SUFFICES ASSUME FiguresInv, [Next]_vars PROVE FiguresInv'
    OBVIOUS
  <2>1. CASE Gate
    BY <2>1, FiguresAlone DEF Next, Gate
  <2>2. CASE useWorkspace
    BY <2>2, FiguresAlone DEF Next, useWorkspace
  <2>3. CASE useStats
    BY <2>3, ChainStep, RangeStep, PressStep, LapsedStays DEF Next, useStats, StatsNext
  <2>4. CASE UNCHANGED vars
    BY <2>4 DEF vars, gateVars, statsVars, FiguresInv, StatsTypeOK, EffectInv, PressInv, EndInv, Quiet
  <2> QED
    BY <2>1, <2>2, <2>3, <2>4 DEF Next
<1> QED
  BY <1>1, <1>2, PTL DEF Spec

\* When nothing is under way the figures are those of the range that is selected, whatever the answers
\* and in whatever order they come (useStats.ts).
THEOREM FiguresAreSelected == Spec => []ShownIsSelected
<1>1. FiguresInv => ShownIsSelected
  BY DEF FiguresInv, EndInv, Quiet, ShownIsSelected
<1> QED
  BY <1>1, FiguresInvariant, PTL
=============================================================================
