-------------------------- MODULE CloneQueue_proofs --------------------------
(***************************************************************************)
(* Theorems of CloneQueue, for any members, rows, directories and bounds.  *)
(* QueueInv says where trees and rows are, BusyInv who clones the rows     *)
(* that say cloning, WholeInv that a checkout is cloned once and whole     *)
(* unless it was queued again in the middle of it.                         *)
(***************************************************************************)
EXTENDS CloneQueue, FiniteSetTheorems, TLAPS

\* The passes and the clones in flight fit in: what a pass has asked for was free when
\* it counted, and only passes start clones.
RoomInv == room + Cardinality(InFlight) <= Concurrency

\* Of the rows of one directory, only one has ever been inserted.
DirInv ==
    \A c, d \in Checkouts :
        DirOf[c] = DirOf[d] /\ status[c] # "absent" /\ status[d] # "absent" => c = d

\* A tree is that of a row that was inserted, in that row's directory.
Planted(tree, d) ==
    tree \in Trees => DirOf[tree.of] = d /\ status[tree.of] # "absent"

TreeInv == \A d \in Dirs : Planted(staging[d], d) /\ Planted(dest[d], d)

\* What is ready, or about to be marked so, has a tree at its name.
CloneInv ==
    \A s \in InFlight :
        /\ status[clone[s].of] # "absent"
        /\ clone[s].pc = "ready" => dest[Dir(s)] \in Trees

ReadyInv == \A c \in Checkouts : status[c] = "ready" => dest[DirOf[c]] \in Trees

\* The rows whose answer is on its way fit into the room that the pass asked for.
ClaimInv ==
    /\ Cardinality(claimed) <= room
    /\ ~made => claimed = {}
    /\ \A c \in claimed : status[c] # "absent"

QueueInv == TypeOK /\ RoomInv /\ DirInv /\ TreeInv /\ CloneInv /\ ReadyInv /\ ClaimInv

-----------------------------------------------------------------------------
(* The clones in flight                                                    *)

\* There are finitely many clones in flight, and one fewer when one of them is over.
LEMMA InFlightFinite ==
  /\ IsFiniteSet(InFlight)
  /\ Cardinality(InFlight) \in Nat
  /\ \A s \in InFlight : /\ Cardinality(InFlight) - 1 \in Nat
                         /\ Cardinality(InFlight \ {s}) = Cardinality(InFlight) - 1
<1>1. InFlight \in SUBSET Slots
  BY DEF InFlight
<1>2. IsFiniteSet(InFlight)
  BY <1>1, SlotsAssumption, FS_Subset
<1>3. Cardinality(InFlight) \in Nat
  BY <1>2, FS_CardinalityType
<1>4. ASSUME NEW s \in InFlight
      PROVE  /\ Cardinality(InFlight) - 1 \in Nat
             /\ Cardinality(InFlight \ {s}) = Cardinality(InFlight) - 1
  <2>1. Cardinality(InFlight \ {s}) = Cardinality(InFlight) - 1
    BY <1>2, FS_RemoveElement
  <2>2. Cardinality(InFlight \ {s}) \in Nat
    BY <1>2, FS_RemoveElement, FS_CardinalityType
  <2> QED
    BY <2>1, <2>2, <1>3
<1> QED
  BY <1>2, <1>3, <1>4

\* A pass asks for no more than is free, and leaves the claim under way alone.
LEMMA RoomFits ==
  ASSUME TypeOK, NEW n \in Nat, room + n <= Concurrency, RunPass(n)
  PROVE  /\ room' \in 0 .. Concurrency /\ room <= room'
         /\ room' + n <= Concurrency
         /\ UNCHANGED <<made, claimed>>
  BY ConcurrencyAssumption DEF TypeOK, RunPass, Room

\* The claim under way stays in order as long as its rows are there and its room does
\* not shrink.
LEMMA ClaimKept ==
  ASSUME TypeOK, ClaimInv, UNCHANGED <<made, claimed>>,
         room' \in 0 .. Concurrency, room <= room',
         \A c \in Checkouts : status[c] # "absent" => status'[c] # "absent"
  PROVE  ClaimInv'
<1>1. claimed \in SUBSET Checkouts /\ IsFiniteSet(claimed) /\ Cardinality(claimed) \in Nat
  BY CheckoutAssumption, FS_Subset, FS_CardinalityType DEF TypeOK
<1> QED
  BY <1>1, ConcurrencyAssumption DEF ClaimInv, TypeOK

\* What a claim takes: rows that wait, and no more than there is room for.
LEMMA ClaimedFit ==
  ASSUME TypeOK, NEW locked, NEW C \in Claimable(locked)
  PROVE  C \subseteq Waiting /\ IsFiniteSet(C) /\ Cardinality(C) <= room
<1>1. C \subseteq Waiting \ locked
  BY DEF Claimable
<1>2. Waiting \ locked \in SUBSET Checkouts
  BY DEF Waiting
<1>3. IsFiniteSet(Waiting \ locked)
  BY <1>2, CheckoutAssumption, FS_Subset
<1>4. Cardinality(Waiting \ locked) \in Nat
  BY <1>3, FS_CardinalityType
<1>5. IsFiniteSet(C)
  BY <1>1, <1>3, FS_Subset
<1>6. Cardinality(C) = IF Cardinality(Waiting \ locked) < room
                       THEN Cardinality(Waiting \ locked) ELSE room
  BY DEF Claimable
<1> QED
  BY <1>1, <1>4, <1>5, <1>6, ConcurrencyAssumption DEF TypeOK

\* A slot that a claim touches has a clone of one of its rows at its first step, and
\* each row has one slot at most.
LEMMA StartedClones ==
  ASSUME TypeOK, NEW C \in SUBSET Checkouts, Started(C), NEW s \in Slots
  PROVE  \/ clone'[s] = clone[s]
         \/ /\ clone'[s] = [pc |-> "token", of |-> clone'[s].of]
            /\ clone'[s].of \in C
            /\ Place(C)[clone'[s].of] = s
<1>1. CASE \E c \in C : Place(C)[c] = s
  <2> DEFINE row == CHOOSE c \in C : Place(C)[c] = s
  <2>1. row \in C /\ Place(C)[row] = s
    BY <1>1
  <2>2. clone'[s] = [pc |-> "token", of |-> row]
    BY <1>1 DEF Started
  <2> QED
    BY <2>1, <2>2
<1>2. CASE ~ \E c \in C : Place(C)[c] = s
  BY <1>2 DEF Started
<1> QED
  BY <1>1, <1>2

-----------------------------------------------------------------------------
(* QueueInv is inductive, whatever members do                              *)

\* Nothing is selected, cloned or on disk at first, but for foreign directories.
LEMMA InitQueueInv == Init => QueueInv
<1> SUFFICES ASSUME Init PROVE QueueInv
  OBVIOUS
<1>1. InFlight = {}
  BY DEF Init, InFlight, Unused
<1>2. TypeOK
  <2>1. clone \in [Slots -> Clones]
    BY DEF Init, Clones
  <2>2. /\ staging \in [Dirs -> Trees \cup {NoTree}]
        /\ dest \in [Dirs -> Trees \cup {NoTree, ForeignTree}]
    BY DEF Init
  <2>3. {0} \subseteq (0 .. MaxPuts) \cap (0 .. Concurrency) \cap (0 .. MaxCrashes) \cap (0 .. MaxFaults)
    BY BoundsAssumption, ConcurrencyAssumption
  <2> QED
    BY <2>1, <2>2, <2>3 DEF Init, TypeOK
<1>3. RoomInv
  BY <1>1, FS_EmptySet, ConcurrencyAssumption DEF Init, RoomInv
<1>4. DirInv /\ CloneInv /\ ReadyInv /\ ClaimInv
  BY <1>1, FS_EmptySet DEF Init, DirInv, CloneInv, ReadyInv, ClaimInv
<1>5. TreeInv
  BY CheckoutAssumption DEF Init, TreeInv, Planted, Trees, NoTree, ForeignTree
<1> QED
  BY <1>2, <1>3, <1>4, <1>5 DEF QueueInv

\* A saved selection: the unique index keeps its rows' directories to themselves.
LEMMA SelectQueueInv ==
  ASSUME QueueInv, NEW m \in Members, NEW sel \in Selections(m), Select(m, sel)
  PROVE  QueueInv'
<1> USE DEF QueueInv
<1>1. sel \subseteq Checkouts /\ \A c, d \in sel : DirOf[c] = DirOf[d] => c = d
  BY DEF Selections, Own
<1>2. \A c \in Checkouts :
         /\ c \in sel => status'[c] \in {"ready", "queued"} /\ status'[c] # "absent"
         /\ c \in sel /\ status'[c] = "ready" => status[c] = "ready"
         /\ c \notin sel => status'[c] = status[c]
  BY DEF TypeOK, Select, Requeued
<1>3. TypeOK'
  <2>1. status' \in [Checkouts -> {"absent", "queued", "cloning", "ready", "failed"}]
    <3>1. \A c \in Checkouts : Requeued(c) \in {"ready", "queued"}
      BY DEF Requeued
    <3> QED
      BY <3>1 DEF TypeOK, Select
  <2>2. selected' \in [Checkouts -> BOOLEAN]
    <3>1. \A c \in Checkouts : selected[c] \in BOOLEAN /\ (c \in sel) \in BOOLEAN
      <4>1. selected \in [Checkouts -> BOOLEAN]
        BY DEF TypeOK
      <4>2. \A c \in Checkouts : selected[c] \in BOOLEAN
        BY <4>1, Zenon
      <4>3. \A c \in Checkouts : (c \in sel) \in BOOLEAN
        OBVIOUS
      <4> QED
        BY <4>2, <4>3, Zenon
    <3>2. selected' = [c \in Checkouts |-> IF c \in Own(m) THEN c \in sel ELSE selected[c]]
      BY DEF Select
    <3> QED
      BY <3>1, <3>2, Zenon
  <2>3. since' \in [Checkouts -> 0 .. MaxPuts] /\ puts' \in 0 .. MaxPuts
    <3>1. puts + 1 \in 0 .. MaxPuts
      BY BoundsAssumption DEF TypeOK, Select
    <3> QED
      BY <3>1 DEF TypeOK, Select
  <2> QED
    BY <2>1, <2>2, <2>3 DEF TypeOK, Select, Crossing, Underway, InFlight, Clones, Unused,
                            diskVars, passVars
<1>4. RoomInv'
  BY DEF Select, RoomInv, InFlight, passVars
<1>5. DirInv'
  BY <1>1, <1>2 DEF Select, Taken, DirInv
<1>6. TreeInv'
  BY <1>2 DEF Select, diskVars, TreeInv, Planted, Trees
<1>7. CloneInv' /\ ReadyInv'
  <2>1. \A s \in InFlight : clone[s].of \in Checkouts
    BY DEF TypeOK, InFlight, Clones, Unused
  <2> QED
    BY <1>2, <2>1 DEF Select, diskVars, CloneInv, ReadyInv, InFlight, Dir
<1>8. ClaimInv'
  BY <1>2, ClaimKept, ConcurrencyAssumption DEF Select, passVars, TypeOK
<1> QED
  BY <1>3, <1>4, <1>5, <1>6, <1>7, <1>8

\* The start of a pass touches nothing but room.
LEMMA PassQueueInv == ASSUME QueueInv, Kick \/ Poll PROVE QueueInv'
<1> USE DEF QueueInv
<1>1. RunPass(Cardinality(InFlight))
  BY DEF Kick, Poll
<1>2. /\ room' \in 0 .. Concurrency /\ room <= room'
      /\ room' + Cardinality(InFlight) <= Concurrency
      /\ UNCHANGED <<made, claimed>>
  BY <1>1, RoomFits, InFlightFinite DEF RoomInv
<1>3. UNCHANGED <<rowVars, diskVars, proc, clone, hurtVars>> /\ kicked' \in BOOLEAN
  BY DEF Kick, Poll, TypeOK
<1>4. TypeOK' /\ RoomInv'
  BY <1>2, <1>3 DEF TypeOK, RoomInv, InFlight, rowVars, diskVars, hurtVars
<1>5. DirInv' /\ TreeInv' /\ CloneInv' /\ ReadyInv'
  BY <1>3 DEF DirInv, TreeInv, Planted, CloneInv, ReadyInv, InFlight, Dir, rowVars, diskVars
<1>6. ClaimInv'
  BY <1>2, <1>3, ClaimKept DEF rowVars
<1> QED
  BY <1>4, <1>5, <1>6

\* The rows a claim takes wait, fit into the room of the pass and say cloning from then on.
LEMMA ClaimedRows ==
  ASSUME TypeOK, NEW locked, ClaimPending(locked)
  PROVE  /\ claimed' \in Claimable(locked)
         /\ claimed' \subseteq Waiting /\ claimed' \in SUBSET Checkouts
         /\ IsFiniteSet(claimed') /\ Cardinality(claimed') <= room
         /\ status' \in [Checkouts -> {"absent", "queued", "cloning", "ready", "failed"}]
         /\ \A c \in Checkouts :
               /\ status'[c] = IF c \in claimed' THEN "cloning" ELSE status[c]
               /\ status'[c] = "absent" <=> status[c] = "absent"
               /\ status'[c] = "ready" <=> status[c] = "ready"
               /\ c \in claimed' => status[c] = "queued"
<1>1. claimed' \in Claimable(locked)
  BY DEF ClaimPending
<1>2. claimed' \subseteq Waiting /\ IsFiniteSet(claimed') /\ Cardinality(claimed') <= room
  BY <1>1, ClaimedFit
<1> QED
  BY <1>1, <1>2 DEF TypeOK, ClaimPending, Waiting

\* The commit of a claim moves rows that wait to cloning.
LEMMA ClaimQueueInv ==
  ASSUME QueueInv, NEW locked, ClaimPending(locked)
  PROVE  QueueInv'
<1> USE DEF QueueInv
<1>1. /\ claimed' \in SUBSET Checkouts /\ Cardinality(claimed') <= room
      /\ status' \in [Checkouts -> {"absent", "queued", "cloning", "ready", "failed"}]
      /\ \A c \in Checkouts : /\ status'[c] = "absent" <=> status[c] = "absent"
                              /\ status'[c] = "ready" <=> status[c] = "ready"
                              /\ c \in claimed' => status[c] = "queued"
  BY ClaimedRows
<1>2. TypeOK'
  BY <1>1 DEF TypeOK, ClaimPending, diskVars, hurtVars
<1>3. RoomInv' /\ DirInv' /\ ReadyInv'
  BY <1>1 DEF RoomInv, DirInv, ReadyInv, InFlight, ClaimPending, diskVars
<1>4. TreeInv'
  BY <1>1 DEF TreeInv, Planted, Trees, ClaimPending, diskVars
<1>5. CloneInv'
  BY <1>1 DEF CloneInv, InFlight, Dir, TypeOK, Clones, Unused, ClaimPending, diskVars
<1>6. ClaimInv'
  BY <1>1 DEF ClaimInv, ClaimPending
<1> QED
  BY <1>2, <1>3, <1>4, <1>5, <1>6

\* The pass is over: there is room for nothing, and no answer on its way.
LEMMA PassEnds ==
  ASSUME PassOver
  PROVE  room' = 0 /\ room' \in 0 .. Concurrency /\ made' = FALSE /\ claimed' = {} /\ ClaimInv'
  BY FS_EmptySet, ConcurrencyAssumption DEF PassOver, ClaimInv

\* The answer to a claim: each row it took costs at most one slot, and there was room for it.
LEMMA AnswerQueueInv == ASSUME QueueInv, ClaimAnswered PROVE QueueInv'
<1> USE DEF QueueInv
<1>1. /\ claimed \in SUBSET Checkouts /\ IsFiniteSet(claimed)
      /\ Cardinality(claimed) <= room /\ Cardinality(claimed) \in Nat
  BY CheckoutAssumption, FS_Subset, FS_CardinalityType DEF TypeOK, ClaimInv
<1>2. Started(claimed) /\ UNCHANGED <<rowVars, diskVars, kicked, proc, hurtVars>>
  BY DEF ClaimAnswered
<1>3. room' = 0 /\ room' \in 0 .. Concurrency /\ made' = FALSE /\ claimed' = {} /\ ClaimInv'
  BY PassEnds DEF ClaimAnswered
<1>4. \A s \in Slots :
         \/ clone'[s] = clone[s]
         \/ /\ clone'[s] = [pc |-> "token", of |-> clone'[s].of]
            /\ clone'[s].of \in claimed
            /\ Place(claimed)[clone'[s].of] = s
  BY <1>1, <1>2, StartedClones
<1>5. clone' \in [Slots -> Clones]
  <2>1. clone' = [s \in Slots |-> clone'[s]]
    BY <1>2 DEF Started
  <2>2. \A c \in claimed : [pc |-> "token", of |-> c] \in Clones
    BY <1>1 DEF Clones, Steps
  <2>3. \A s \in Slots : clone'[s] \in Clones
    BY <1>4, <2>2 DEF TypeOK
  <2> QED
    BY <2>1, <2>3
<1>6. TypeOK'
  BY <1>2, <1>3, <1>5 DEF TypeOK, rowVars, diskVars, hurtVars
<1>7. RoomInv'
  <2> DEFINE New == InFlight' \ InFlight
             F == [s \in New |-> clone'[s].of]
  <2>1. F \in Injection(New, claimed)
    <3>1. \A s \in New : clone'[s].of \in claimed /\ Place(claimed)[clone'[s].of] = s
      BY <1>4 DEF InFlight
    <3> QED
      BY <3>1 DEF Injection, IsInjective
  <2>2. IsFiniteSet(New) /\ Cardinality(New) <= Cardinality(claimed)
    BY <2>1, <1>1, FS_Injection
  <2>3. InFlight' \subseteq InFlight \cup New
    OBVIOUS
  <2>4. /\ IsFiniteSet(InFlight \cup New)
        /\ Cardinality(InFlight \cup New) =
             Cardinality(InFlight) + Cardinality(New) - Cardinality(InFlight \cap New)
    BY <2>2, InFlightFinite, FS_Union
  <2>5. InFlight \cap New = {} /\ Cardinality(InFlight \cap New) = 0
    BY FS_EmptySet
  <2>6. Cardinality(InFlight') <= Cardinality(InFlight \cup New)
    BY <2>3, <2>4, FS_Subset
  <2>7. /\ IsFiniteSet(InFlight')
        /\ {Cardinality(InFlight'), Cardinality(InFlight), Cardinality(New),
            Cardinality(claimed), Cardinality(InFlight \cup New)} \subseteq Nat
    BY <1>1, <2>2, <2>3, <2>4, InFlightFinite, FS_CardinalityType, FS_Subset
  <2>8. room' = 0 /\ room \in Nat
    BY <1>3 DEF TypeOK
  <2> QED
    BY <1>1, <2>2, <2>4, <2>5, <2>6, <2>7, <2>8, ConcurrencyAssumption DEF RoomInv
<1>8. DirInv' /\ ReadyInv' /\ TreeInv'
  BY <1>2 DEF DirInv, ReadyInv, TreeInv, Planted, rowVars, diskVars
<1>9. CloneInv'
  <2> SUFFICES ASSUME NEW s \in InFlight'
               PROVE  /\ status'[clone'[s].of] # "absent"
                      /\ clone'[s].pc = "ready" => dest'[Dir(s)'] \in Trees
    BY DEF CloneInv
  <2>1. CASE clone'[s] = clone[s]
    <3>1. s \in InFlight /\ clone[s].of \in Checkouts
      BY <2>1 DEF InFlight, TypeOK, Clones, Unused
    <3> QED
      BY <2>1, <3>1, <1>2 DEF CloneInv, Dir, rowVars, diskVars
  <2>2. CASE clone'[s].pc = "token" /\ clone'[s].of \in claimed
    BY <2>2, <1>2 DEF ClaimInv, rowVars
  <2>3. s \in Slots /\ (clone'[s] = [pc |-> "token", of |-> clone'[s].of] => clone'[s].pc = "token")
    BY DEF InFlight
  <2> QED
    BY <2>1, <2>2, <2>3, <1>4
<1> QED
  BY <1>3, <1>6, <1>7, <1>8, <1>9

\* A claim that fails starts nothing.
LEMMA ClaimFailsQueueInv == ASSUME QueueInv, ClaimFails PROVE QueueInv'
<1> USE DEF QueueInv
<1>1. room' = 0 /\ room' \in 0 .. Concurrency /\ made' = FALSE /\ claimed' = {} /\ ClaimInv'
  BY PassEnds DEF ClaimFails
<1>2. faults' \in 0 .. MaxFaults
  BY BoundsAssumption DEF TypeOK, ClaimFails, Faults
<1>3. TypeOK'
  BY <1>1, <1>2 DEF TypeOK, ClaimFails, rowVars, diskVars
<1>4. RoomInv'
  <2>1. InFlight' = InFlight
    BY DEF ClaimFails, InFlight
  <2> QED
    BY <1>1, <2>1, InFlightFinite, ConcurrencyAssumption DEF RoomInv, TypeOK
<1>5. DirInv' /\ TreeInv' /\ CloneInv' /\ ReadyInv'
  BY DEF DirInv, TreeInv, Planted, CloneInv, ReadyInv, InFlight, Dir, ClaimFails, rowVars, diskVars
<1> QED
  BY <1>1, <1>3, <1>4, <1>5

-----------------------------------------------------------------------------
(* The steps of a clone                                                    *)

\* A clone that takes a step stays in flight, for the same row.
LEMMA GotoStep ==
  ASSUME TypeOK, NEW s \in InFlight, NEW step \in Steps, Goto(s, step)
  PROVE  /\ clone' \in [Slots -> Clones]
         /\ InFlight' = InFlight
         /\ clone[s].of \in Checkouts /\ Dir(s) \in Dirs
         /\ clone'[s].pc = step
         /\ \A t \in Slots : /\ clone'[t].of = clone[t].of
                             /\ t # s => clone'[t] = clone[t]
<1>1. s \in Slots /\ clone[s] \in [pc : Steps, of : Checkouts]
  BY DEF InFlight, TypeOK, Clones, Unused
<1>2. clone' = [clone EXCEPT ![s].pc = step]
  BY DEF Goto
<1>3. clone'[s] = [clone[s] EXCEPT !.pc = step] /\ \A t \in Slots : t # s => clone'[t] = clone[t]
  BY <1>1, <1>2 DEF TypeOK
<1>4. clone'[s] \in [pc : Steps, of : Checkouts] /\ clone'[s].pc = step /\ clone'[s].of = clone[s].of
  BY <1>1, <1>3
<1>5. clone' \in [Slots -> Clones]
  BY <1>2, <1>3, <1>4 DEF TypeOK, Clones
<1>6. step # "free" /\ clone[s].pc # "free"
  BY <1>1 DEF Steps
<1>7. InFlight' = InFlight
  BY <1>3, <1>4, <1>6 DEF InFlight
<1>8. Dir(s) \in Dirs
  BY <1>1, CheckoutAssumption DEF Dir
<1> QED
  BY <1>1, <1>3, <1>4, <1>5, <1>7, <1>8

\* A step of a clone that writes no row keeps QueueInv, if the trees it leaves are
\* rightly planted and it takes none away.
LEMMA DiskStep ==
  ASSUME QueueInv, NEW s \in InFlight, NEW step \in Steps, Goto(s, step),
         UNCHANGED <<rowVars, kicked, proc, passVars, hurtVars>>,
         staging' \in [Dirs -> Trees \cup {NoTree}],
         dest' \in [Dirs -> Trees \cup {NoTree, ForeignTree}],
         \A d \in Dirs : Planted(staging'[d], d) /\ Planted(dest'[d], d),
         \A d \in Dirs : dest[d] \in Trees => dest'[d] \in Trees,
         step = "ready" => dest'[Dir(s)] \in Trees
  PROVE  QueueInv'
<1> USE DEF QueueInv
<1>1. /\ clone' \in [Slots -> Clones]
      /\ InFlight' = InFlight
      /\ clone[s].of \in Checkouts /\ Dir(s) \in Dirs
      /\ clone'[s].pc = step
      /\ \A t \in Slots : clone'[t].of = clone[t].of /\ (t # s => clone'[t] = clone[t])
  BY GotoStep
<1>2. TypeOK'
  BY <1>1 DEF TypeOK, rowVars, passVars, hurtVars
<1>3. RoomInv' /\ DirInv' /\ ClaimInv'
  BY <1>1 DEF RoomInv, DirInv, ClaimInv, rowVars, passVars
<1>4. TreeInv'
  BY DEF TreeInv, Planted, rowVars
<1>5. CloneInv'
  <2> SUFFICES ASSUME NEW t \in InFlight
               PROVE  /\ status'[clone'[t].of] # "absent"
                      /\ clone'[t].pc = "ready" => dest'[Dir(t)'] \in Trees
    BY <1>1 DEF CloneInv
  <2>1. t \in Slots /\ clone[t].of \in Checkouts
    BY DEF InFlight, TypeOK, Clones, Unused
  <2>2. Dir(t)' = Dir(t) /\ Dir(t) \in Dirs
    BY <1>1, <2>1, CheckoutAssumption DEF Dir
  <2>3. status'[clone'[t].of] # "absent"
    BY <1>1, <2>1 DEF CloneInv, rowVars
  <2>4. CASE t = s
    BY <1>1, <2>2, <2>3, <2>4
  <2>5. CASE t # s
    BY <1>1, <2>1, <2>2, <2>3, <2>5 DEF CloneInv
  <2> QED
    BY <2>4, <2>5
<1>6. ReadyInv'
  BY CheckoutAssumption DEF ReadyInv, rowVars
<1> QED
  BY <1>2, <1>3, <1>4, <1>5, <1>6

\* A tree in the making, and its removal, are rightly planted.
LEMMA PlantedTrees ==
  ASSUME QueueInv, NEW s \in InFlight, NEW by \in Slots \cup {None}, NEW whole \in BOOLEAN
  PROVE  /\ [by |-> by, of |-> clone[s].of, whole |-> whole] \in Trees
         /\ Planted([by |-> by, of |-> clone[s].of, whole |-> whole], Dir(s))
         /\ NoTree \notin Trees /\ ForeignTree \notin Trees
         /\ Planted(NoTree, Dir(s))
<1>1. clone[s].of \in Checkouts /\ status[clone[s].of] # "absent"
  BY DEF QueueInv, CloneInv, InFlight, TypeOK, Clones, Unused
<1> QED
  BY <1>1, CheckoutAssumption DEF Planted, Trees, NoTree, ForeignTree, Dir

\* Every step of a clone but the last keeps QueueInv.
LEMMA CloneStepQueueInv ==
  ASSUME QueueInv, NEW s \in Slots,
         \/ Prepare(s) \/ TokenFails(s) \/ GitBegins(s) \/ GitEnds(s) \/ GitFails(s)
         \/ Rename(s) \/ CleanUp(s)
  PROVE  QueueInv'
<1> USE DEF QueueInv
<1>1. s \in InFlight
  BY DEF InFlight, Prepare, TokenFails, GitBegins, GitEnds, GitFails, Rename, CleanUp,
         Fetched, At
<1>2. clone[s].of \in Checkouts /\ Dir(s) \in Dirs
  BY <1>1, CheckoutAssumption DEF InFlight, TypeOK, Clones, Unused, Dir
<1>3. {"token", "spawned", "git", "fetched", "broken", "ready", "failed"} \subseteq Steps
  BY DEF Steps
<1>4. Planted(NoTree, Dir(s)) /\ NoTree \notin Trees
  BY <1>1, PlantedTrees
<1>5. CASE Prepare(s)
  <2>1. CASE dest[Dir(s)] = NoTree /\ Goto(s, "spawned")
                /\ staging' = [staging EXCEPT ![Dir(s)] = NoTree]
    <3>1. /\ staging' \in [Dirs -> Trees \cup {NoTree}]
          /\ \A d \in Dirs : Planted(staging'[d], d)
      BY <2>1, <1>2, <1>4 DEF TypeOK, TreeInv
    <3> QED
      BY <2>1, <3>1, <1>1, <1>3, <1>5, DiskStep DEF Prepare, TypeOK, TreeInv
  <2>2. CASE dest[Dir(s)] \in Trees /\ Goto(s, "ready") /\ UNCHANGED staging
    BY <2>2, <1>1, <1>3, <1>5, DiskStep DEF Prepare, TypeOK, TreeInv
  <2>3. CASE dest[Dir(s)] = ForeignTree /\ Goto(s, "failed") /\ UNCHANGED staging
    BY <2>3, <1>1, <1>3, <1>5, DiskStep DEF Prepare, TypeOK, TreeInv
  <2> QED
    BY <1>5, <2>1, <2>2, <2>3 DEF Prepare
<1>6. CASE TokenFails(s)
  BY <1>1, <1>3, <1>6, DiskStep DEF TokenFails, TypeOK, TreeInv, diskVars
<1>7. CASE GitBegins(s)
  <2>1. CASE Goto(s, "git") /\ staging' = [staging EXCEPT ![Dir(s)] =
                                [by |-> s, of |-> clone[s].of, whole |-> FALSE]]
    <3>1. /\ staging' \in [Dirs -> Trees \cup {NoTree}]
          /\ \A d \in Dirs : Planted(staging'[d], d)
      BY <2>1, <1>1, <1>2, PlantedTrees DEF TypeOK, TreeInv
    <3> QED
      BY <2>1, <3>1, <1>1, <1>3, <1>7, DiskStep DEF GitBegins, TypeOK, TreeInv
  <2>2. CASE Goto(s, "broken") /\ UNCHANGED staging
    BY <2>2, <1>1, <1>3, <1>7, DiskStep DEF GitBegins, TypeOK, TreeInv
  <2> QED
    BY <1>7, <2>1, <2>2 DEF GitBegins
<1>8. CASE GitEnds(s)
  <2>1. staging[Dir(s)] \in Trees
    BY <1>2, <1>8, SlotsAssumption DEF GitEnds, TypeOK, NoTree
  <2>2. /\ [staging[Dir(s)] EXCEPT !.whole = TRUE] \in Trees
        /\ Planted([staging[Dir(s)] EXCEPT !.whole = TRUE], Dir(s))
    BY <2>1, <1>2 DEF TreeInv, Planted, Trees
  <2>3. /\ staging' \in [Dirs -> Trees \cup {NoTree}]
        /\ \A d \in Dirs : Planted(staging'[d], d)
    BY <2>2, <1>2, <1>8 DEF GitEnds, TypeOK, TreeInv
  <2> QED
    BY <2>3, <1>1, <1>3, <1>8, DiskStep DEF GitEnds, TypeOK, TreeInv
<1>9. CASE GitFails(s)
  BY <1>1, <1>3, <1>9, DiskStep DEF GitFails, TypeOK, TreeInv, diskVars
<1>10. CASE Rename(s)
  <2>1. staging[Dir(s)] \in Trees
    BY <1>2, <1>10 DEF Rename, TypeOK
  <2>2. /\ Ownerless(staging[Dir(s)]) \in Trees
        /\ Planted(Ownerless(staging[Dir(s)]), Dir(s))
    BY <2>1, <1>2 DEF Ownerless, TreeInv, Planted, Trees
  <2>3. /\ staging' \in [Dirs -> Trees \cup {NoTree}]
        /\ \A d \in Dirs : Planted(staging'[d], d)
    BY <1>2, <1>4, <1>10 DEF Rename, TypeOK, TreeInv
  <2>4. /\ dest' \in [Dirs -> Trees \cup {NoTree, ForeignTree}]
        /\ dest'[Dir(s)] \in Trees
        /\ \A d \in Dirs : Planted(dest'[d], d) /\ (dest[d] \in Trees => dest'[d] \in Trees)
    BY <2>2, <1>2, <1>10 DEF Rename, TypeOK, TreeInv
  <2> QED
    BY <2>3, <2>4, <1>1, <1>3, <1>10, DiskStep DEF Rename
<1>11. CASE CleanUp(s)
  <2>1. /\ staging' \in [Dirs -> Trees \cup {NoTree}]
        /\ \A d \in Dirs : Planted(staging'[d], d)
    BY <1>2, <1>4, <1>11 DEF CleanUp, TypeOK, TreeInv
  <2> QED
    BY <2>1, <1>1, <1>3, <1>11, DiskStep DEF CleanUp, TypeOK, TreeInv
<1> QED
  BY <1>5, <1>6, <1>7, <1>8, <1>9, <1>10, <1>11

-----------------------------------------------------------------------------
(* The end of a clone                                                      *)

\* A clone that is over frees its slot, and the pass it runs fits.
LEMMA OverFrees ==
  ASSUME TypeOK, RoomInv, NEW s \in InFlight, Over(s)
  PROVE  /\ clone' \in [Slots -> Clones]
         /\ InFlight' = InFlight \ {s}
         /\ \A t \in InFlight' : clone'[t] = clone[t]
         /\ room' \in 0 .. Concurrency /\ room <= room'
         /\ UNCHANGED <<made, claimed>>
         /\ RoomInv'
<1>1. s \in Slots /\ clone' = [clone EXCEPT ![s] = Unused]
  BY DEF InFlight, Over, FreedSlot
<1>2. clone' \in [Slots -> Clones]
  BY <1>1 DEF TypeOK, Clones
<1>3. InFlight' = InFlight \ {s} /\ \A t \in InFlight' : clone'[t] = clone[t]
  BY <1>1 DEF TypeOK, InFlight, Unused
<1>4. /\ Cardinality(InFlight) - 1 \in Nat
      /\ Cardinality(InFlight) \in Nat
      /\ Cardinality(InFlight') = Cardinality(InFlight) - 1
  BY <1>3, InFlightFinite
<1>5. room + (Cardinality(InFlight) - 1) <= Concurrency
  BY <1>4, ConcurrencyAssumption DEF RoomInv, TypeOK
<1>6. /\ room' \in 0 .. Concurrency /\ room <= room'
      /\ UNCHANGED <<made, claimed>>
      /\ room' + (Cardinality(InFlight) - 1) <= Concurrency
  BY <1>4, <1>5, RoomFits DEF Over
<1> QED
  BY <1>2, <1>3, <1>4, <1>6 DEF RoomInv

\* The outcome of a clone is written, or it is not: QueueInv is kept, for a row is only
\* marked ready by a clone that has put its tree in place.
LEMMA OutcomeQueueInv ==
  ASSUME QueueInv, NEW s \in Slots,
         MarkReady(s) \/ MarkReadyFails(s) \/ MarkFailed(s) \/ MarkFailedFails(s)
  PROVE  QueueInv'
<1> USE DEF QueueInv
<1>1. s \in InFlight
  BY DEF InFlight, MarkReady, MarkReadyFails, MarkFailed, MarkFailedFails, At
<1>2. clone[s].of \in Checkouts /\ status[clone[s].of] # "absent"
  BY <1>1 DEF InFlight, TypeOK, Clones, Unused, CloneInv
<1>3. /\ status' \in [Checkouts -> {"absent", "queued", "cloning", "ready", "failed"}]
      /\ \A c \in Checkouts : status'[c] = "absent" <=> status[c] = "absent"
      /\ \A c \in Checkouts :
            status'[c] = "ready" =>
              status[c] = "ready" \/ (c = clone[s].of /\ clone[s].pc = "ready")
  BY <1>2 DEF TypeOK, MarkReady, MarkReadyFails, MarkFailed, MarkFailedFails, At
<1>4. faults' \in 0 .. MaxFaults
  BY BoundsAssumption
     DEF TypeOK, MarkReady, MarkReadyFails, MarkFailed, MarkFailedFails, Faults
<1>5. /\ UNCHANGED <<selected, since, puts, staging, dest, kicked, proc, crashes, crossed>>
      /\ lost' \in {lost, lost \cup {clone[s].of}}
  BY DEF MarkReady, MarkReadyFails, MarkFailed, MarkFailedFails, Over, diskVars
<1>6. /\ clone' \in [Slots -> Clones]
      /\ InFlight' \subseteq InFlight
      /\ \A t \in InFlight' : /\ clone'[t].of = clone[t].of
                              /\ clone'[t].pc = "ready" => clone[t].pc = "ready"
      /\ room' \in 0 .. Concurrency /\ room <= room'
      /\ UNCHANGED <<made, claimed>>
      /\ RoomInv'
  <2>1. CASE Over(s)
    BY <2>1, <1>1, OverFrees
  <2>2. CASE MarkReadyFails(s)
    <3>1. Goto(s, "failed") /\ "failed" \in Steps /\ "failed" # "ready" /\ UNCHANGED passVars
      BY <2>2 DEF MarkReadyFails, Steps
    <3>2. /\ clone' \in [Slots -> Clones]
          /\ InFlight' = InFlight
          /\ clone'[s].pc = "failed"
          /\ \A t \in Slots : clone'[t].of = clone[t].of /\ (t # s => clone'[t] = clone[t])
      BY <3>1, <1>1, GotoStep
    <3>3. \A t \in InFlight : t \in Slots
      BY DEF InFlight
    <3> QED
      BY <3>1, <3>2, <3>3, ConcurrencyAssumption DEF RoomInv, TypeOK, passVars
  <2> QED
    BY <2>1, <2>2 DEF MarkReady, MarkFailed, MarkFailedFails
<1>7. TypeOK'
  BY <1>2, <1>3, <1>4, <1>5, <1>6 DEF TypeOK
<1>8. DirInv'
  BY <1>3 DEF DirInv
<1>9. TreeInv'
  BY <1>3, <1>5 DEF TreeInv, Planted, Trees
<1>10. CloneInv'
  <2> SUFFICES ASSUME NEW t \in InFlight'
               PROVE  /\ status'[clone'[t].of] # "absent"
                      /\ clone'[t].pc = "ready" => dest'[Dir(t)'] \in Trees
    BY DEF CloneInv
  <2>1. t \in InFlight /\ clone[t].of \in Checkouts /\ Dir(t)' = Dir(t)
    BY <1>6 DEF InFlight, TypeOK, Clones, Unused, Dir
  <2> QED
    BY <2>1, <1>3, <1>5, <1>6 DEF CloneInv
<1>11. ReadyInv'
  BY <1>1, <1>3, <1>5 DEF ReadyInv, CloneInv, Dir
<1>12. ClaimInv'
  BY <1>3, <1>6, ClaimKept
<1> QED
  BY <1>6, <1>7, <1>8, <1>9, <1>10, <1>11, <1>12

-----------------------------------------------------------------------------
(* The server                                                              *)

\* What is requeued was neither ready nor absent.
LEMMA RequeueQueueInv == ASSUME QueueInv, RequeueStranded PROVE QueueInv'
<1> USE DEF QueueInv
<1>1. /\ status' \in [Checkouts -> {"absent", "queued", "cloning", "ready", "failed"}]
      /\ \A c \in Checkouts : /\ status'[c] = "absent" <=> status[c] = "absent"
                              /\ status'[c] = "ready" => status[c] = "ready"
  BY DEF TypeOK, RequeueStranded, Stranded
<1>2. TypeOK'
  BY <1>1 DEF TypeOK, RequeueStranded, Crossing, Underway, InFlight, Clones, Unused,
              diskVars, passVars
<1>3. RoomInv' /\ DirInv' /\ ReadyInv' /\ ClaimInv'
  BY <1>1, ClaimKept, ConcurrencyAssumption
     DEF RoomInv, DirInv, ReadyInv, RequeueStranded, InFlight, TypeOK, diskVars, passVars
<1>4. TreeInv'
  BY <1>1 DEF TreeInv, Planted, Trees, RequeueStranded, diskVars
<1>5. CloneInv'
  BY <1>1 DEF CloneInv, InFlight, Dir, TypeOK, Clones, Unused, RequeueStranded, diskVars
<1> QED
  BY <1>2, <1>3, <1>4, <1>5

\* A start that fails, and a boot, only move the server.
LEMMA StartQueueInv == ASSUME QueueInv, StartFails \/ Boot PROVE QueueInv'
<1> USE DEF QueueInv
<1>1. UNCHANGED <<rowVars, diskVars, kicked, passVars, clone, crashes, crossed, lost>>
  BY DEF StartFails, Boot, hurtVars
<1>2. faults' \in 0 .. MaxFaults /\ proc' \in {"booting", "unstarted"}
  BY BoundsAssumption DEF TypeOK, StartFails, Boot, Faults, hurtVars
<1>3. TypeOK'
  BY <1>1, <1>2 DEF TypeOK, rowVars, diskVars, passVars
<1>4. RoomInv' /\ DirInv' /\ TreeInv' /\ CloneInv' /\ ReadyInv' /\ ClaimInv'
  BY <1>1 DEF RoomInv, DirInv, TreeInv, Planted, CloneInv, ReadyInv, ClaimInv, InFlight, Dir,
              rowVars, diskVars, passVars
<1> QED
  BY <1>3, <1>4

\* The sweep removes trees in the making only.
LEMMA SweepQueueInv == ASSUME QueueInv, Sweep PROVE QueueInv'
<1> USE DEF QueueInv
<1>1. /\ room' \in 0 .. Concurrency /\ room <= room'
      /\ room' + Cardinality(InFlight) <= Concurrency
      /\ UNCHANGED <<made, claimed>>
  BY InFlightFinite, RoomFits DEF Sweep, RoomInv
<1>2. TypeOK' /\ RoomInv'
  BY <1>1 DEF Sweep, TypeOK, RoomInv, InFlight, rowVars, hurtVars
<1>3. NoTree \notin Trees
  BY CheckoutAssumption DEF NoTree, Trees
<1>4. TreeInv'
  BY <1>3 DEF Sweep, TreeInv, Planted, rowVars
<1>5. DirInv' /\ CloneInv' /\ ReadyInv'
  BY DEF Sweep, DirInv, CloneInv, ReadyInv, InFlight, Dir, rowVars
<1>6. ClaimInv'
  BY <1>1, ClaimKept DEF Sweep, rowVars
<1> QED
  BY <1>2, <1>4, <1>5, <1>6

\* After a crash nothing is in flight, and trees in the making are nobody's.
LEMMA CrashQueueInv == ASSUME QueueInv, Crash PROVE QueueInv'
<1> USE DEF QueueInv
<1>1. InFlight' = {}
  BY DEF Crash, InFlight, Unused
<1>2. \A d \in Dirs : /\ staging'[d] \in Trees \cup {NoTree}
                      /\ staging'[d] \in Trees => /\ staging[d] \in Trees
                                                  /\ staging'[d].of = staging[d].of
  <2> SUFFICES ASSUME NEW d \in Dirs
               PROVE  /\ staging'[d] \in Trees \cup {NoTree}
                      /\ staging'[d] \in Trees => /\ staging[d] \in Trees
                                                  /\ staging'[d].of = staging[d].of
    OBVIOUS
  <2>1. staging'[d] = Ownerless(staging[d])
    BY DEF Crash
  <2>2. CASE staging[d] \in Trees
    BY <2>1, <2>2 DEF Trees, Ownerless
  <2>3. CASE staging[d] = NoTree
    <3>1. staging'[d] = NoTree
      BY <2>1, <2>3 DEF NoTree, Ownerless
    <3>2. NoTree \notin Trees
      BY CheckoutAssumption DEF NoTree, Trees
    <3> QED
      BY <3>1, <3>2
  <2> QED
    BY <2>2, <2>3 DEF TypeOK
<1>3. TypeOK'
  <2>1. clone' \in [Slots -> Clones]
    BY DEF Crash, Clones
  <2>2. crashes' \in 0 .. MaxCrashes
    BY BoundsAssumption DEF Crash, TypeOK
  <2>3. staging' \in [Dirs -> Trees \cup {NoTree}]
    BY <1>2 DEF Crash
  <2> QED
    BY <2>1, <2>2, <2>3, PassEnds DEF Crash, TypeOK, rowVars
<1>4. RoomInv' /\ ClaimInv'
  BY <1>1, FS_EmptySet, PassEnds, ConcurrencyAssumption DEF RoomInv, Crash
<1>5. TreeInv'
  BY <1>2 DEF TreeInv, Planted, Crash, rowVars
<1>6. DirInv' /\ CloneInv' /\ ReadyInv'
  BY <1>1 DEF DirInv, CloneInv, ReadyInv, Crash, rowVars
<1> QED
  BY <1>3, <1>4, <1>5, <1>6

-----------------------------------------------------------------------------
(* What holds whatever members do                                          *)

\* Every step of the queue keeps QueueInv.
LEMMA NextQueueInv == ASSUME QueueInv, [Next]_queueVars PROVE QueueInv'
<1>1. CASE \E m \in Members : \E sel \in Selections(m) : Select(m, sel)
  BY <1>1, SelectQueueInv
<1>2. CASE Kick \/ Poll
  BY <1>2, PassQueueInv
<1>3. CASE ClaimFails
  BY <1>3, ClaimFailsQueueInv
<1>4. CASE ClaimAnswered \/ \E locked \in {{}} \cup {Own(m) : m \in Members} : ClaimPending(locked)
  BY <1>4, ClaimQueueInv, AnswerQueueInv
<1>5. CASE \E s \in Slots : CloneSteps(s)
  BY <1>5, CloneStepQueueInv, OutcomeQueueInv DEF CloneSteps
<1>6. CASE RequeueStranded \/ StartFails \/ Sweep \/ Crash \/ Boot
  BY <1>6, RequeueQueueInv, StartQueueInv, SweepQueueInv, CrashQueueInv
<1>7. CASE UNCHANGED queueVars
  BY <1>7 DEF queueVars, rowVars, diskVars, passVars, hurtVars, QueueInv, TypeOK, RoomInv, DirInv,
              TreeInv, Planted, CloneInv, ReadyInv, ClaimInv, InFlight, Dir
<1> QED
  BY <1>1, <1>2, <1>3, <1>4, <1>5, <1>6, <1>7 DEF Next

\* QueueInv holds at all times.
LEMMA QueueInvariant == Spec => []QueueInv
  BY InitQueueInv, NextQueueInv, PTL DEF Spec

\* The variables of the queue keep their types, for any members, rows and bounds.
THEOREM TypeCorrect == Spec => []TypeOK
<1>1. QueueInv => TypeOK
  BY DEF QueueInv
<1> QED
  BY <1>1, QueueInvariant, PTL

\* There are never more clones in flight than DEFAULT_CLONE_CONCURRENCY, although a pass
\* counts before it claims and clones end in between (queue.ts pass).
THEOREM ClonesBounded == Spec => []BoundedClones
<1>1. QueueInv => BoundedClones
  BY InFlightFinite, ConcurrencyAssumption DEF QueueInv, TypeOK, RoomInv, BoundedClones
<1> QED
  BY <1>1, QueueInvariant, PTL

\* A row that says ready has the checkout of its own repository at its name, whatever
\* members select and whatever crashes or fails (reconcile.ts; user_repo_dir_uk).
THEOREM ReadyHasItsCheckout == Spec => []ReadyIsOnDisk
<1>1. ASSUME QueueInv PROVE ReadyIsOnDisk
  <2> SUFFICES ASSUME NEW c \in Checkouts, status[c] = "ready"
               PROVE  dest[DirOf[c]] \in Trees /\ dest[DirOf[c]].of = c
    BY DEF ReadyIsOnDisk
  <2>1. dest[DirOf[c]] \in Trees /\ DirOf[c] \in Dirs
    BY <1>1, CheckoutAssumption DEF QueueInv, ReadyInv
  <2>2. /\ dest[DirOf[c]].of \in Checkouts
        /\ DirOf[dest[DirOf[c]].of] = DirOf[c]
        /\ status[dest[DirOf[c]].of] # "absent"
    BY <1>1, <2>1 DEF QueueInv, TreeInv, Planted, Trees
  <2> QED
    BY <1>1, <2>1, <2>2 DEF QueueInv, DirInv
<1> QED
  BY <1>1, QueueInvariant, PTL

-----------------------------------------------------------------------------
(* What holds of the rows that were never queued again in the middle of it *)

\* Such a row says cloning as long as its clone is in flight, or will be; only a lost
\* answer to markReady leaves it ready under a clone that is about to be marked failed.
RunnerInv ==
    \A s \in InFlight :
        \/ clone[s].of \in crossed
        \/ status[clone[s].of] = "cloning"
        \/ /\ status[clone[s].of] = "ready"
           /\ clone[s].pc = "failed"
           /\ faults # 0

\* A clone that is still to be started is the first of such a row.
AnswerInv ==
    \A c \in claimed \ crossed :
        status[c] = "cloning" /\ \A s \in InFlight : clone[s].of # c

\* What git has left for such a row is whole until it is renamed, or swept away.
FetchedInv ==
    \A s \in Slots :
        clone[s].pc = "fetched" /\ clone[s].of \notin crossed =>
            staging[Dir(s)] = NoTree \/ staging[Dir(s)].whole

Inner == RunnerInv /\ AnswerInv /\ OneClonePerCheckout /\ FetchedInv /\ CheckoutIsWhole

WholeInv == QueueInv /\ Inner

\* At first nothing is in flight and no tree exists.
LEMMA InitWholeInv == Init => WholeInv
<1> SUFFICES ASSUME Init PROVE WholeInv
  OBVIOUS
<1>1. \A d \in Dirs : dest[d] \notin Trees
  BY CheckoutAssumption DEF Init, Trees, NoTree, ForeignTree
<1>2. InFlight = {} /\ claimed = {} /\ \A s \in Slots : clone[s].pc # "fetched"
  BY DEF Init, InFlight, Unused
<1>3. Inner
  BY <1>1, <1>2
     DEF Inner, RunnerInv, AnswerInv, OneClonePerCheckout, FetchedInv, CheckoutIsWhole
<1> QED
  BY <1>3, InitQueueInv DEF WholeInv

\* Two clones only share a directory if they are of one row, queued again meanwhile.
LEMMA OwnDirectory ==
  ASSUME WholeInv, NEW s \in InFlight, NEW t \in InFlight, Dir(s) = Dir(t),
         clone[s].of \notin crossed
  PROVE  s = t
<1>1. {clone[s].of, clone[t].of} \subseteq Checkouts
  BY DEF WholeInv, QueueInv, InFlight, TypeOK, Clones, Unused
<1>2. clone[s].of = clone[t].of
  BY <1>1 DEF WholeInv, QueueInv, DirInv, CloneInv, Dir
<1> QED
  BY <1>2 DEF WholeInv, Inner, OneClonePerCheckout

\* A step that leaves clones, the answer and the disk alone, and records in crossed what
\* it queues again, keeps Inner: rows that say ready or cloning are otherwise left alone.
LEMMA RowStep ==
  ASSUME WholeInv, UNCHANGED <<clone, claimed, faults, staging, dest>>,
         crossed \subseteq crossed',
         \A c \in Underway : c \in crossed' \/ status'[c] = status[c]
  PROVE  Inner'
<1> USE DEF WholeInv, Inner
<1>1. InFlight' = InFlight /\ \A s \in InFlight : clone[s].of \in Underway
  BY DEF InFlight, Underway
<1>2. claimed \subseteq Underway
  BY DEF Underway
<1>3. RunnerInv' /\ AnswerInv'
  BY <1>1, <1>2 DEF RunnerInv, AnswerInv
<1>4. OneClonePerCheckout' /\ FetchedInv' /\ CheckoutIsWhole'
  BY <1>1 DEF OneClonePerCheckout, FetchedInv, CheckoutIsWhole, Dir
<1> QED
  BY <1>3, <1>4

\* What is under way is a row.
LEMMA UnderwayRows == ASSUME TypeOK PROVE Underway \subseteq Checkouts
  BY DEF TypeOK, Underway, InFlight, Clones, Unused

\* A selection, or the recovery of a start that comes late, crosses the rows under way
\* that it queues again.
LEMMA RequeuedWholeInv ==
  ASSUME WholeInv,
         RequeueStranded \/ \E m \in Members : \E sel \in Selections(m) : Select(m, sel)
  PROVE  Inner'
<1>1. \A c \in Underway : c \in crossed' \/ status'[c] = status[c]
  <2> SUFFICES ASSUME NEW c \in Underway PROVE c \in crossed' \/ status'[c] = status[c]
    OBVIOUS
  <2>1. c \in Checkouts
    BY UnderwayRows DEF WholeInv, QueueInv
  <2>2. status'[c] = "queued" \/ status'[c] = status[c]
    BY <2>1 DEF RequeueStranded, Select, Requeued
  <2>3. crossed' = crossed \cup Crossing
    BY DEF RequeueStranded, Select
  <2> QED
    BY <2>1, <2>2, <2>3 DEF Crossing
<1>2. UNCHANGED <<clone, claimed, faults, staging, dest>> /\ crossed \subseteq crossed'
  BY DEF RequeueStranded, Select, diskVars, passVars
<1> QED
  BY <1>1, <1>2, RowStep

\* The rows a claim takes are not under way, unless they were queued again.
LEMMA ClaimWholeInv == ASSUME WholeInv, NEW locked, ClaimPending(locked) PROVE Inner'
<1> USE DEF WholeInv, Inner
<1>1. /\ claimed' \in SUBSET Checkouts
      /\ \A c \in Checkouts : /\ status'[c] = IF c \in claimed' THEN "cloning" ELSE status[c]
                              /\ c \in claimed' => status[c] = "queued"
  BY ClaimedRows DEF QueueInv
<1>2. UNCHANGED <<clone, crossed, faults, staging, dest>> /\ InFlight' = InFlight
  BY DEF ClaimPending, InFlight, diskVars, hurtVars
<1>3. \A s \in InFlight : clone[s].of \in Checkouts
  BY DEF QueueInv, InFlight, TypeOK, Clones, Unused
<1>4. \A s \in InFlight : clone[s].of \in crossed \/ clone[s].of \notin claimed'
  BY <1>1, <1>3 DEF RunnerInv
<1>5. RunnerInv'
  BY <1>1, <1>2, <1>3, <1>4 DEF RunnerInv
<1>6. AnswerInv'
  BY <1>1, <1>2, <1>4 DEF AnswerInv
<1>7. OneClonePerCheckout' /\ FetchedInv' /\ CheckoutIsWhole'
  BY <1>2 DEF OneClonePerCheckout, FetchedInv, CheckoutIsWhole, Dir
<1> QED
  BY <1>5, <1>6, <1>7

\* The rows that an answer brings have no clone in flight, and each gets one.
LEMMA AnswerWholeInv == ASSUME WholeInv, ClaimAnswered PROVE Inner'
<1> USE DEF WholeInv, Inner
<1>1. /\ Started(claimed) /\ claimed \in SUBSET Checkouts /\ claimed' = {}
      /\ UNCHANGED <<status, faults, crossed, staging, dest>>
  BY PassEnds DEF ClaimAnswered, QueueInv, TypeOK, rowVars, diskVars, hurtVars
<1>2. \A s \in Slots :
         \/ clone'[s] = clone[s]
         \/ /\ clone'[s] = [pc |-> "token", of |-> clone'[s].of]
            /\ clone'[s].of \in claimed
            /\ Place(claimed)[clone'[s].of] = s
  BY <1>1, StartedClones DEF QueueInv
<1>3. \A s \in InFlight' :
         /\ s \in Slots
         /\ \/ s \in InFlight /\ clone'[s] = clone[s]
            \/ clone'[s].of \in claimed /\ Place(claimed)[clone'[s].of] = s
  BY <1>2 DEF InFlight
<1>4. RunnerInv'
  BY <1>1, <1>3 DEF RunnerInv, AnswerInv
<1>5. AnswerInv'
  BY <1>1 DEF AnswerInv
<1>6. OneClonePerCheckout'
  <2> SUFFICES ASSUME NEW s \in InFlight', NEW t \in InFlight',
                      clone'[s].of = clone'[t].of, clone'[s].of \notin crossed
               PROVE  s = t
    BY <1>1 DEF OneClonePerCheckout
  <2>1. CASE s \in InFlight /\ clone'[s] = clone[s] /\ t \in InFlight /\ clone'[t] = clone[t]
    BY <2>1 DEF OneClonePerCheckout
  <2>2. CASE clone'[s].of \in claimed /\ Place(claimed)[clone'[s].of] = s
    <3>1. ~(t \in InFlight /\ clone'[t] = clone[t])
      BY <2>2 DEF AnswerInv
    <3> QED
      BY <3>1, <2>2, <1>3
  <2>3. CASE clone'[t].of \in claimed /\ Place(claimed)[clone'[t].of] = t
    <3>1. ~(s \in InFlight /\ clone'[s] = clone[s])
      BY <2>3 DEF AnswerInv
    <3> QED
      BY <3>1, <2>3, <1>3
  <2> QED
    BY <2>1, <2>2, <2>3, <1>3
<1>7. FetchedInv'
  <2> SUFFICES ASSUME NEW s \in Slots, clone'[s].pc = "fetched", clone'[s].of \notin crossed
               PROVE  staging[Dir(s)'] = NoTree \/ staging[Dir(s)'].whole
    BY <1>1 DEF FetchedInv
  <2>1. clone'[s] = clone[s]
    <3>1. [pc |-> "token", of |-> clone'[s].of].pc = "token"
      OBVIOUS
    <3> QED
      BY <3>1, <1>2
  <2> QED
    BY <2>1 DEF FetchedInv, Dir
<1>8. CheckoutIsWhole'
  BY <1>1 DEF CheckoutIsWhole
<1> QED
  BY <1>4, <1>5, <1>6, <1>7, <1>8

\* Steps that start and end no clone, write no row and touch no directory.
LEMMA QuietWholeInv ==
  ASSUME WholeInv, Kick \/ Poll \/ ClaimFails \/ StartFails \/ Boot
  PROVE  Inner'
<1> USE DEF WholeInv, Inner
<1>1. UNCHANGED <<status, clone, crossed, staging, dest>> /\ InFlight' = InFlight
  BY DEF Kick, Poll, ClaimFails, StartFails, Boot, InFlight, rowVars, diskVars, hurtVars
<1>2. faults # 0 => faults' # 0
  BY BoundsAssumption
     DEF QueueInv, TypeOK, Kick, Poll, ClaimFails, StartFails, Boot, Faults, hurtVars
<1>3. claimed' \subseteq claimed
  BY DEF Kick, Poll, ClaimFails, StartFails, Boot, RunPass, PassOver, passVars
<1>4. RunnerInv' /\ AnswerInv'
  BY <1>1, <1>2, <1>3 DEF RunnerInv, AnswerInv
<1>5. OneClonePerCheckout' /\ FetchedInv' /\ CheckoutIsWhole'
  BY <1>1 DEF OneClonePerCheckout, FetchedInv, CheckoutIsWhole, Dir
<1> QED
  BY <1>4, <1>5

\* A step of a clone but its last: its directory is its own, and what is renamed into
\* place was fetched.
LEMMA CloneStepWholeInv ==
  ASSUME WholeInv, NEW s \in Slots,
         \/ Prepare(s) \/ TokenFails(s) \/ GitBegins(s) \/ GitEnds(s) \/ GitFails(s)
         \/ Rename(s) \/ CleanUp(s)
  PROVE  Inner'
<1> USE DEF WholeInv, Inner
<1>1. s \in InFlight
  BY DEF InFlight, Prepare, TokenFails, GitBegins, GitEnds, GitFails, Rename, CleanUp,
         Fetched, At
<1>2. PICK step \in Steps : Goto(s, step)
  BY DEF Prepare, TokenFails, GitBegins, GitEnds, GitFails, Rename, CleanUp, Steps
<1>3. /\ InFlight' = InFlight
      /\ clone[s].of \in Checkouts /\ Dir(s) \in Dirs
      /\ clone'[s].pc = step
      /\ \A t \in Slots : clone'[t].of = clone[t].of /\ (t # s => clone'[t] = clone[t])
  BY <1>1, <1>2, GotoStep DEF QueueInv
<1>4. UNCHANGED <<rowVars, passVars, hurtVars>>
  BY DEF Prepare, TokenFails, GitBegins, GitEnds, GitFails, Rename, CleanUp, diskVars
<1>5. clone[s].pc # "failed"
  BY DEF Prepare, TokenFails, GitBegins, GitEnds, GitFails, Rename, CleanUp, Fetched, At
<1>6. AnswerInv'
  BY <1>3, <1>4 DEF AnswerInv, InFlight, rowVars, passVars, hurtVars
<1>7. RunnerInv'
  BY <1>1, <1>3, <1>4, <1>5 DEF RunnerInv, InFlight, rowVars, hurtVars
<1>8. OneClonePerCheckout'
  BY <1>3, <1>4 DEF OneClonePerCheckout, InFlight, hurtVars
<1>9. /\ \A d \in Dirs : d # Dir(s) => staging'[d] = staging[d]
      /\ step = "fetched" => staging'[Dir(s)].whole
  <2>1. CASE GitEnds(s)
    <3>1. staging[Dir(s)] \in Trees
      BY <1>3, <2>1, SlotsAssumption DEF QueueInv, GitEnds, TypeOK, NoTree
    <3> QED
      BY <3>1, <1>3, <2>1 DEF QueueInv, GitEnds, TypeOK, Trees
  <2>2. CASE ~GitEnds(s)
    <3>1. step # "fetched"
      <4>1. \A other \in Steps : Goto(s, other) => other = step
        BY <1>1, <1>3, GotoStep DEF QueueInv
      <4>2. {"spawned", "git", "broken", "ready", "failed"} \subseteq Steps
        BY DEF Steps
      <4> QED
        BY <2>2, <4>1, <4>2
           DEF Prepare, TokenFails, GitBegins, GitFails, Rename, CleanUp
    <3>2. \A d \in Dirs : d # Dir(s) => staging'[d] = staging[d]
      BY <2>2 DEF QueueInv, TypeOK, Prepare, TokenFails, GitBegins, GitFails, Rename,
                  CleanUp, diskVars
    <3> QED
      BY <3>1, <3>2
  <2> QED
    BY <2>1, <2>2
<1>10. FetchedInv'
  <2> SUFFICES ASSUME NEW t \in Slots, clone'[t].pc = "fetched", clone'[t].of \notin crossed
               PROVE  staging'[Dir(t)'] = NoTree \/ staging'[Dir(t)'].whole
    BY <1>4 DEF FetchedInv, hurtVars
  <2>1. Dir(t)' = Dir(t)
    BY <1>3 DEF Dir
  <2>2. CASE t = s
    BY <1>3, <1>9, <2>1, <2>2
  <2>3. CASE t # s
    <3>1. t \in InFlight /\ clone[t].pc = "fetched" /\ clone[t].of \notin crossed
      BY <1>3, <2>3 DEF InFlight
    <3>2. Dir(t) # Dir(s) /\ Dir(t) \in Dirs
      <4>1. Dir(t) # Dir(s)
        BY <1>1, <2>3, <3>1, OwnDirectory
      <4>2. clone[t].of \in Checkouts
        BY <3>1 DEF InFlight, QueueInv, TypeOK, Clones, Unused
      <4> QED
        BY <4>1, <4>2, CheckoutAssumption DEF Dir
    <3> QED
      BY <2>1, <3>1, <3>2, <1>9 DEF FetchedInv
  <2> QED
    BY <2>2, <2>3
<1>11. CheckoutIsWhole'
  <2>1. CASE Rename(s)
    <3>1. staging[Dir(s)] \in Trees /\ staging[Dir(s)].of = clone[s].of
      <4>1. staging[Dir(s)] \in Trees
        BY <2>1, <1>3 DEF QueueInv, TypeOK, Rename
      <4>2. /\ staging[Dir(s)].of \in Checkouts /\ DirOf[staging[Dir(s)].of] = Dir(s)
            /\ status[staging[Dir(s)].of] # "absent" /\ status[clone[s].of] # "absent"
        BY <4>1, <1>1, <1>3 DEF QueueInv, TreeInv, Planted, CloneInv, Trees
      <4> QED
        BY <4>1, <4>2, <1>3 DEF QueueInv, DirInv, Dir
    <3>2. clone[s].of \in crossed \/ staging[Dir(s)].whole
      <4>1. clone[s].pc = "fetched" /\ staging[Dir(s)] # NoTree /\ s \in Slots
        BY <2>1 DEF Rename, Fetched, At
      <4> QED
        BY <4>1 DEF FetchedInv
    <3>3. \A d \in Dirs : dest'[d] = dest[d] \/ dest'[d].of \in crossed \/ dest'[d].whole
      BY <2>1, <3>1, <3>2, <1>3 DEF QueueInv, TypeOK, Rename, Ownerless
    <3> QED
      BY <3>3, <1>4 DEF CheckoutIsWhole, hurtVars
  <2>2. CASE UNCHANGED dest
    BY <2>2, <1>4 DEF CheckoutIsWhole, hurtVars
  <2> QED
    BY <2>1, <2>2 DEF Prepare, TokenFails, GitBegins, GitEnds, GitFails, CleanUp, diskVars
<1> QED
  BY <1>6, <1>7, <1>8, <1>10, <1>11

\* The outcome of a clone concerns its own row, which no other clone has.
LEMMA OutcomeWholeInv ==
  ASSUME WholeInv, NEW s \in Slots,
         MarkReady(s) \/ MarkReadyFails(s) \/ MarkFailed(s) \/ MarkFailedFails(s)
  PROVE  Inner'
<1> USE DEF WholeInv, Inner
<1>1. s \in InFlight
  BY DEF InFlight, MarkReady, MarkReadyFails, MarkFailed, MarkFailedFails, At
<1>2. clone[s].of \in Checkouts
  BY <1>1 DEF InFlight, QueueInv, TypeOK, Clones, Unused
<1>3. UNCHANGED <<staging, dest, crossed, claimed>>
  BY DEF RunPass, passVars, MarkReady, MarkReadyFails, MarkFailed, MarkFailedFails, Over, diskVars
<1>4. \A t \in InFlight \ {s} :
         clone[t].of \in crossed \/ status'[clone[t].of] = status[clone[t].of]
  <2>1. \A t \in InFlight \ {s} :
           clone[t].of \in Checkouts /\ (clone[t].of \in crossed \/ clone[t].of # clone[s].of)
    BY <1>1 DEF OneClonePerCheckout, InFlight, QueueInv, TypeOK, Clones, Unused
  <2> QED
    BY <2>1 DEF QueueInv, TypeOK, MarkReady, MarkReadyFails, MarkFailed, MarkFailedFails
<1>5. faults # 0 => faults' # 0
  BY BoundsAssumption
     DEF QueueInv, TypeOK, MarkReady, MarkReadyFails, MarkFailed, MarkFailedFails, Faults
<1>6. /\ \A c \in claimed \ crossed' : status'[c] = "cloning"
      /\ \A c \in claimed \ crossed' : \A t \in InFlight : clone[t].of # c
  <2>1. \A c \in claimed \ crossed : c \in Checkouts /\ c # clone[s].of
    BY <1>1 DEF AnswerInv, QueueInv, TypeOK
  <2>2. \A c \in claimed \ crossed : status'[c] = "cloning"
    BY <2>1 DEF AnswerInv, QueueInv, TypeOK, MarkReady, MarkReadyFails, MarkFailed, MarkFailedFails
  <2> QED
    BY <2>2, <1>3 DEF AnswerInv
<1>7. CheckoutIsWhole'
  BY <1>3 DEF CheckoutIsWhole
<1>8. CASE Over(s)
  <2>1. InFlight' = InFlight \ {s} /\ \A t \in InFlight' : clone'[t] = clone[t]
    BY <1>1, <1>8, OverFrees DEF QueueInv
  <2>2. RunnerInv'
    BY <2>1, <1>3, <1>4, <1>5 DEF RunnerInv
  <2>3. OneClonePerCheckout' /\ AnswerInv'
    BY <2>1, <1>3, <1>6 DEF OneClonePerCheckout, AnswerInv
  <2>4. \A t \in Slots : clone'[t].pc = "fetched" => clone'[t] = clone[t]
    BY <2>1 DEF InFlight
  <2>5. FetchedInv'
    BY <2>4, <1>3 DEF FetchedInv, Dir
  <2> QED
    BY <1>7, <2>2, <2>3, <2>5
<1>9. CASE MarkReadyFails(s)
  <2>1. Goto(s, "failed") /\ "failed" \in Steps /\ At(s, "ready") /\ "failed" # "fetched"
    BY <1>9 DEF MarkReadyFails, Steps
  <2>2. /\ InFlight' = InFlight
        /\ clone'[s].pc = "failed"
        /\ \A t \in Slots : clone'[t].of = clone[t].of /\ (t # s => clone'[t] = clone[t])
    BY <2>1, <1>1, GotoStep DEF QueueInv
  <2>3. \A t \in InFlight : t \in Slots
    BY DEF InFlight
  <2>4. clone[s].of \in crossed \/ (status'[clone[s].of] \in {"cloning", "ready"} /\ faults' # 0)
    <3> SUFFICES ASSUME clone[s].of \notin crossed
                 PROVE  status'[clone[s].of] \in {"cloning", "ready"} /\ faults' # 0
      OBVIOUS
    <3>1. status[clone[s].of] = "cloning"
      BY <2>1, <1>1 DEF RunnerInv, At
    <3>2. faults' # 0
      BY <1>9, BoundsAssumption DEF MarkReadyFails, Faults, QueueInv, TypeOK
    <3> QED
      BY <3>1, <3>2, <1>2, <1>9 DEF MarkReadyFails, QueueInv, TypeOK
  <2>5. RunnerInv'
    BY <2>2, <2>3, <2>4, <1>3, <1>4, <1>5 DEF RunnerInv
  <2>6. OneClonePerCheckout' /\ AnswerInv'
    BY <2>2, <2>3, <1>3, <1>6 DEF OneClonePerCheckout, AnswerInv
  <2>7. FetchedInv'
    BY <2>1, <2>2, <1>3 DEF FetchedInv, Dir
  <2> QED
    BY <1>7, <2>5, <2>6, <2>7
<1> QED
  BY <1>8, <1>9 DEF MarkReady, MarkFailed, MarkFailedFails

\* A crash leaves nothing in flight; a sweep takes what git has left with it.
LEMMA RecoveryWholeInv == ASSUME WholeInv, Sweep \/ Crash PROVE Inner'
<1> USE DEF WholeInv, Inner
<1>1. CASE Crash
  <2>1. InFlight' = {} /\ claimed' = {} /\ UNCHANGED <<dest, crossed>>
    BY <1>1, PassEnds DEF Crash, InFlight, Unused
  <2>2. RunnerInv' /\ AnswerInv' /\ OneClonePerCheckout'
    BY <2>1 DEF RunnerInv, AnswerInv, OneClonePerCheckout
  <2>3. FetchedInv'
    BY <2>1 DEF FetchedInv, InFlight
  <2>4. CheckoutIsWhole'
    BY <2>1 DEF CheckoutIsWhole
  <2> QED
    BY <2>2, <2>3, <2>4
<1>2. CASE Sweep
  <2>1. UNCHANGED <<status, clone, claimed, faults, crossed, dest>> /\ InFlight' = InFlight
    BY <1>2 DEF Sweep, RunPass, InFlight, rowVars, hurtVars
  <2>2. RunnerInv' /\ AnswerInv' /\ OneClonePerCheckout' /\ CheckoutIsWhole'
    BY <2>1 DEF RunnerInv, AnswerInv, OneClonePerCheckout, CheckoutIsWhole
  <2>3. FetchedInv'
    <3> SUFFICES ASSUME NEW s \in Slots, clone[s].pc = "fetched"
                 PROVE  staging'[Dir(s)] = NoTree
      BY <2>1 DEF FetchedInv, Dir
    <3>1. s \in InFlight
      BY DEF InFlight
    <3>2. clone[s].of \in Checkouts
      BY <3>1 DEF InFlight, QueueInv, TypeOK, Clones, Unused
    <3>3. Dir(s) \in Dirs
      BY <3>2, CheckoutAssumption DEF Dir
    <3> QED
      BY <1>2, <3>3 DEF Sweep
  <2> QED
    BY <2>2, <2>3
<1> QED
  BY <1>1, <1>2

\* Every step of the queue keeps WholeInv, whatever members select and when.
LEMMA NextWholeInv == ASSUME WholeInv, [Next]_queueVars PROVE WholeInv'
<1>1. QueueInv'
  BY NextQueueInv DEF WholeInv
<1>2. CASE RequeueStranded \/ \E m \in Members : \E sel \in Selections(m) : Select(m, sel)
  BY <1>1, <1>2, RequeuedWholeInv DEF WholeInv
<1>3. CASE Kick \/ Poll \/ ClaimFails \/ StartFails \/ Boot
  BY <1>1, <1>3, QuietWholeInv DEF WholeInv
<1>4. CASE ClaimAnswered \/ \E locked \in {{}} \cup {Own(m) : m \in Members} : ClaimPending(locked)
  BY <1>1, <1>4, ClaimWholeInv, AnswerWholeInv DEF WholeInv
<1>5. CASE \E s \in Slots : CloneSteps(s)
  BY <1>1, <1>5, CloneStepWholeInv, OutcomeWholeInv DEF CloneSteps, WholeInv
<1>6. CASE Sweep \/ Crash
  BY <1>1, <1>6, RecoveryWholeInv DEF WholeInv
<1>7. CASE UNCHANGED queueVars
  BY <1>1, <1>7 DEF queueVars, rowVars, diskVars, passVars, hurtVars, WholeInv, Inner, RunnerInv,
              AnswerInv, OneClonePerCheckout, FetchedInv, CheckoutIsWhole, InFlight, Dir
<1> QED
  BY <1>2, <1>3, <1>4, <1>5, <1>6, <1>7 DEF Next

\* WholeInv holds at all times.
LEMMA WholeInvariant == Spec => []WholeInv
  BY InitWholeInv, NextWholeInv, PTL DEF Spec

\* No checkout is cloned twice at once, unless it was queued again in the middle of it: no
\* pass, poll, crash or failed statement, and no selection of anything else, starts a second
\* clone (queue.ts, user-repo-store.ts claimPending).
THEOREM ClonedOnce == Spec => []OneClonePerCheckout
<1>1. WholeInv => OneClonePerCheckout
  BY DEF WholeInv, Inner
<1> QED
  BY <1>1, WholeInvariant, PTL

\* What is at a checkout's name is a whole clone, unless it was queued again in the middle
\* of one, also if it is cloned while the start sweeps (reconcile.ts).
THEOREM WholeCheckouts == Spec => []CheckoutIsWhole
<1>1. WholeInv => CheckoutIsWhole
  BY DEF WholeInv, Inner
<1> QED
  BY <1>1, WholeInvariant, PTL

\* What is ready stays ready, whatever is selected and when, unless a statement has failed
\* or it was queued again in the middle of its clone (user-repo-store.ts select).
THEOREM ReadyForGood == Spec => ReadyStays
<1>1. ASSUME WholeInv, [Next]_queueVars,
             NEW c \in Checkouts, status[c] = "ready", faults = 0, c \notin crossed
      PROVE  status'[c] = "ready"
  <2> USE DEF WholeInv, Inner
  <2>1. CASE \E m \in Members : \E sel \in Selections(m) : Select(m, sel)
    BY <1>1, <2>1 DEF Select, Requeued
  <2>2. CASE \E locked \in {{}} \cup {Own(m) : m \in Members} : ClaimPending(locked)
    BY <1>1, <2>2, ClaimedRows DEF QueueInv
  <2>3. CASE \E s \in Slots : CloneSteps(s)
    <3> PICK s \in Slots : CloneSteps(s)
      BY <2>3
    <3>1. CASE MarkFailed(s) \/ MarkFailedFails(s)
      <4>1. s \in InFlight
        BY <3>1 DEF MarkFailed, MarkFailedFails, At, InFlight
      <4>2. clone[s].of # c
        BY <1>1, <4>1 DEF RunnerInv
      <4> QED
        BY <1>1, <3>1, <4>2 DEF MarkFailed, MarkFailedFails, QueueInv, TypeOK
    <3>2. CASE MarkReady(s) \/ MarkReadyFails(s)
      BY <1>1, <3>2 DEF MarkReady, MarkReadyFails, QueueInv, TypeOK
    <3>3. CASE UNCHANGED status
      BY <1>1, <3>3
    <3> QED
      BY <3>1, <3>2, <3>3
         DEF CloneSteps, Prepare, TokenFails, GitBegins, GitEnds, GitFails, Rename, CleanUp,
             rowVars
  <2>4. CASE RequeueStranded
    BY <1>1, <2>4 DEF RequeueStranded, Stranded
  <2>5. CASE UNCHANGED status
    BY <1>1, <2>5
  <2> QED
    BY <1>1, <2>1, <2>2, <2>3, <2>4, <2>5
       DEF Next, Kick, Poll, ClaimAnswered, ClaimFails, StartFails, Sweep, Crash, Boot,
           queueVars, rowVars
<1>2. WholeInv /\ [Next]_queueVars =>
        [\A c \in Checkouts :
            status[c] = "ready" /\ faults = 0 /\ c \notin crossed => status'[c] = "ready"]_queueVars
  BY <1>1
<1> QED
  BY <1>2, WholeInvariant, PTL DEF Spec, ReadyStays

-----------------------------------------------------------------------------
(* Who clones the rows that say cloning                                    *)

\* A finite set fits into one that is no smaller.
LEMMA SmallerFits ==
  ASSUME NEW S, NEW T, IsFiniteSet(S), IsFiniteSet(T), Cardinality(S) <= Cardinality(T)
  PROVE  \E f \in [S -> T] : \A c, d \in S : f[c] = f[d] => c = d
<1> DEFINE n == Cardinality(S)
           m == Cardinality(T)
<1>1. n \in Nat /\ m \in Nat /\ 1 .. n \subseteq 1 .. m
  BY FS_CardinalityType
<1>2. PICK g : g \in Bijection(1 .. n, S)
  BY FS_CardinalityType DEF ExistsBijection
<1>3. PICK h : h \in Bijection(1 .. m, T)
  BY FS_CardinalityType DEF ExistsBijection
<1> HIDE DEF n, m
<1> DEFINE index(c) == CHOOSE i \in 1 .. n : g[i] = c
           f == [c \in S |-> h[index(c)]]
<1>4. \A c \in S : index(c) \in 1 .. n /\ g[index(c)] = c
  <2> TAKE c \in S
  <2>1. \E i \in 1 .. n : g[i] = c
    BY <1>2 DEF Bijection, Surjection
  <2> QED
    BY <2>1
<1>5. \A i, j \in 1 .. m : h[i] \in T /\ (h[i] = h[j] => i = j)
  BY <1>3 DEF Bijection, Injection, IsInjective
<1> HIDE DEF index
<1>6. \A c \in S : h[index(c)] \in T
  BY <1>1, <1>4, <1>5
<1>7. \A c, d \in S : h[index(c)] = h[index(d)] => c = d
  <2> TAKE c, d \in S
  <2> HAVE h[index(c)] = h[index(d)]
  <2>1. index(c) = index(d)
    BY <1>1, <1>4, <1>5
  <2> QED
    BY <1>4, <2>1
<1>8. f \in [S -> T]
  BY <1>6
<1>9. \A c, d \in S : f[c] = f[d] => c = d
  BY <1>7
<1> QED
  BY <1>8, <1>9

\* Each row that an answer brings gets a slot that was free, and no two get the same.
LEMMA ClaimedArePlaced ==
  ASSUME QueueInv
  PROVE  /\ \A c \in claimed : Place(claimed)[c] \in Slots \ InFlight
         /\ \A c, d \in claimed : Place(claimed)[c] = Place(claimed)[d] => c = d
<1>1. IsFiniteSet(claimed) /\ Cardinality(claimed) <= room /\ Cardinality(claimed) \in Nat
  BY CheckoutAssumption, FS_Subset, FS_CardinalityType DEF QueueInv, TypeOK, ClaimInv
<1>2. IsFiniteSet(Slots \ InFlight)
  BY SlotsAssumption, FS_Subset
<1>3. Cardinality(Slots \ InFlight) = Cardinality(Slots) - Cardinality(InFlight)
  <2>1. Slots \cap InFlight = InFlight
    BY DEF InFlight
  <2> QED
    BY <2>1, SlotsAssumption, FS_Difference
<1>4. Cardinality(Slots) \in Nat /\ Cardinality(InFlight) \in Nat
  BY SlotsAssumption, InFlightFinite, FS_CardinalityType
<1>5. Cardinality(claimed) <= Cardinality(Slots \ InFlight)
  BY <1>1, <1>3, <1>4, SlotsSuffice, ConcurrencyAssumption DEF QueueInv, RoomInv, TypeOK
<1>6. \E f \in [claimed -> Slots \ InFlight] : \A c, d \in claimed : f[c] = f[d] => c = d
  BY <1>1, <1>2, <1>5, SmallerFits
<1>7. /\ Place(claimed) \in [claimed -> Slots \ InFlight]
      /\ \A c, d \in claimed : Place(claimed)[c] = Place(claimed)[d] => c = d
  BY <1>6 DEF Place
<1> QED
  BY <1>7

\* From the moment a start has requeued what was stranded, a row that says cloning is under way,
\* unless a statement of its own has failed since.
BusyInv ==
    proc \in {"recovered", "polling"} =>
        \A c \in Checkouts : status[c] = "cloning" => c \in Underway \cup lost

\* An answer starts a clone of each row the claim took, and leaves those under way alone.
LEMMA AnswerBusy == ASSUME QueueInv, BusyInv, ClaimAnswered PROVE BusyInv'
<1>1. Started(claimed) /\ UNCHANGED <<status, proc, lost>>
  BY DEF ClaimAnswered, rowVars, hurtVars
<1>2. \A c \in claimed : Place(claimed)[c] \in Slots \ InFlight
  BY ClaimedArePlaced
<1>3. \A c, d \in claimed : Place(claimed)[c] = Place(claimed)[d] => c = d
  BY ClaimedArePlaced
<1>4. ASSUME NEW c \in claimed
      PROVE  \E s \in InFlight' : clone'[s].of = c
  <2> DEFINE s == Place(claimed)[c]
  <2>1. s \in Slots
    BY <1>2
  <2>2. (CHOOSE d \in claimed : Place(claimed)[d] = s) = c
    BY <1>3
  <2>3. clone'[s] = [pc |-> "token", of |-> c]
    BY <1>1, <2>1, <2>2 DEF Started
  <2>4. clone'[s].pc # "free" /\ clone'[s].of = c
    BY <2>3
  <2> QED
    BY <2>1, <2>4 DEF InFlight
<1>5. ASSUME NEW s \in InFlight
      PROVE  s \in InFlight' /\ clone'[s] = clone[s]
  <2>1. s \in Slots /\ ~ \E c \in claimed : Place(claimed)[c] = s
    BY <1>2, <1>5 DEF InFlight
  <2> QED
    BY <1>1, <2>1, <1>5 DEF Started, InFlight
<1>6. Underway \subseteq Underway'
  BY <1>4, <1>5 DEF Underway
<1> QED
  BY <1>1, <1>6 DEF BusyInv

\* A clone that goes on keeps its row; one that is over leaves it in another status.
LEMMA CloneBusy ==
  ASSUME QueueInv, BusyInv, NEW s \in Slots, CloneSteps(s)
  PROVE  BusyInv'
<1> USE DEF QueueInv
<1>1. s \in InFlight
  BY DEF CloneSteps, Prepare, TokenFails, GitBegins, GitEnds, GitFails, Rename, Fetched, CleanUp,
         MarkReady, MarkReadyFails, MarkFailed, MarkFailedFails, At, InFlight
<1>3. CASE MarkReady(s) \/ MarkFailed(s) \/ MarkFailedFails(s)
  <2>1. /\ UNCHANGED <<proc, claimed>>
        /\ clone' = [clone EXCEPT ![s] = Unused]
    BY <1>3 DEF MarkReady, MarkFailed, MarkFailedFails, Over, FreedSlot, RunPass
  <2>2. \A c \in Checkouts :
           status'[c] = "cloning" => status[c] = "cloning" /\ (c # clone[s].of \/ c \in lost')
    BY <1>3 DEF MarkReady, MarkFailed, MarkFailedFails, TypeOK
  <2>3. \A t \in InFlight \ {s} : t \in InFlight' /\ clone'[t] = clone[t]
    BY <2>1 DEF InFlight, TypeOK
  <2>4. lost \subseteq lost'
    BY <1>3 DEF MarkReady, MarkFailed, MarkFailedFails
  <2> QED
    BY <2>1, <2>2, <2>3, <2>4 DEF BusyInv, Underway
<1>4. ASSUME NEW step \in Steps, Goto(s, step), UNCHANGED <<proc, claimed, lost>>,
             \A c \in Checkouts : status'[c] = "cloning" => status[c] = "cloning"
      PROVE  BusyInv'
  <2>1. step # "free"
    BY DEF Steps
  <2>2. clone[s] \in [pc : Steps, of : Checkouts]
    BY <1>1 DEF TypeOK, Clones, InFlight, Unused
  <2>3. clone'[s].pc = step /\ clone'[s].of = clone[s].of /\ \A t \in Slots \ {s} : clone'[t] = clone[t]
    BY <1>4, <2>2 DEF Goto, TypeOK
  <2>4. \A t \in InFlight : t \in InFlight' /\ clone'[t].of = clone[t].of
    BY <2>1, <2>3 DEF InFlight
  <2> QED
    BY <1>4, <2>4 DEF BusyInv, Underway
<1>2. CASE MarkReadyFails(s)
  <2>1. Goto(s, "failed") /\ "failed" \in Steps /\ UNCHANGED <<proc, claimed, lost>>
    BY <1>2 DEF MarkReadyFails, Steps, passVars
  <2>2. \A c \in Checkouts : status'[c] = "cloning" => status[c] = "cloning"
    BY <1>2 DEF MarkReadyFails, TypeOK
  <2> QED
    BY <2>1, <2>2, <1>4
<1>5. CASE \/ Prepare(s) \/ TokenFails(s) \/ GitBegins(s) \/ GitEnds(s) \/ GitFails(s)
           \/ Rename(s) \/ CleanUp(s)
  <2>1. {"ready", "failed", "spawned", "git", "broken", "fetched"} \subseteq Steps
    BY DEF Steps
  <2>2. \E step \in Steps : Goto(s, step)
    BY <1>5, <2>1 DEF Prepare, TokenFails, GitBegins, GitEnds, GitFails, Rename, CleanUp
  <2>3. UNCHANGED <<status, proc, claimed, lost>>
    BY <1>5 DEF Prepare, TokenFails, GitBegins, GitEnds, GitFails, Rename, CleanUp, rowVars, passVars, hurtVars
  <2> QED
    BY <2>2, <2>3, <1>4
<1> QED
  BY <1>2, <1>3, <1>5 DEF CloneSteps

\* Every step of the queue keeps BusyInv, whatever members do.
LEMMA NextBusy == ASSUME QueueInv, BusyInv, [Next]_queueVars PROVE BusyInv'
<1>1. CASE \E m \in Members : \E sel \in Selections(m) : Select(m, sel)
  <2> PICK m \in Members : \E sel \in Selections(m) : Select(m, sel)
    BY <1>1
  <2> PICK sel \in Selections(m) : Select(m, sel)
    OBVIOUS
  <2>1. \A c \in Checkouts : status'[c] = "cloning" => status[c] = "cloning" /\ c \notin sel
    BY DEF Select, Requeued
  <2>2. UNCHANGED <<proc, claimed, clone>> /\ lost' = lost \ sel
    BY DEF Select, passVars
  <2> QED
    BY <2>1, <2>2 DEF BusyInv, Underway, InFlight
<1>2. CASE Kick \/ Poll \/ Sweep
  <2>1. UNCHANGED <<status, clone, claimed, lost>> /\ (proc' = "polling" => proc \in {"recovered", "polling"})
        /\ (proc' = "recovered" => proc = "recovered")
    BY <1>2 DEF Kick, Poll, Sweep, RunPass, rowVars, hurtVars
  <2> QED
    BY <2>1 DEF BusyInv, Underway, InFlight
<1>3. CASE ClaimFails
  <2>1. UNCHANGED <<status, clone, proc>> /\ lost' = lost \cup claimed /\ claimed' = {}
    BY <1>3, PassEnds DEF ClaimFails, rowVars
  <2> QED
    BY <2>1 DEF BusyInv, Underway, InFlight
<1>4. CASE \E locked \in {{}} \cup {Own(m) : m \in Members} : ClaimPending(locked)
  <2> PICK locked : ClaimPending(locked)
    BY <1>4
  <2>1. \A c \in Checkouts : status'[c] = IF c \in claimed' THEN "cloning" ELSE status[c]
    BY ClaimedRows DEF QueueInv
  <2>2. UNCHANGED <<proc, clone, lost>> /\ claimed = {}
    BY DEF ClaimPending, QueueInv, ClaimInv, hurtVars
  <2> QED
    BY <2>1, <2>2 DEF BusyInv, Underway, InFlight
<1>5. CASE ClaimAnswered
  BY <1>5, AnswerBusy
<1>6. CASE \E s \in Slots : CloneSteps(s)
  BY <1>6, CloneBusy
<1>7. CASE RequeueStranded
  BY <1>7 DEF RequeueStranded, Stranded, BusyInv
<1>8. CASE StartFails \/ Crash \/ Boot
  BY <1>8 DEF StartFails, Crash, Boot, BusyInv
<1>9. CASE UNCHANGED queueVars
  BY <1>9 DEF queueVars, rowVars, passVars, hurtVars, InFlight, Underway, BusyInv
<1> QED
  BY <1>1, <1>2, <1>3, <1>4, <1>5, <1>6, <1>7, <1>8, <1>9 DEF Next

\* Once the queue has started, a row that says cloning is being cloned, or will be when the answer to
\* its claim is there, also after a crash and whatever members select and when, unless its own claim or
\* markFailed has failed since that start (011_user_workspace.sql:26).
THEOREM CloningIsRun == Spec => []CloningHasRunner
<1>1. Init => BusyInv
  BY DEF Init, BusyInv
<1>2. QueueInv /\ BusyInv /\ [Next]_queueVars => BusyInv'
  BY NextBusy
<1>3. BusyInv => CloningHasRunner
  BY DEF BusyInv, CloningHasRunner
<1> QED
  BY <1>1, <1>2, <1>3, QueueInvariant, PTL DEF Spec
=============================================================================
