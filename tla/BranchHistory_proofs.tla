------------------------ MODULE BranchHistory_proofs ------------------------
(***************************************************************************)
(* What is covered is stored, and a range that is answered is answered     *)
(* from exactly the commits of the branches, for any repositories, commits,*)
(* overlap and bounds, whatever the dates and whatever fails, but for what *)
(* an incremental scan cannot know of.  TableInv says what of a branch may *)
(* be missing from the table, ScanInv what a scan that has read a branch   *)
(* may add to it, and CountInv of which commits a count is the number.     *)
(***************************************************************************)
EXTENDS BranchHistory, FiniteSetTheorems, WellFoundedInduction, TLAPS

-----------------------------------------------------------------------------
(* The least and the greatest of some numbers.                             *)

LEMMA MinOf ==
  ASSUME NEW S \in SUBSET Nat, S # {}
  PROVE  Min(S) \in S /\ \A x \in S : Min(S) <= x
<1>1. PICK m \in S : \A x \in S : ~ (<<x, m>> \in OpToRel(<, Nat))
  BY WFMin, NatLessThanWellFounded, Zenon
<1>2. \A x \in S : m <= x
  <2> TAKE x \in S
  <2>1. m \in Nat /\ x \in Nat
    OBVIOUS
  <2>2. ~ (x < m)
    BY <1>1, <2>1, Zenon DEF OpToRel
  <2> QED
    BY <2>1, <2>2
<1> QED
  BY <1>2 DEF Min

\* A finite set of numbers has a greatest one: of those that have none, a smallest would be
\* without one of its members, and that one is less than the greatest of the others.
LEMMA Bound ==
  ASSUME NEW S \in SUBSET Nat, IsFiniteSet(S)
  PROVE  \E n \in Nat : \A x \in S : x <= n
<1> DEFINE Unbounded(T) == T \in SUBSET S /\ ~ \E n \in Nat : \A x \in T : x <= n
           Sizes == {Cardinality(T) : T \in {U \in SUBSET S : Unbounded(U)}}
<1> SUFFICES ASSUME Unbounded(S) PROVE FALSE
  OBVIOUS
<1>1. \A T \in SUBSET S : IsFiniteSet(T) /\ Cardinality(T) \in Nat
  BY FS_Subset, FS_CardinalityType
<1>2. Sizes \in SUBSET Nat /\ Sizes # {}
  <2>1. \A n \in Sizes : n \in Nat
    BY <1>1
  <2>2. Cardinality(S) \in Sizes
    OBVIOUS
  <2> HIDE DEF Sizes
  <2> QED
    BY <2>1, <2>2
<1>3. Min(Sizes) \in Sizes /\ \A n \in Sizes : Min(Sizes) <= n
  <2> HIDE DEF Sizes
  <2> QED
    BY <1>2, MinOf
<1>4. PICK T \in SUBSET S : Unbounded(T) /\ Cardinality(T) = Min(Sizes)
  BY <1>3
<1>5. PICK x \in T : TRUE
  <2>1. \A y \in {} : y <= 0
    OBVIOUS
  <2> QED
    BY <1>4, <2>1
<1>6. Cardinality(T \ {x}) = Cardinality(T) - 1 /\ Cardinality(T) \in Nat
  BY <1>1, <1>5, FS_RemoveElement
<1>7. ~Unbounded(T \ {x})
  <2>1. SUFFICES ASSUME Unbounded(T \ {x}) PROVE FALSE
    OBVIOUS
  <2>2. Cardinality(T \ {x}) \in Sizes
    BY <2>1
  <2>3. Cardinality(T) <= Cardinality(T \ {x})
    <3> HIDE DEF Sizes, Unbounded
    <3> QED
      BY <1>3, <1>4, <2>2
  <2> QED
    BY <1>6, <2>3
<1>8. PICK n \in Nat : \A y \in T \ {x} : y <= n
  BY <1>7
<1>9. x \in Nat
  BY <1>4, <1>5
<1>10. \A y \in T : y <= n + x
  <2> TAKE y \in T
  <2>1. y \in Nat
    BY <1>4
  <2>2. y = x \/ y <= n
    BY <1>8
  <2> QED
    BY <1>9, <2>1, <2>2
<1>11. n + x \in Nat
  BY <1>9
<1> QED
  BY <1>4, <1>10, <1>11

LEMMA MaxOf ==
  ASSUME NEW S \in SUBSET Nat, S # {}, IsFiniteSet(S)
  PROVE  Max(S) \in S /\ \A x \in S : x <= Max(S)
<1>1. PICK n \in Nat : \A x \in S : x <= n
  BY Bound
<1> DEFINE T == {n - x : x \in S}
<1>2. T \in SUBSET Nat
  <2>1. \A x \in S : n - x \in Nat
    BY <1>1
  <2> QED
    BY <2>1
<1>3. T # {} /\ \A x \in S : n - x \in T
  OBVIOUS
<1>4. \A y \in T : \E x \in S : y = n - x
  OBVIOUS
<1> HIDE DEF T
<1>5. Min(T) \in T /\ \A x \in T : Min(T) <= x
  BY <1>2, <1>3, MinOf
<1>6. PICK m \in S : Min(T) = n - m
  BY <1>4, <1>5
<1>7. \A x \in S : x <= m
  <2> TAKE x \in S
  <2>1. n - m <= n - x /\ m \in Int /\ x \in Int /\ n \in Int
    BY <1>3, <1>5, <1>6
  <2> QED
    BY <2>1
<1> QED
  BY <1>7 DEF Max

\* If the counts of the branches are the sizes of sets no two of which share a member, their total,
\* taken one branch after the other as the fold does, is the size of the union.  The sizes are
\* what the fold asks of its function, and no other function has that of it: of the sets of
\* branches that it would give another sum, a smallest would be without one of its members.
LEMMA CountIsSize ==
  ASSUME NEW F \in [Repos -> SUBSET Commits], NEW all,
         \A r \in Repos : snap.hist[r].commits = Cardinality(F[r]),
         \A r, q \in Repos : r # q => F[r] \cap F[q] = {},
         \A x : x \in all <=> \E r \in Repos : x \in F[r]
  PROVE  Total = Cardinality(all)
<1> DEFINE Some(s) == CHOOSE x \in s : TRUE
           U(s) == UNION {F[r] : r \in s}
           Sum(i) == i = [s \in SUBSET Repos |->
                             IF s = {} THEN 0 ELSE snap.hist[Some(s)].commits + i[s \ {Some(s)}]]
           sizes == [s \in SUBSET Repos |-> Cardinality(U(s))]
           iter == CHOOSE i : Sum(i)
<1>1. \A s \in SUBSET Repos : s # {} => Some(s) \in s
  OBVIOUS
<1>2. ASSUME NEW s \in SUBSET Repos, NEW r \in s
      PROVE  Cardinality(U(s)) = snap.hist[r].commits + Cardinality(U(s \ {r}))
  <2>1. U(s) = F[r] \cup U(s \ {r}) /\ F[r] \cap U(s \ {r}) = {}
    OBVIOUS
  <2>2. IsFiniteSet(F[r]) /\ IsFiniteSet(U(s \ {r}))
    <3>1. F[r] \in SUBSET Commits /\ U(s \ {r}) \in SUBSET Commits
      OBVIOUS
    <3> HIDE DEF U
    <3> QED
      BY <3>1, FS_Subset, CommitAssumption
  <2> HIDE DEF U
  <2>3. Cardinality(U(s)) = Cardinality(F[r]) + Cardinality(U(s \ {r})) - Cardinality({})
    <3>1. Cardinality(F[r] \cup U(s \ {r})) =
              Cardinality(F[r]) + Cardinality(U(s \ {r})) - Cardinality(F[r] \cap U(s \ {r}))
      BY <2>2, FS_Union
    <3> QED
      BY <2>1, <3>1, Zenon
  <2>4. Cardinality(F[r]) \in Nat /\ Cardinality(U(s \ {r})) \in Nat
    BY <2>2, FS_CardinalityType
  <2>5. snap.hist[r].commits = Cardinality(F[r]) /\ Cardinality({}) = 0
    BY FS_EmptySet
  <2> QED
    BY <2>3, <2>4, <2>5
<1> HIDE DEF Some
<1>3. Cardinality(U({})) = 0
  <2>1. U({}) = {}
    OBVIOUS
  <2> HIDE DEF U
  <2> QED
    BY <2>1, FS_EmptySet
<1>4. Sum(sizes)
  <2> HIDE DEF U
  <2>1. ASSUME NEW s \in SUBSET Repos
        PROVE  sizes[s] = IF s = {} THEN 0 ELSE snap.hist[Some(s)].commits + sizes[s \ {Some(s)}]
    BY <1>1, <1>2, <1>3
  <2> QED
    BY <2>1
<1>5. Sum(iter)
  BY <1>4
<1>6. \A s \in SUBSET Repos :
          iter[s] = IF s = {} THEN 0 ELSE snap.hist[Some(s)].commits + iter[s \ {Some(s)}]
  <2> HIDE DEF iter
  <2> QED
    BY <1>5
<1>7. ASSUME NEW s \in SUBSET Repos
      PROVE  iter[s] = Cardinality(U(s))
  <2> DEFINE Wrong == {n \in Nat :
                 \E t \in SUBSET Repos : Cardinality(t) = n /\ iter[t] # Cardinality(U(t))}
  <2> HIDE DEF iter, U
  <2> SUFFICES ASSUME iter[s] # Cardinality(U(s)) PROVE FALSE
    OBVIOUS
  <2>1. \A t \in SUBSET Repos : IsFiniteSet(t) /\ Cardinality(t) \in Nat
    BY FS_Subset, FS_CardinalityType, CommitAssumption
  <2>2. Wrong \in SUBSET Nat /\ Cardinality(s) \in Wrong
    BY <2>1
  <2>3. Min(Wrong) \in Wrong /\ \A n \in Wrong : Min(Wrong) <= n
    <3> HIDE DEF Wrong
    <3> QED
      BY <2>2, MinOf
  <2>4. PICK t \in SUBSET Repos : Cardinality(t) = Min(Wrong) /\ iter[t] # Cardinality(U(t))
    BY <2>3
  <2>5. t # {} /\ Some(t) \in t
    BY <1>1, <1>3, <1>6, <2>4
  <2> DEFINE v == t \ {Some(t)}
  <2>6. /\ v \in SUBSET Repos /\ Cardinality(v) = Cardinality(t) - 1
        /\ Cardinality(t) \in Nat /\ Cardinality(v) \in Nat
    BY <2>1, <2>5, FS_RemoveElement
  <2>7. iter[v] = Cardinality(U(v))
    <3>1. Cardinality(v) \notin Wrong
      <4> HIDE DEF Wrong, v
      <4> QED
        BY <2>3, <2>4, <2>6
    <3> QED
      BY <2>6, <3>1
  <2> DEFINE n == snap.hist[Some(t)].commits
  <2>8. iter[t] = n + iter[v]
    BY <1>6, <2>5
  <2>9. Cardinality(U(t)) = n + Cardinality(U(v))
    BY <1>2, <2>5
  <2> HIDE DEF v, n
  <2> QED
    BY <2>4, <2>7, <2>8, <2>9
<1>8. Total = iter[Repos]
  BY DEF Total, MapThenSumSet, MapThenFoldSet, Some
<1>9. all = U(Repos)
  OBVIOUS
<1> QED
  <2> HIDE DEF iter, U
  <2> QED
    BY <1>7, <1>8, <1>9

-----------------------------------------------------------------------------
(* The invariant.                                                          *)

Of(r) == CommitsOf({r})

\* No stored commit of the branch has been taken off it.  A commit that has does not come back, and
\* while its row is there nothing is said of the others: the count will not agree with the rows.
Kept(r) == rows \cap Of(r) \subseteq landed

\* What is missing of a covered branch is not far behind what is stored of it, so that a scan
\* that goes on behind the newest stored commit finds it.
Covers(r) ==
    /\ Kept(r) \/ rows \cap Of(r) \subseteq hist[r].seen =>
           Within(hist[r].seen, hist[r].from) \ late \subseteq rows
    /\ Kept(r) => \A c \in (landed \cap Of(r)) \ (rows \cup late) :
           hist[r].from <= c => \A d \in rows \cap Of(r) : d <= c + Overlap

TableInv ==
    /\ rows \subseteq landed \cup gone /\ landed \cap gone = {}
    /\ \A r \in Repos \ adrift : hist[r].covered => Covers(r)

IsRead(r) == scan.pc \in {"rows", "history", "loading"} \/ (scan.pc = "reading" /\ r \notin scan.left)

\* What a scan knows of a branch it has read.
ReadInv(r) ==
    /\ Kept(r) => rows \cap Of(r) \subseteq scan.seen
    /\ rows \cap Of(r) \subseteq scan.seen => \A c \in (scan.seen \cap Of(r)) \ late :
           c < scan.since[r] /\ hist[r].covered /\ hist[r].from <= c => c \in rows
    /\ \A c \in scan.seen \cap Of(r) : scan.since[r] <= c => c \in scan.found
    /\ \A c \in (landed \cap Of(r)) \ (scan.seen \cup late) :
           \A d \in scan.seen \cap Of(r) \cap landed : d <= c + Overlap

ScanInv ==
    scan.pc # "idle" =>
        /\ scan.found \subseteq scan.seen /\ scan.seen \subseteq landed \cup gone
        /\ scan.pc = "reading" => \A r \in Repos \ adrift : ~TooFarOn(r, scan.since[r])
        /\ \A r \in Repos : IF IsRead(r) THEN r \in adrift \/ ReadInv(r)
                                         ELSE scan.seen \cap Of(r) = {}
        /\ scan.pc = "history" => \A r \in Repos : IsNext(r) => Found(r) \subseteq rows

\* The count of a branch's row is that of stored commits which the branch had when it was scanned.
Counts(h, commits, r) ==
    \E F \in SUBSET (commits \cap Of(r) \cap h.seen) : h.commits = Cardinality(F)

CountInv ==
    /\ \A r \in Repos : hist[r].seen \subseteq Of(r) /\ snap.hist[r].seen \subseteq Of(r)
    /\ \A r \in Repos : hist[r].covered => Counts(hist[r], rows, r)
    /\ \A r \in Repos : snap.hist[r].covered =>
           /\ Counts(snap.hist[r], snap.commits, r)
           /\ r \in adrift \/ ( snap.commits \cap Of(r) \subseteq snap.hist[r].seen =>
                  Within(snap.hist[r].seen, snap.hist[r].from) \ late \subseteq snap.commits )

CommitInv ==
    /\ HistoryTypeOK
    /\ rewinds = 0 => gone = {}
    /\ TableInv /\ ScanInv /\ CountInv

-----------------------------------------------------------------------------
(* Types.                                                                  *)

LEMMA CommitsAreNat ==
  /\ Commits \in SUBSET Nat /\ Dates \in SUBSET Nat
  /\ Overlap \in Nat /\ MaxFaults \in Nat /\ MaxRewinds \in Nat
  /\ \A repos : CommitsOf(repos) \subseteq Commits
  /\ \A S \in SUBSET Commits : Cardinality(S) \in Nat
<1>1. \A S \in SUBSET Commits : Cardinality(S) \in Nat
  BY CommitAssumption, FS_Subset, FS_CardinalityType
<1> QED
  BY <1>1, CommitAssumption, DateAssumption, LimitAssumption DEF Dates, CommitsOf

\* The newest of some commits is the last of them.
LEMMA NewestOf ==
  ASSUME NEW S \in SUBSET Commits
  PROVE  /\ Newest(S) \in Nat /\ Behind(Newest(S)) \in Nat
         /\ S # {} => Newest(S) \in S /\ \A c \in S : c <= Newest(S)
<1> DEFINE T == {0} \cup S
<1>1. T \in SUBSET Nat /\ T # {} /\ IsFiniteSet(T)
  <2>1. IsFiniteSet(S)
    BY CommitAssumption, FS_Subset
  <2>2. IsFiniteSet({0})
    BY FS_Singleton
  <2>3. IsFiniteSet(T)
    BY <2>1, <2>2, FS_Union
  <2>4. T \in SUBSET Nat
    BY CommitsAreNat
  <2> QED
    BY <2>3, <2>4
<1>2. Newest(S) = Max(T)
  BY DEF Newest
<1>3. Max(T) \in T /\ \A c \in T : c <= Max(T)
  <2> HIDE DEF T
  <2> QED
    BY <1>1, MaxOf
<1>4. Newest(S) \in Nat /\ Newest(S) \in T /\ \A c \in S : c <= Newest(S)
  BY <1>1, <1>2, <1>3
<1>5. Behind(Newest(S)) \in Nat
  BY <1>4, CommitsAreNat DEF Behind
<1>6. ASSUME S # {} PROVE Newest(S) # 0
  <2>1. PICK c \in S : TRUE
    BY <1>6
  <2>2. c \in Nat /\ c # 0 /\ c <= Newest(S)
    BY <1>4, CommitAssumption
  <2> QED
    BY <1>4, <2>2
<1> QED
  BY <1>4, <1>5, <1>6

LEMMA SinceType ==
  ASSUME HistoryTypeOK, NEW r \in Repos, NEW merge \in Commits
  PROVE  SinceOf(r, merge) \in Nat
<1>1. snap.commits \cap CommitsOf({r}) \in SUBSET Commits /\ merge \in Nat
  BY CommitsAreNat DEF HistoryTypeOK
<1> QED
  BY <1>1, NewestOf DEF SinceOf

LEMMA UpsertedType ==
  ASSUME NEW old \in Histories, NEW since \in Nat, NEW found \in SUBSET Commits,
         NEW seen \in SUBSET Commits
  PROVE  /\ Upserted(old, since, found, seen) \in Histories
         /\ Upserted(old, since, found, seen).covered
         /\ Upserted(old, since, found, seen).seen = seen
         /\ Upserted(old, since, found, seen).commits = Cardinality(found)
         /\ ~old.covered => Upserted(old, since, found, seen).from = since
         /\ old.covered => /\ Upserted(old, since, found, seen).from \in {old.from, since}
                           /\ Upserted(old, since, found, seen).from <= old.from
                           /\ Upserted(old, since, found, seen).from <= since
<1>1. old.from \in Nat /\ old.covered \in BOOLEAN
  BY DEF Histories
<1>2. /\ Min({old.from, since}) \in {old.from, since}
      /\ \A x \in {old.from, since} : Min({old.from, since}) <= x
  <2> DEFINE S == {old.from, since}
  <2>1. S \in SUBSET Nat /\ S # {}
    BY <1>1
  <2>2. Min(S) \in S /\ \A x \in S : Min(S) <= x
    <3> HIDE DEF S
    <3> QED
      BY <2>1, MinOf
  <2> QED
    BY <2>2
<1>3. Cardinality(found) \in Nat
  BY CommitsAreNat
<1>4. Min({old.from, since}) \in Nat
  BY <1>1, <1>2
<1> QED
  BY <1>1, <1>2, <1>3, <1>4 DEF Upserted, Histories

LEMMA InitHistory == Init => CommitInv
<1> SUFFICES ASSUME Init PROVE CommitInv
  OBVIOUS
<1>1. Uncovered \in Histories /\ ~Uncovered.covered
  BY DEF Uncovered, Histories
<1>2. Nothing \in Snapshots /\ Nothing.commits = {}
  BY <1>1 DEF Nothing, Snapshots
<1>3. Idle \in [pc : Steps, left : SUBSET Repos, since : [Repos -> Nat],
                found : SUBSET Commits, seen : SUBSET Commits] /\ Idle.pc = "idle"
  BY DEF Idle, Steps
<1>4. HistoryTypeOK
  <2>1. hist \in [Repos -> Histories] /\ earliest \in Dates
    BY <1>1 DEF Init, Dates
  <2>2. rewinds \in 0 .. MaxRewinds /\ faults \in 0 .. MaxFaults
    BY CommitsAreNat DEF Init
  <2> QED
    BY <1>2, <1>3, <2>1, <2>2 DEF Init, HistoryTypeOK
<1>5. TableInv /\ ScanInv /\ gone = {}
  BY <1>1, <1>2, <1>3 DEF Init, TableInv, ScanInv
<1>6. CountInv
  BY <1>1 DEF Init, CountInv, Nothing, Uncovered
<1> QED
  BY <1>4, <1>5, <1>6 DEF CommitInv

LEMMA NextType == HistoryTypeOK /\ [Next]_historyVars => HistoryTypeOK'
<1> SUFFICES ASSUME HistoryTypeOK, [Next]_historyVars PROVE HistoryTypeOK'
  OBVIOUS
<1> DEFINE Scans == [pc : Steps, left : SUBSET Repos, since : [Repos -> Nat],
                     found : SUBSET Commits, seen : SUBSET Commits]
<1> USE CommitsAreNat DEF branchVars, tableVars, limitVars
<1>1. Fault => faults' \in 0 .. MaxFaults
  BY DEF Fault, HistoryTypeOK
<1>2. Idle \in Scans /\ Idle.pc = "idle"
  BY DEF Idle, Steps
<1>3. scan \in Scans
  BY DEF HistoryTypeOK
<1>4. CASE UNCHANGED historyVars
  BY <1>4 DEF historyVars, HistoryTypeOK
<1>5. ASSUME NEW c \in Commits, Land(c) PROVE HistoryTypeOK'
  BY <1>5 DEF Land, HistoryTypeOK
<1>6. ASSUME NEW c \in Commits, Rewind(c) PROVE HistoryTypeOK'
  <2>1. rewinds' \in 0 .. MaxRewinds
    BY <1>6 DEF Rewind, HistoryTypeOK
  <2> QED
    BY <1>6, <2>1 DEF Rewind, HistoryTypeOK
<1>7. ASSUME NEW c \in Commits, MergeStored(c) PROVE HistoryTypeOK'
  BY <1>7 DEF MergeStored, HistoryTypeOK, Dates
<1>8. ASSUME NEW c \in Commits, BeginScan(c) PROVE HistoryTypeOK'
  <2>1. [r \in Repos |-> SinceOf(r, c)] \in [Repos -> Nat]
    BY SinceType
  <2>2. scan' \in Scans
    BY <1>8, <1>2, <2>1 DEF BeginScan, Steps
  <2>3. faults' \in 0 .. MaxFaults /\ adrift' \subseteq Repos
    BY <1>1, <1>8 DEF BeginScan, HistoryTypeOK
  <2> QED
    BY <1>8, <2>2, <2>3 DEF BeginScan, HistoryTypeOK
<1>9. ASSUME NEW r \in Repos, ReadHistory(r) PROVE HistoryTypeOK'
  <2>1. scan' \in Scans /\ scan'.pc = scan.pc
    BY <1>3, <1>9 DEF ReadHistory, HistoryTypeOK
  <2> QED
    BY <1>9, <2>1 DEF ReadHistory, HistoryTypeOK
<1>10. ASSUME NEW r \in Repos, SaveRows(r) PROVE HistoryTypeOK'
  <2>1. scan' \in Scans /\ scan.pc # "idle"
    BY <1>3, <1>10 DEF SaveRows, Steps
  <2>2. rows' \subseteq Commits
    BY <1>10 DEF SaveRows, Found, HistoryTypeOK
  <2> QED
    BY <1>10, <2>1, <2>2 DEF SaveRows, HistoryTypeOK
<1>11. ASSUME NEW r \in Repos, SaveHistory(r) PROVE HistoryTypeOK'
  <2>1. scan' \in Scans /\ scan.pc # "idle"
    BY <1>3, <1>11 DEF SaveHistory, Steps
  <2>2. /\ hist[r] \in Histories /\ scan.since[r] \in Nat /\ Found(r) \in SUBSET Commits
        /\ scan.seen \cap CommitsOf({r}) \in SUBSET Commits
    BY <1>3 DEF HistoryTypeOK, Found
  <2>3. hist' \in [Repos -> Histories]
    BY <1>11, <2>2, UpsertedType DEF SaveHistory, HistoryTypeOK
  <2> QED
    BY <1>11, <2>1, <2>3 DEF SaveHistory, HistoryTypeOK
<1>12. CASE AllRead
  <2>1. scan' \in Scans
    BY <1>3, <1>12 DEF AllRead, Steps
  <2> QED
    BY <1>12, <2>1 DEF AllRead, HistoryTypeOK
<1>13. CASE ReadFails
  BY <1>2, <1>13 DEF ReadFails, HistoryTypeOK, Snapshots
<1>14. CASE WriteFails
  <2>1. scan' \in Scans
    BY <1>3, <1>14 DEF WriteFails, Steps
  <2> QED
    BY <1>1, <1>14, <2>1 DEF WriteFails, HistoryTypeOK
<1>15. CASE LoadHistory
  BY <1>2, <1>15 DEF LoadHistory, Published, HistoryTypeOK, Snapshots
<1>16. CASE LoadFails
  <2> DEFINE coverage == [r \in Repos |->
           Upserted(Uncovered, scan.since[r], Found(r), scan.seen \cap CommitsOf({r}))]
  <2>1. Uncovered \in Histories
    BY DEF Uncovered, Histories
  <2>2. \A r \in Repos : /\ scan.since[r] \in Nat /\ Found(r) \in SUBSET Commits
                         /\ scan.seen \cap CommitsOf({r}) \in SUBSET Commits
    BY <1>3 DEF Found
  <2>3. coverage \in [Repos -> Histories]
    BY <2>1, <2>2, UpsertedType
  <2>4. scan' = Idle /\ UNCHANGED <<branchVars, tableVars, adrift, rewinds>>
        /\ snap' = [ok |-> TRUE, commits |-> scan.found, hist |-> coverage]
    BY <1>16 DEF LoadFails, Published, HistoryTypeOK
  <2> HIDE DEF coverage
  <2>5. snap' \in Snapshots
    BY <1>3, <2>3, <2>4 DEF Snapshots
  <2> QED
    BY <1>1, <1>2, <1>16, <2>4, <2>5 DEF LoadFails, HistoryTypeOK
<1>17. ASSUME NEW primed \in BOOLEAN, Restart(primed) PROVE HistoryTypeOK'
  <2>1. Nothing \in Snapshots
    BY DEF Nothing, Uncovered, Histories, Snapshots
  <2>2. snap' \in Snapshots
    BY <1>17, <2>1 DEF Restart, Snapshots, HistoryTypeOK
  <2> QED
    BY <1>1, <1>2, <1>17, <2>2 DEF Restart, HistoryTypeOK
<1>18. CASE NoMerge
  BY <1>1, <1>18 DEF NoMerge, HistoryTypeOK, Snapshots
<1> QED
  BY <1>4, <1>5, <1>6, <1>7, <1>8, <1>9, <1>10, <1>11, <1>12, <1>13, <1>14, <1>15, <1>16, <1>17,
     <1>18 DEF Next

-----------------------------------------------------------------------------
(* The steps.                                                              *)

LEMMA OfType ==
  /\ \A r \in Repos : Of(r) \in SUBSET Commits /\ Of(r) \in SUBSET Nat
  /\ \A c, d, r : c \in Of(r) /\ d \in Of(r) => RepoOf[c] = RepoOf[d]
BY CommitsAreNat DEF Of, CommitsOf

\* The branches: a commit that lands is late, or not far behind any of its branch.
LEMMA LandKeeps ==
  ASSUME HistoryTypeOK, TableInv, ScanInv, NEW c \in Commits, Land(c)
  PROVE  TableInv' /\ ScanInv'
<1> USE DEF branchVars, tableVars, limitVars
<1>1. /\ landed' = landed \cup {c} /\ c \notin landed \cup gone
      /\ late \subseteq late' /\ late' \subseteq late \cup {c}
      /\ UNCHANGED <<gone, earliest, rows, hist, scan, snap, adrift>>
  BY DEF Land
<1>2. \A r \in Repos : c \in Of(r) /\ c \notin late' => \A d \in landed \cap Of(r) : d <= c + Overlap
  <2> SUFFICES ASSUME NEW r \in Repos, c \in Of(r), c \notin late', NEW d \in landed \cap Of(r)
               PROVE  d <= c + Overlap
    OBVIOUS
  <2>1. RepoOf[d] = RepoOf[c] /\ d \in Nat /\ c \in Nat /\ Overlap \in Nat
    BY OfType, CommitsAreNat
  <2>2. ~Belated(c)
    BY DEF Land
  <2> QED
    BY <2>1, <2>2 DEF Belated
<1>3. c \notin rows /\ \A r \in Repos : Kept(r)' = Kept(r)
  BY <1>1 DEF TableInv, Kept, Of
<1>4. ASSUME NEW r \in Repos, Covers(r) PROVE Covers(r)'
  <2>1. Kept(r) => rows \cap Of(r) \subseteq landed \cap Of(r)
    BY DEF Kept
  <2> QED
    BY <1>1, <1>2, <1>3, <1>4, <2>1 DEF Covers, Of, Within
<1>5. TableInv'
  BY <1>1, <1>3, <1>4 DEF TableInv
<1>6. scan.pc # "idle" => c \notin scan.seen
  BY <1>1 DEF ScanInv
<1>7. ASSUME NEW r \in Repos, ReadInv(r), scan.pc # "idle" PROVE ReadInv(r)'
  <2>1. \A e \in (landed' \cap Of(r)) \ (scan.seen \cup late') :
            \A d \in scan.seen \cap Of(r) \cap landed' : d <= e + Overlap
    BY <1>1, <1>2, <1>6, <1>7 DEF ReadInv
  <2> QED
    BY <1>1, <1>3, <1>7, <2>1 DEF ReadInv, Of
<1>8. \A r \in Repos : /\ IsRead(r)' = IsRead(r) /\ IsNext(r)' = IsNext(r)
                       /\ Found(r)' = Found(r)
                       /\ TooFarOn(r, scan.since[r])' = TooFarOn(r, scan.since[r])
  BY <1>1 DEF IsRead, IsNext, Found, TooFarOn
<1>9. ScanInv'
  BY <1>1, <1>7, <1>8 DEF ScanInv, Of
<1> QED
  BY <1>5, <1>9

\* A commit that is taken off a branch does not land again: what is kept was kept.
LEMMA RewindKeeps ==
  ASSUME HistoryTypeOK, TableInv, ScanInv, NEW c \in Commits, Rewind(c)
  PROVE  TableInv' /\ ScanInv'
<1> USE DEF branchVars, tableVars, limitVars
<1>1. /\ landed' = landed \ {c} /\ gone' = gone \cup {c} /\ c \in landed
      /\ UNCHANGED <<earliest, late, rows, hist, scan, snap, adrift>>
  BY DEF Rewind
<1>2. landed' \cup gone' = landed \cup gone
  BY <1>1
<1>3. \A r \in Repos : Kept(r)' => Kept(r)
  BY <1>1 DEF Kept, Of
<1>4. ASSUME NEW r \in Repos, Covers(r) PROVE Covers(r)'
  BY <1>1, <1>3, <1>4 DEF Covers, Of, Within
<1>5. TableInv'
  BY <1>1, <1>2, <1>3, <1>4 DEF TableInv
<1>6. ASSUME NEW r \in Repos, ReadInv(r) PROVE ReadInv(r)'
  BY <1>1, <1>3, <1>6 DEF ReadInv, Of
<1>7. \A r \in Repos : /\ IsRead(r)' = IsRead(r) /\ IsNext(r)' = IsNext(r)
                       /\ Found(r)' = Found(r)
                       /\ TooFarOn(r, scan.since[r])' = TooFarOn(r, scan.since[r])
  BY <1>1 DEF IsRead, IsNext, Found, TooFarOn
<1>8. ScanInv'
  BY <1>1, <1>2, <1>6, <1>7 DEF ScanInv, Of
<1> QED
  BY <1>5, <1>8

LEMMA MergeKeeps ==
  ASSUME HistoryTypeOK, TableInv, ScanInv, NEW c \in Commits, MergeStored(c)
  PROVE  TableInv' /\ ScanInv'
<1> USE DEF branchVars, tableVars, limitVars
<1>1. scan.pc = "idle" /\ UNCHANGED <<landed, gone, late, rows, hist, scan, snap, adrift>>
  BY DEF MergeStored
<1>2. \A r \in Repos : Covers(r)' = Covers(r)
  BY <1>1 DEF Covers, Kept, Of, Within
<1>3. TableInv'
  BY <1>1, <1>2 DEF TableInv
<1> QED
  BY <1>1, <1>3 DEF ScanInv

\* A repository that is not adrift after a scan has begun is one of which the scan begins soon
\* enough.
LEMMA BeginKeeps ==
  ASSUME HistoryTypeOK, TableInv, NEW merge \in Commits, BeginScan(merge)
  PROVE  TableInv' /\ ScanInv'
<1> USE DEF branchVars, tableVars, limitVars
<1> DEFINE since == [r \in Repos |-> SinceOf(r, merge)]
<1>1. /\ scan.pc = "idle"
      /\ scan' = [pc |-> "reading", left |-> Repos, since |-> since, found |-> {}, seen |-> {}]
      /\ adrift' = adrift \cup {r \in Repos : TooFarOn(r, SinceOf(r, merge))}
      /\ UNCHANGED <<landed, gone, earliest, late, rows, hist, snap>>
  BY DEF BeginScan, Idle
<1>2. \A r \in Repos : Covers(r)' = Covers(r)
  BY <1>1 DEF Covers, Kept, Of, Within
<1>3. TableInv'
  BY <1>1, <1>2 DEF TableInv
<1>4. ASSUME NEW r \in Repos \ adrift' PROVE ~TooFarOn(r, scan.since[r])'
  <2>1. ~TooFarOn(r, SinceOf(r, merge))
    BY <1>1, <1>4
  <2>2. scan'.since[r] = SinceOf(r, merge)
    BY <1>1
  <2> QED
    BY <1>1, <2>1, <2>2 DEF TooFarOn
<1>5. \A r \in Repos : ~IsRead(r)'
  BY <1>1 DEF IsRead
<1>6. ScanInv'
  BY <1>1, <1>4, <1>5 DEF ScanInv, Of
<1> QED
  BY <1>3, <1>6

\* Where a scan goes on: what is before that and covered is stored, or landed late.
LEMMA SinceCovers ==
  ASSUME HistoryTypeOK, TableInv, NEW r \in Repos \ adrift, Kept(r),
         NEW since \in Nat, ~TooFarOn(r, since),
         NEW c \in (landed \cap Of(r)) \ late,
         c < since, hist[r].covered, hist[r].from <= c
  PROVE  c \in rows
<1> DEFINE stored == rows \cap Of(r)
           newest == Newest(stored)
<1> SUFFICES ASSUME c \notin rows PROVE FALSE
  OBVIOUS
<1>1. hist[r].from \in Nat /\ c \in Nat /\ Overlap \in Nat
  BY OfType, CommitsAreNat DEF HistoryTypeOK, Histories
<1>2. /\ newest \in Nat /\ (stored # {} => newest \in stored)
      /\ (stored = {} => newest = 0)
  <2>1. stored \in SUBSET Commits
    BY OfType
  <2>2. ASSUME stored = {} PROVE newest = 0
    <3>1. Max({0}) = 0
      <4>1. IsFiniteSet({0})
        BY FS_Singleton
      <4>2. {0} \in SUBSET Nat /\ {0} # {}
        OBVIOUS
      <4>3. Max({0}) \in {0}
        BY <4>1, <4>2, MaxOf
      <4> QED
        BY <4>3
    <3>2. {0} \cup stored = {0}
      BY <2>2
    <3> QED
      BY <3>1, <3>2 DEF Newest
  <2> HIDE DEF stored
  <2> QED
    BY <2>1, <2>2, NewestOf
<1>3. since <= Behind(newest)
  <2>1. ~(since > Behind(newest))
    BY <1>1 DEF TooFarOn, Of
  <2>2. Behind(newest) \in Nat
    BY <1>1, <1>2 DEF Behind
  <2> HIDE DEF newest
  <2> QED
    BY <2>1, <2>2
<1>4. \A d \in stored : d <= c + Overlap
  BY DEF TableInv, Covers
<1> HIDE DEF newest, stored
<1> QED
  BY <1>1, <1>2, <1>3, <1>4 DEF Behind

LEMMA ReadKeeps ==
  ASSUME HistoryTypeOK, TableInv, ScanInv, NEW r \in Repos, ReadHistory(r)
  PROVE  TableInv' /\ ScanInv'
<1> USE DEF branchVars, tableVars, limitVars
<1> DEFINE branch == landed \cap Of(r)
<1>1. /\ scan.pc = "reading" /\ scan'.pc = "reading" /\ r \in scan.left
      /\ scan'.left = scan.left \ {r} /\ scan'.since = scan.since
      /\ scan'.found = scan.found \cup {c \in branch : c >= scan.since[r]}
      /\ scan'.seen = scan.seen \cup branch
      /\ UNCHANGED <<landed, gone, earliest, late, rows, hist, snap, adrift>>
  BY DEF ReadHistory, IsNext, HistoryTypeOK, Of
<1>2. TableInv'
  <2>1. \A q \in Repos : Covers(q)' = Covers(q)
    BY <1>1 DEF Covers, Kept, Within, Of
  <2> QED
    BY <1>1, <2>1 DEF TableInv
<1>3. scan.found \subseteq scan.seen /\ scan.seen \subseteq landed \cup gone
  BY <1>1 DEF ScanInv
<1>4. \A q \in Repos : Kept(q)' = Kept(q)
  BY <1>1 DEF Kept, Of
<1>5. scan'.found \subseteq scan'.seen /\ scan'.seen \subseteq landed \cup gone
  BY <1>1, <1>3
<1>6. ASSUME r \notin adrift PROVE ReadInv(r)'
  <2>1. scan.since[r] \in Nat /\ ~TooFarOn(r, scan.since[r])
    BY <1>1, <1>6 DEF HistoryTypeOK, ScanInv
  <2>2. branch \in SUBSET Nat /\ (Kept(r) => rows \cap Of(r) \subseteq branch)
    BY OfType DEF Kept
  <2>3. scan.seen \cap Of(r) = {}
    BY <1>1 DEF ScanInv, IsRead
  <2>4. scan'.seen \cap Of(r) = branch
    BY <1>1, <2>3
  <2>5. \A c \in branch : scan.since[r] <= c => c \in scan'.found
    BY <1>1, <2>1, <2>2
  <2>6. ASSUME rows \cap Of(r) \subseteq branch
        PROVE  \A c \in branch \ late :
                   c < scan.since[r] /\ hist[r].covered /\ hist[r].from <= c => c \in rows
    <3>1. Kept(r)
      BY <2>6 DEF Kept
    <3> QED
      BY <1>6, <2>1, <3>1, SinceCovers
  <2> QED
    BY <1>1, <1>4, <2>2, <2>4, <2>5, <2>6 DEF ReadInv, Of
<1>7. ASSUME NEW q \in Repos, q # r, ReadInv(q) PROVE ReadInv(q)'
  <2>1. Of(q) \cap branch = {}
    BY <1>7 DEF Of, CommitsOf
  <2>2. scan'.found \cap Of(q) = scan.found \cap Of(q) /\ scan'.seen \cap Of(q) = scan.seen \cap Of(q)
    BY <1>1, <2>1
  <2> HIDE DEF branch
  <2>3. \A S \in SUBSET Of(q) : S \subseteq scan'.seen <=> S \subseteq scan.seen
    BY <2>2
  <2> QED
    BY <1>1, <1>4, <1>7, <2>2, <2>3 DEF ReadInv, Of
<1>8. \A q \in Repos : IsRead(q)' <=> q = r \/ IsRead(q)
  BY <1>1 DEF IsRead
<1>9. ASSUME NEW q \in Repos, ~IsRead(q)' PROVE scan'.seen \cap Of(q) = {}
  <2>1. Of(q) \cap branch = {} /\ scan.seen \cap Of(q) = {}
    BY <1>1, <1>8, <1>9 DEF Of, CommitsOf, ScanInv
  <2> QED
    BY <1>1, <2>1
<1>10. \A q \in Repos : /\ Of(q)' = Of(q)
                        /\ TooFarOn(q, scan.since[q])' = TooFarOn(q, scan.since[q])
  BY <1>1 DEF Of, TooFarOn
<1>11. ScanInv'
  BY <1>1, <1>3, <1>4, <1>5, <1>6, <1>7, <1>8, <1>9, <1>10 DEF ScanInv
<1> QED
  BY <1>2, <1>11

\* The rows: what is added to the table was read, and what was read and is missing lies before
\* the scan.
LEMMA SaveRowsKeeps ==
  ASSUME HistoryTypeOK, TableInv, ScanInv, NEW r \in Repos, SaveRows(r)
  PROVE  TableInv' /\ ScanInv'
<1> USE DEF branchVars, tableVars, limitVars
<1>1. /\ scan.pc = "rows" /\ scan'.pc = "history" /\ rows' = rows \cup Found(r)
      /\ scan'.since = scan.since /\ scan'.found = scan.found /\ scan'.seen = scan.seen
      /\ scan'.left = scan.left /\ IsNext(r)
      /\ UNCHANGED <<landed, gone, earliest, late, hist, snap, adrift>>
  BY DEF SaveRows, HistoryTypeOK
<1>2. /\ scan.found \subseteq scan.seen /\ scan.seen \subseteq landed \cup gone
      /\ \A q \in Repos \ adrift : ReadInv(q)
  BY <1>1 DEF ScanInv, IsRead
<1>3. Found(r) \subseteq scan.seen /\ \A q \in Repos : Kept(q)' => Kept(q)
  BY <1>1, <1>2 DEF Found, Kept, Of
<1>4. \A q \in Repos : rows' \cap Of(q) \subseteq scan.seen <=> rows \cap Of(q) \subseteq scan.seen
  BY <1>1, <1>3
<1>5. ASSUME NEW q \in Repos \ adrift PROVE ReadInv(q)'
  <2>1. ReadInv(q)
    BY <1>2, <1>5
  <2> QED
    BY <1>1, <1>3, <1>4, <2>1 DEF ReadInv, Of
<1>6. ASSUME NEW q \in Repos \ adrift, hist[q].covered, Kept(q)'
      PROVE  \A c \in (landed \cap Of(q)) \ (rows' \cup late) :
                 hist[q].from <= c => \A d \in rows' \cap Of(q) : d <= c + Overlap
  <2> SUFFICES ASSUME NEW c \in (landed \cap Of(q)) \ (rows' \cup late), hist[q].from <= c,
                      NEW d \in rows' \cap Of(q)
               PROVE  d <= c + Overlap
    OBVIOUS
  <2>1. Kept(q) /\ ReadInv(q) /\ Covers(q) /\ rows \cap Of(q) \subseteq scan.seen
    BY <1>2, <1>3, <1>6 DEF ReadInv, TableInv
  <2>2. d \in landed /\ d \in scan.seen /\ c \in Nat /\ scan.since[q] \in Nat /\ c \notin rows
    BY <1>1, <1>4, <1>6, <2>1, OfType DEF HistoryTypeOK, Kept, Of
  <2>3. CASE c \notin scan.seen
    BY <2>1, <2>2, <2>3 DEF ReadInv
  <2>4. CASE c \in scan.seen
    <3>1. scan.since[q] <= c
      BY <1>6, <2>1, <2>2, <2>4 DEF ReadInv
    <3>2. c \in scan.found
      BY <2>1, <2>4, <3>1 DEF ReadInv
    <3>3. q # r
      BY <1>1, <3>2 DEF Found, Of
    <3>4. d \in rows
      BY <1>1, <3>3 DEF Found, Of, CommitsOf
    <3> QED
      BY <2>1, <2>2, <3>4 DEF Covers
  <2> QED
    BY <2>3, <2>4
<1>7. ASSUME NEW q \in Repos \ adrift, hist[q].covered PROVE Covers(q)'
  <2>1. Covers(q) /\ rows \subseteq rows'
    BY <1>1, <1>7 DEF TableInv
  <2> QED
    BY <1>1, <1>3, <1>6, <1>7, <2>1 DEF Covers, Of, Within
<1>8. TableInv'
  <2>1. rows' \subseteq landed \cup gone
    BY <1>1, <1>2, <1>3 DEF TableInv
  <2> QED
    BY <1>1, <1>7, <2>1 DEF TableInv
<1>9. \A q \in Repos : IsNext(q)' = IsNext(q) /\ Found(q)' = Found(q)
  BY <1>1 DEF IsNext, Found
<1>10. \A q \in Repos : IsNext(q) => q = r
  BY <1>1 DEF IsNext
<1>11. ScanInv'
  BY <1>1, <1>2, <1>5, <1>9, <1>10 DEF ScanInv, IsRead
<1> QED
  BY <1>8, <1>11

\* The coverage: what it is moved back over has just been stored.
LEMMA SaveHistoryKeeps ==
  ASSUME HistoryTypeOK, TableInv, ScanInv, NEW r \in Repos, SaveHistory(r)
  PROVE  TableInv' /\ ScanInv'
<1> USE DEF branchVars, tableVars, limitVars
<1> DEFINE new == Upserted(hist[r], scan.since[r], Found(r), scan.seen \cap Of(r))
<1>1. /\ scan.pc = "history" /\ scan'.pc \in {"rows", "loading"} /\ IsNext(r)
      /\ scan'.since = scan.since /\ scan'.found = scan.found /\ scan'.seen = scan.seen
      /\ hist' = [hist EXCEPT ![r] = new]
      /\ UNCHANGED <<landed, gone, earliest, late, rows, snap, adrift>>
  BY DEF SaveHistory, HistoryTypeOK, Of
<1>2. /\ scan.found \subseteq scan.seen /\ scan.seen \subseteq landed \cup gone
      /\ \A q \in Repos \ adrift : ReadInv(q)
      /\ Found(r) \subseteq rows
  BY <1>1 DEF ScanInv, IsRead
<1>3. /\ hist[r] \in Histories /\ scan.since[r] \in Nat /\ Found(r) \in SUBSET Commits
      /\ scan.seen \cap Of(r) \in SUBSET Commits
      /\ hist[r].from \in Nat
  BY OfType, CommitsAreNat DEF HistoryTypeOK, Found, Histories
<1>4. hist' = [q \in Repos |-> IF q = r THEN new ELSE hist[q]] /\ hist'[r] = new
  BY <1>1 DEF HistoryTypeOK
<1>5. /\ new.covered /\ new.seen = scan.seen \cap Of(r) /\ new.from \in Nat
      /\ ~hist[r].covered => new.from = scan.since[r]
      /\ hist[r].covered => new.from \in {hist[r].from, scan.since[r]}
  <2>1. /\ new \in Histories /\ new.covered /\ new.seen = scan.seen \cap Of(r)
        /\ ~hist[r].covered => new.from = scan.since[r]
        /\ hist[r].covered => new.from \in {hist[r].from, scan.since[r]}
    <3> DEFINE old == hist[r]
               since == scan.since[r]
               found == Found(r)
               seen == scan.seen \cap Of(r)
    <3>1. old \in Histories /\ since \in Nat /\ found \in SUBSET Commits /\ seen \in SUBSET Commits
      BY <1>3
    <3> HIDE DEF old, since, found, seen
    <3>2. /\ Upserted(old, since, found, seen) \in Histories
          /\ Upserted(old, since, found, seen).covered
          /\ Upserted(old, since, found, seen).seen = seen
          /\ ~old.covered => Upserted(old, since, found, seen).from = since
          /\ old.covered => Upserted(old, since, found, seen).from \in {old.from, since}
      BY <3>1, UpsertedType
    <3> QED
      BY <3>2 DEF old, since, found, seen
  <2> HIDE DEF new
  <2> QED
    BY <2>1 DEF Histories
<1> HIDE DEF new
\* Whatever is covered now has been read into the table, or was covered before and stored.
<1>6. ASSUME r \notin adrift, rows \cap Of(r) \subseteq scan.seen
      PROVE  \A c \in (scan.seen \cap Of(r)) \ late : new.from <= c => c \in rows
  <2> SUFFICES ASSUME NEW c \in (scan.seen \cap Of(r)) \ late, new.from <= c PROVE c \in rows
    OBVIOUS
  <2>1. c \in Nat /\ ReadInv(r)
    BY <1>2, <1>6, OfType
  <2>2. CASE scan.since[r] <= c
    BY <1>2, <2>1, <2>2 DEF ReadInv, Found, Of
  <2>3. CASE c < scan.since[r]
    <3>1. hist[r].covered /\ hist[r].from <= c
      BY <1>3, <1>5, <2>1, <2>3
    <3> QED
      BY <1>6, <2>1, <2>3, <3>1 DEF ReadInv
  <2> QED
    BY <1>3, <2>1, <2>2, <2>3
<1>7. r \notin adrift => (Kept(r) => rows \cap Of(r) \subseteq scan.seen)
  BY <1>2 DEF ReadInv
<1>8. ASSUME r \notin adrift, Kept(r), NEW c \in (landed \cap Of(r)) \ (rows \cup late),
             new.from <= c, NEW d \in rows \cap Of(r)
      PROVE  d <= c + Overlap
  <2>1. c \notin scan.seen /\ d \in scan.seen /\ d \in landed
    BY <1>6, <1>7, <1>8 DEF Kept
  <2> QED
    BY <1>2, <1>8, <2>1 DEF ReadInv
<1>9. \A q \in Repos : Kept(q)' = Kept(q)
  BY <1>1 DEF Kept, Of
<1>10. ASSUME r \notin adrift PROVE Covers(r)'
  <2>1. Kept(r) \/ rows \cap Of(r) \subseteq new.seen =>
            Within(new.seen, new.from) \ late \subseteq rows
    BY <1>5, <1>6, <1>7, <1>10 DEF Within
  <2> QED
    BY <1>1, <1>4, <1>8, <1>9, <1>10, <2>1 DEF Covers, Within, Of
<1>11. ASSUME NEW q \in Repos, q # r, Covers(q) PROVE Covers(q)'
  <2>1. hist'[q] = hist[q]
    BY <1>4, <1>11
  <2>2. UNCHANGED <<landed, late, rows>>
    BY <1>1
  <2> QED
    BY <1>9, <1>11, <2>1, <2>2 DEF Covers, Within, Of
<1>12. TableInv'
  <2>1. ASSUME NEW q \in Repos \ adrift, hist'[q].covered PROVE Covers(q)'
    <3>1. CASE q = r
      BY <1>10, <2>1, <3>1
    <3>2. CASE q # r
      BY <1>4, <1>11, <2>1, <3>2 DEF TableInv
    <3> QED
      BY <3>1, <3>2
  <2> QED
    BY <1>1, <2>1 DEF TableInv
<1>13. \A q \in Repos \ adrift : ReadInv(q)'
  <2>1. ASSUME r \notin adrift PROVE ReadInv(r)'
    <3>1. ReadInv(r) /\ hist'[r].from = new.from
      BY <1>2, <1>4, <2>1
    <3> QED
      BY <1>1, <1>6, <1>9, <2>1, <3>1 DEF ReadInv, Of
  <2>2. ASSUME NEW q \in Repos \ adrift, q # r PROVE ReadInv(q)'
    <3>1. hist'[q] = hist[q] /\ ReadInv(q)
      BY <1>2, <1>4, <2>2
    <3>2. UNCHANGED <<rows, landed, late>> /\ scan'.seen = scan.seen /\ scan'.found = scan.found
          /\ scan'.since = scan.since
      BY <1>1
    <3> QED
      BY <1>9, <3>1, <3>2 DEF ReadInv, Of
  <2> QED
    BY <2>1, <2>2
<1>14. \A q \in Repos : IsRead(q)'
  BY <1>1 DEF IsRead
<1>15. ScanInv'
  BY <1>1, <1>2, <1>13, <1>14 DEF ScanInv
<1> QED
  BY <1>12, <1>15

\* The end of a scan, or that there is none.
LEMMA EndKeeps ==
  ASSUME TableInv,
         NoMerge \/ ReadFails \/ LoadHistory \/ LoadFails \/ \E primed \in BOOLEAN : Restart(primed)
  PROVE  TableInv' /\ ScanInv'
<1> USE DEF branchVars, tableVars, limitVars
<1>1. scan'.pc = "idle" /\ UNCHANGED <<landed, gone, late, rows, hist, adrift>>
  BY DEF NoMerge, ReadFails, LoadHistory, LoadFails, Restart, Published, Idle
<1>2. \A r \in Repos : Covers(r)' = Covers(r)
  BY <1>1 DEF Kept, Covers, Within, Of
<1>3. TableInv'
  BY <1>1, <1>2 DEF TableInv
<1>4. ScanInv'
  BY <1>1 DEF ScanInv
<1> QED
  BY <1>3, <1>4

\* Steps that read and write nothing.
LEMMA StepKeeps ==
  ASSUME HistoryTypeOK, TableInv, ScanInv, AllRead \/ WriteFails
  PROVE  TableInv' /\ ScanInv'
<1> USE DEF branchVars, tableVars, limitVars
<1>1. /\ UNCHANGED <<landed, gone, earliest, late, rows, hist, snap, adrift>>
      /\ scan'.since = scan.since /\ scan'.found = scan.found /\ scan'.seen = scan.seen
      /\ scan'.pc \in {"rows", "loading"} /\ scan.pc # "idle"
      /\ \A r \in Repos : IsRead(r) /\ IsRead(r)'
  BY DEF AllRead, WriteFails, HistoryTypeOK, IsRead
<1>2. \A r \in Repos : Kept(r)' = Kept(r) /\ Covers(r)' = Covers(r)
  BY <1>1 DEF Kept, Covers, Within, Of
<1>3. TableInv'
  BY <1>1, <1>2 DEF TableInv
<1>4. \A r \in Repos : ReadInv(r)' = ReadInv(r)
  BY <1>1, <1>2 DEF ReadInv, Of
<1>5. ScanInv'
  BY <1>1, <1>4 DEF ScanInv
<1> QED
  BY <1>3, <1>5

\* What is late or adrift stays so, and no forced push is forgotten.
LEMMA LimitsKeep ==
  ASSUME HistoryTypeOK, [Next]_historyVars
  PROVE  /\ late \subseteq late' /\ adrift \subseteq adrift'
         /\ rewinds' = 0 => rewinds = 0 /\ UNCHANGED gone
<1> USE DEF branchVars, tableVars, limitVars
<1>1. rewinds \in Nat
  BY CommitsAreNat DEF HistoryTypeOK
<1>2. CASE UNCHANGED historyVars
  BY <1>2 DEF historyVars
<1>3. ASSUME NEW c \in Commits, Rewind(c) PROVE rewinds' # 0 /\ UNCHANGED <<late, adrift>>
  BY <1>1, <1>3 DEF Rewind
<1>4. ASSUME NEW c \in Commits, Land(c) \/ MergeStored(c) \/ BeginScan(c)
      PROVE  late \subseteq late' /\ adrift \subseteq adrift' /\ UNCHANGED <<gone, rewinds>>
  BY <1>4 DEF Land, MergeStored, BeginScan
<1>5. CASE NoMerge \/ AllRead \/ ReadFails \/ WriteFails \/ LoadHistory \/ LoadFails
  BY <1>5 DEF NoMerge, AllRead, ReadFails, WriteFails, LoadHistory, LoadFails
<1>6. ASSUME NEW r \in Repos, ReadHistory(r) \/ SaveRows(r) \/ SaveHistory(r)
      PROVE  UNCHANGED <<gone, late, adrift, rewinds>>
  BY <1>6 DEF ReadHistory, SaveRows, SaveHistory
<1>7. CASE \E primed \in BOOLEAN : Restart(primed)
  BY <1>7 DEF Restart
<1> QED
  BY <1>2, <1>3, <1>4, <1>5, <1>6, <1>7 DEF Next

\* The counts: the rows that a count is of are stored before it is, and are shown with it.
LEMMA CountKeeps ==
  ASSUME HistoryTypeOK, TableInv, ScanInv, CountInv, Next
  PROVE  CountInv'
<1> USE DEF branchVars, tableVars, limitVars
<1> DEFINE Table(r) == /\ hist[r].seen \subseteq Of(r)
                       /\ hist[r].covered => Counts(hist[r], rows, r)
           Shows(h, commits, r) ==
               /\ h.seen \subseteq Of(r)
               /\ h.covered =>
                      /\ Counts(h, commits, r)
                      /\ r \in adrift \/ ( commits \cap Of(r) \subseteq h.seen =>
                                               Within(h.seen, h.from) \ late \subseteq commits )
           Shown(r) == Shows(snap.hist[r], snap.commits, r)
<1>1. \A r \in Repos : Table(r) /\ Shown(r)
  BY DEF CountInv
<1>2. ASSUME \A r \in Repos : Table(r)' /\ Shown(r)' PROVE CountInv'
  BY <1>2 DEF CountInv, Counts, Within, Of
<1> SUFFICES \A r \in Repos : Table(r)' /\ Shown(r)'
  BY <1>2
<1>3. ASSUME UNCHANGED <<rows, hist>> PROVE \A r \in Repos : Table(r)'
  BY <1>1, <1>3 DEF Counts, Of
<1>4. ASSUME snap'.commits = snap.commits, snap'.hist = snap.hist PROVE \A r \in Repos : Shown(r)'
  <2>1. late \subseteq late' /\ adrift \subseteq adrift'
    BY LimitsKeep
  <2> QED
    BY <1>1, <1>4, <2>1 DEF Counts, Within, Of
<1>5. CASE \E c \in Commits : Land(c) \/ Rewind(c) \/ MergeStored(c) \/ BeginScan(c)
  BY <1>3, <1>4, <1>5 DEF Land, Rewind, MergeStored, BeginScan
<1>6. CASE AllRead \/ WriteFails \/ \E r \in Repos : ReadHistory(r)
  BY <1>3, <1>4, <1>6 DEF AllRead, WriteFails, ReadHistory
<1>7. CASE NoMerge \/ ReadFails
  <2>1. snap'.commits = snap.commits /\ snap'.hist = snap.hist
    BY <1>7 DEF NoMerge, ReadFails, HistoryTypeOK, Snapshots
  <2> QED
    BY <1>3, <1>4, <1>7, <2>1 DEF NoMerge, ReadFails
<1>8. ASSUME NEW r \in Repos, SaveRows(r)
      PROVE  \A q \in Repos : Table(q)' /\ Shown(q)'
  <2>1. rows \subseteq rows' /\ UNCHANGED <<hist, snap>>
    BY <1>8 DEF SaveRows
  <2>2. \A q \in Repos : Counts(hist[q], rows, q) => Counts(hist[q], rows', q)
    BY <2>1 DEF Counts
  <2>3. \A q \in Repos : Table(q)'
    BY <1>1, <2>1, <2>2 DEF Counts, Of
  <2> QED
    BY <1>4, <2>1, <2>3
<1>9. ASSUME NEW r \in Repos, SaveHistory(r)
      PROVE  \A q \in Repos : Table(q)' /\ Shown(q)'
  <2> DEFINE new == Upserted(hist[r], scan.since[r], Found(r), scan.seen \cap Of(r))
  <2>1. /\ hist' = [hist EXCEPT ![r] = new] /\ UNCHANGED <<rows, snap>>
        /\ scan.pc = "history" /\ IsNext(r)
    BY <1>9 DEF SaveHistory, Of
  <2>2. new.seen = scan.seen \cap Of(r) /\ new.commits = Cardinality(Found(r))
    BY DEF Upserted
  <2>3. Found(r) \subseteq rows \cap Of(r) \cap new.seen
    BY <2>1, <2>2 DEF ScanInv, Found, Of
  <2> HIDE DEF new
  <2>4. Counts(new, rows, r)
    BY <2>2, <2>3 DEF Counts
  <2>5. hist'[r] = new /\ \A q \in Repos \ {r} : hist'[q] = hist[q]
    BY <2>1 DEF HistoryTypeOK
  <2>6. \A q \in Repos : /\ hist'[q].seen \subseteq Of(q)
                         /\ hist'[q].covered => Counts(hist'[q], rows, q)
    BY <1>1, <2>2, <2>4, <2>5
  <2>7. \A q \in Repos : Table(q)'
    BY <2>1, <2>6 DEF Counts, Of
  <2> QED
    BY <1>4, <2>1, <2>7
<1>10. ASSUME snap'.commits = rows, snap'.hist = hist, UNCHANGED <<rows, hist, late, adrift>>
       PROVE  \A r \in Repos : Table(r)' /\ Shown(r)'
  <2>1. \A r \in Repos : Shows(hist[r], rows, r)
    BY <1>1 DEF TableInv, Covers
  <2> QED
    BY <1>3, <1>10, <2>1 DEF Counts, Within, Of
<1>11. CASE LoadHistory
  BY <1>10, <1>11 DEF LoadHistory, Published
<1>12. ASSUME NEW primed \in BOOLEAN, Restart(primed)
       PROVE  \A r \in Repos : Table(r)' /\ Shown(r)'
  <2>1. CASE primed
    BY <1>10, <1>12, <2>1 DEF Restart
  <2>2. CASE ~primed
    <3>1. \A r \in Repos : ~snap'.hist[r].covered /\ snap'.hist[r].seen = {}
      BY <1>12, <2>2 DEF Restart, Nothing, Uncovered
    <3> QED
      BY <1>3, <1>12, <3>1 DEF Restart
  <2> QED
    BY <2>1, <2>2
<1>13. CASE LoadFails
  <2> DEFINE of(r) == Upserted(Uncovered, scan.since[r], Found(r), scan.seen \cap Of(r))
  <2>1. /\ scan.pc = "loading" /\ UNCHANGED <<rows, hist, late, adrift>>
        /\ snap'.commits = scan.found /\ snap'.hist = [r \in Repos |-> of(r)]
    BY <1>13 DEF LoadFails, Published, Of
  <2>2. ASSUME NEW r \in Repos
        PROVE  Shows(of(r), scan.found, r)
    <3>1. /\ of(r).seen = scan.seen \cap Of(r) /\ of(r).commits = Cardinality(Found(r))
          /\ of(r).from = scan.since[r]
      BY DEF Upserted, Uncovered
    <3>2. scan.found \subseteq scan.seen /\ (r \in adrift \/ ReadInv(r))
      BY <2>1 DEF ScanInv, IsRead
    <3> HIDE DEF of
    <3>3. Found(r) \subseteq scan.found \cap Of(r) \cap of(r).seen
      BY <3>1, <3>2 DEF Found, Of
    <3>4. r \in adrift \/ Within(of(r).seen, of(r).from) \subseteq scan.found
      BY <3>1, <3>2 DEF Within, ReadInv
    <3> QED
      BY <3>1, <3>3, <3>4 DEF Counts
  <2> HIDE DEF of
  <2>3. \A r \in Repos : snap'.hist[r] = of(r)
    BY <2>1
  <2> HIDE DEF Shows
  <2>4. \A r \in Repos : Shows(snap'.hist[r], snap'.commits, r)
    BY <2>1, <2>2, <2>3
  <2> USE DEF Shows
  <2>5. \A r \in Repos : Shown(r)'
    BY <2>1, <2>4 DEF Counts, Within, Of
  <2> QED
    BY <1>3, <2>1, <2>5
<1> QED
  BY <1>5, <1>6, <1>7, <1>8, <1>9, <1>11, <1>12, <1>13 DEF Next

LEMMA NextCommits == CommitInv /\ [Next]_historyVars => CommitInv'
<1> SUFFICES ASSUME CommitInv, [Next]_historyVars PROVE CommitInv'
  OBVIOUS
<1> USE DEF branchVars, tableVars, limitVars
<1>1. HistoryTypeOK /\ HistoryTypeOK' /\ TableInv /\ ScanInv /\ CountInv
  BY NextType DEF CommitInv
<1>2. rewinds' = 0 => gone' = {}
  BY <1>1, LimitsKeep DEF CommitInv
<1>3. CASE UNCHANGED historyVars
  <2>1. \A r \in Repos : Covers(r)' = Covers(r) /\ ReadInv(r)' = ReadInv(r)
    BY <1>3 DEF historyVars, Covers, ReadInv, Kept, Within, Of
  <2>2. \A r \in Repos : /\ IsRead(r)' = IsRead(r) /\ IsNext(r)' = IsNext(r)
                         /\ TooFarOn(r, scan.since[r])' = TooFarOn(r, scan.since[r])
    BY <1>3 DEF historyVars, IsRead, IsNext, TooFarOn
  <2>3. TableInv' /\ ScanInv'
    BY <1>1, <1>3, <2>1, <2>2 DEF historyVars, TableInv, ScanInv, Found, Of
  <2>4. CountInv'
    BY <1>1, <1>3 DEF historyVars, CountInv, Counts, Within, Of
  <2> QED
    BY <1>1, <1>2, <2>3, <2>4 DEF CommitInv
<1>4. CASE Next
  <2>1. CountInv'
    BY <1>1, <1>4, CountKeeps
  <2>2. TableInv' /\ ScanInv'
    BY <1>1, <1>4, LandKeeps, RewindKeeps, MergeKeeps, BeginKeeps, ReadKeeps,
       SaveRowsKeeps, SaveHistoryKeeps, EndKeeps, StepKeeps DEF Next
  <2> QED
    BY <1>1, <1>2, <2>1, <2>2 DEF CommitInv
<1> QED
  BY <1>3, <1>4

\* If the counts of the branches add up to the number of the commits, those of each branch are
\* commits that the branch had when it was counted.
LEMMA EachIsCounted ==
  ASSUME snap.commits \in SUBSET Commits, AllCounted,
         \A r \in Repos : Counts(snap.hist[r], snap.commits, r)
  PROVE  \A r \in Repos : snap.commits \cap Of(r) \subseteq snap.hist[r].seen
<1> DEFINE commits == snap.commits
           Is(r, S) == /\ S \in SUBSET (commits \cap Of(r) \cap snap.hist[r].seen)
                       /\ snap.hist[r].commits = Cardinality(S)
           F == [r \in Repos |-> CHOOSE S : Is(r, S)]
           all == UNION {F[r] : r \in Repos}
<1>1. \A r \in Repos : Is(r, F[r])
  BY DEF Counts
<1> HIDE DEF F
<1>2. \A r \in Repos : /\ F[r] \subseteq commits \cap Of(r) \cap snap.hist[r].seen
                      /\ snap.hist[r].commits = Cardinality(F[r])
  BY <1>1
<1>3. \A r, q \in Repos : r # q => Of(r) \cap Of(q) = {}
  BY CommitAssumption DEF Of, CommitsOf
<1>4. \A r, q \in Repos : r # q => F[r] \cap F[q] = {}
  BY <1>2, <1>3
<1>5. F \in [Repos -> SUBSET Commits]
  BY <1>2 DEF F
<1>6. Total = Cardinality(all)
  <2>1. \A r \in Repos : snap.hist[r].commits = Cardinality(F[r])
    BY <1>2
  <2> QED
    BY <1>4, <1>5, <2>1, CountIsSize
<1>7. all \subseteq commits
  BY <1>2
<1>8. IsFiniteSet(commits)
  BY FS_Subset, CommitAssumption
<1> HIDE DEF all
<1>9. all = commits
  BY <1>6, <1>7, <1>8, FS_Subset DEF AllCounted
<1> QED
  BY <1>2, <1>3, <1>9 DEF all

-----------------------------------------------------------------------------
(* Theorems.                                                               *)

\* The variables have their types, whatever lands, fails or is pushed over, and whether or not
\* the cache was primed.
THEOREM TypeCorrect == Spec => []HistoryTypeOK
<1>1. Init => HistoryTypeOK
  BY InitHistory DEF CommitInv
<1>2. HistoryTypeOK /\ [Next]_historyVars => HistoryTypeOK'
  BY NextType
<1> QED
  BY <1>1, <1>2, PTL DEF Spec

\* Incremental scans leave out nothing that the coverage says is stored but what landed dated more
\* than the overlap behind its branch, for any branches, merges, failed statements and restarts,
\* of all repositories of which no scan began further on than what is stored calls for
\* (stats-service.ts:514, "The overlap is not paranoia").
THEOREM NothingCoveredIsLost == Spec => []CoveredIsStored
<1>1. Init => CommitInv
  BY InitHistory
<1>2. CommitInv /\ [Next]_historyVars => CommitInv'
  BY NextCommits
<1>3. CommitInv => CoveredIsStored
  <2> SUFFICES ASSUME CommitInv, rewinds = 0, NEW r \in Repos \ adrift, hist[r].covered
               PROVE  Within(hist[r].seen, hist[r].from) \ late \subseteq rows
    BY DEF CoveredIsStored
  <2>1. TableInv /\ gone = {}
    BY DEF CommitInv
  <2>2. Kept(r)
    BY <2>1 DEF TableInv, Kept
  <2> QED
    BY <2>1, <2>2 DEF TableInv, Covers
<1> QED
  BY <1>1, <1>2, <1>3, PTL DEF Spec

\* A range that is answered is answered from commits that the branches had when they were last
\* scanned, and from all of them but those that landed late and those of repositories of which a
\* scan began too far on, for any branches, dates, forced pushes, failed statements and restarts,
\* primed or not: as many commits are stored as were counted only if the stored ones are those
\* that were counted (stats-service.ts revertForRange, "a ratio over an unknown subset").
THEOREM RangesAreExact == Spec => []RangeIsExact
<1>1. Init => CommitInv
  BY InitHistory
<1>2. CommitInv /\ [Next]_historyVars => CommitInv'
  BY NextCommits
<1>3. CommitInv => RangeIsExact
  <2> SUFFICES ASSUME CommitInv, NEW date \in Commits, Answered(date)
               PROVE  /\ Within(snap.commits, date) \subseteq Seen
                      /\ Within(Seen, date) \ (late \cup CommitsOf(adrift)) \subseteq snap.commits
    BY DEF RangeIsExact
  <2>1. /\ snap.commits \in SUBSET Commits /\ date \in Nat /\ Commits \subseteq Nat
        /\ \A r \in Repos : snap.hist[r].from \in Nat /\ snap.hist[r].seen \in SUBSET Commits
    BY CommitsAreNat DEF CommitInv, HistoryTypeOK, Snapshots, Histories
  <2>2. \A r \in Repos :
            /\ snap.hist[r].from <= date
            /\ Counts(snap.hist[r], snap.commits, r)
            /\ r \in adrift \/ ( snap.commits \cap Of(r) \subseteq snap.hist[r].seen =>
                   Within(snap.hist[r].seen, snap.hist[r].from) \ late \subseteq snap.commits )
    BY DEF CommitInv, CountInv, Answered
  <2>3. /\ \A c \in Commits : RepoOf[c] \in Repos /\ c \in Of(RepoOf[c])
        /\ \A c \in Commits \ CommitsOf(adrift) : RepoOf[c] \notin adrift
    BY CommitAssumption DEF Of, CommitsOf
  <2>4. \A r \in Repos : snap.commits \cap Of(r) \subseteq snap.hist[r].seen
    BY <2>1, <2>2, EachIsCounted DEF Answered
  <2>5. snap.commits \subseteq Seen
    BY <2>1, <2>3, <2>4 DEF Seen
  <2>6. ASSUME NEW c \in Seen \ (late \cup CommitsOf(adrift)), date <= c
        PROVE  c \in snap.commits
    <3>1. PICK r \in Repos : c \in snap.hist[r].seen
      BY DEF Seen
    <3>2. c \in Commits /\ c \in Nat /\ snap.hist[r].from \in Nat /\ snap.hist[r].from <= date
      BY <2>1, <2>2, <3>1
    <3>3. c \in Within(snap.hist[r].seen, snap.hist[r].from) \ late
      BY <2>1, <2>6, <3>1, <3>2 DEF Within
    <3>4. r \notin adrift
      BY <2>6, <3>1, <3>2 DEF CommitInv, CountInv, Of, CommitsOf
    <3> QED
      BY <2>2, <2>4, <3>3, <3>4
  <2> QED
    BY <2>1, <2>5, <2>6 DEF Within
<1> QED
  BY <1>1, <1>2, <1>3, PTL DEF Spec

=============================================================================
