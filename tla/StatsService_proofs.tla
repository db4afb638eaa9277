------------------------- MODULE StatsService_proofs -------------------------
(***************************************************************************)
(* Theorems of PrSync and of StatsService, for any repositories, pull      *)
(* requests, page size, overlap and bounds.                                *)
(*                                                                         *)
(* Of a sync: CopyInv says what the copies of a pull request know of one   *)
(* another: the provider's, the store's, the one a sync carries and the    *)
(* dashboard's.  RowInv says where a row without a watermark comes from.   *)
(* BehindInv says what a walk has passed, and what the watermark it leaves *)
(* has passed.                                                             *)
(*                                                                         *)
(* Of the service: what is shown is what is stored.  FreshInv says it of   *)
(* the three places that a copy of the store may be in: the dashboard, a   *)
(* priming that is about to fill the cache, and a sync that is about to    *)
(* replace it.                                                             *)
(***************************************************************************)
EXTENDS StatsService, FiniteSetTheorems, WellFoundedInduction, TLAPS

-----------------------------------------------------------------------------
(* The least and the greatest of some numbers.                             *)

LEMMA MinOf ==
  ASSUME NEW S \in SUBSET Nat, S # {}
  PROVE  Min(S) \in S /\ \A x \in S : Min(S) <= x
<1>1. PICK m \in S : \A x \in S : ~ (<<x, m>> \in OpToRel(<, Nat))
  BY WFMin, NatLessThanWellFounded, Zenon
<1>2. \A x \in S : m <= x
  <2> TAKE x \in S
  <2>1. m \in Nat /\ x \in Nat
    OBVIOUS
  <2>2. ~ (x < m)
    BY <1>1, <2>1, Zenon DEF OpToRel
  <2> QED
    BY <2>1, <2>2
<1> QED
  BY <1>2 DEF Min

LEMMA MaxOf ==
  ASSUME NEW n \in Nat, NEW S \in SUBSET (0 .. n), S # {}
  PROVE  Max(S) \in S /\ \A x \in S : x <= Max(S)
<1> DEFINE T == {n - x : x \in S}
<1>1. T \subseteq Nat
  <2>1. \A x \in S : n - x \in Nat
    OBVIOUS
  <2> QED
    BY <2>1
<1>2. T # {}
  OBVIOUS
<1>3. \A x \in S : n - x \in T
  OBVIOUS
<1>4. \A y \in T : \E x \in S : y = n - x
  OBVIOUS
<1> HIDE DEF T
<1>5. Min(T) \in T /\ \A x \in T : Min(T) <= x
  BY <1>1, <1>2, MinOf
<1>6. PICK m \in S : Min(T) = n - m
  BY <1>4, <1>5
<1>7. \A x \in S : n - m <= n - x
  BY <1>3, <1>5, <1>6
<1>8. \A x \in S : x <= m
  <2> TAKE x \in S
  <2>1. n - m <= n - x /\ m \in Int /\ x \in Int /\ n \in Int
    BY <1>7
  <2> QED
    BY <2>1
<1> QED
  BY <1>8 DEF Max

LEMMA AtLeast == \A a, b \in Nat : a # 0 /\ a <= b => b # 0
OBVIOUS

LEMMA NoneOfBoth == \A a, b \in Nat : a + b = 0 => a = 0 /\ b = 0
OBVIOUS

-----------------------------------------------------------------------------
(* Types.                                                                  *)

LEMMA TimesAreNat == Times \in SUBSET Nat /\ MaxChanges \in Nat /\ MaxWoes \in Nat
BY LimitAssumption DEF Times

LEMMA IdleType ==
  Idle \in [pc : Steps, from : Times, mode : {"full", "incremental"},
            cutoff : [Repos -> Times], left : SUBSET Repos, cursor : Nat,
            got : [Prs -> Copies], done : SUBSET Repos, poor : BOOLEAN]
BY TimesAreNat DEF Idle, Steps, NoCopies, Unknown, Copies, Times

LEMMA InitType == Init => TypeOK
<1> SUFFICES ASSUME Init PROVE TypeOK
  OBVIOUS
<1>1. OpenedFirst \in Times /\ MaxChanges \in Nat /\ MaxWoes \in Nat
  BY PrAssumption, LimitAssumption DEF Times
<1>2. pr \in [Prs -> Copies]
  <2>1. \A p \in Prs : p \in Nat \ {0} /\ (p <= OpenedFirst => p \in Times)
    BY <1>1, PrAssumption DEF Times
  <2>2. \A p \in Prs : [ver |-> p, at |-> p, open |-> TRUE] \in Copies \/ ~(p <= OpenedFirst)
    BY <2>1 DEF Copies
  <2>3. Unknown \in Copies
    BY <1>1 DEF Unknown, Copies, Times
  <2> QED
    BY <2>2, <2>3 DEF Init
<1>3. NoCopies \in [Prs -> Copies]
  BY <1>1 DEF NoCopies, Unknown, Copies, Times
<1>4. granted \subseteq Repos /\ listed \subseteq Repos
  BY PrAssumption DEF Init
<1>5. floor \in 1 .. MaxChanges + 1 /\ {failures, faults, crashes} \subseteq 0 .. MaxWoes
  BY <1>1 DEF Init
<1>6. mark \in [Repos -> Times] /\ fullFrom \in [Repos -> Times]
  BY <1>1 DEF Init, Times
<1> QED
  BY <1>1, <1>2, <1>3, <1>4, <1>5, <1>6, IdleType DEF Init, TypeOK

\* A cutoff is behind the watermark, within the 14 days, and not after anything open.
LEMMA CutoffBound ==
  ASSUME TypeOK, NEW r \in Repos, NEW open \in SUBSET Times
  PROVE  /\ Cutoff(r, open) \in Times /\ Behind(mark[r]) \in Nat
         /\ Cutoff(r, open) <= Behind(mark[r]) /\ Cutoff(r, open) <= floor
         /\ \A x \in open : Cutoff(r, open) <= x
<1> DEFINE S == {Behind(mark[r]), floor} \cup open
<1>1. mark[r] \in Times /\ floor \in 1 .. MaxChanges + 1
  BY DEF TypeOK
<1>2. mark[r] \in Nat /\ mark[r] <= MaxChanges /\ floor \in Nat /\ Overlap \in Nat
  BY <1>1, WalkAssumption, TimesAreNat DEF Times
<1>3. Behind(mark[r]) \in Times
  BY <1>2, TimesAreNat DEF Behind, Times
<1>4. S \in SUBSET Nat /\ S # {}
  BY <1>2, <1>3, TimesAreNat
<1>5. Min(S) \in S /\ \A x \in S : Min(S) <= x
  <2> HIDE DEF S
  <2> QED BY <1>4, MinOf
<1>6. Min(S) \in Nat /\ Min(S) <= Behind(mark[r])
  BY <1>4, <1>5
<1>7. Min(S) \in Times
  BY <1>3, <1>6, TimesAreNat DEF Times
<1> QED
  BY <1>3, <1>5, <1>6, <1>7, TimesAreNat DEF Cutoff

LEMMA OldestOpenType == ASSUME TypeOK, NEW r \in Repos PROVE OldestOpen(r) \in SUBSET Times
BY DEF OldestOpen, TypeOK, Copies, Of

LEMMA CutoffType ==
  ASSUME TypeOK, NEW stateRead \in BOOLEAN, NEW openRead \in BOOLEAN
  PROVE  BuildCutoff(stateRead, openRead) \in [Repos -> Times]
<1>1. 0 \in Times /\ {} \in SUBSET Times
  BY TimesAreNat DEF Times
<1>2. \A r \in Repos, open \in SUBSET Times : Cutoff(r, open) \in Times
  BY CutoffBound
<1> QED
  BY <1>1, <1>2, OldestOpenType DEF BuildCutoff

\* A page after which there is another has a last pull request, and all that are not on it
\* come after that.
LEMMA LastOfPage ==
  ASSUME TypeOK, NEW r \in Repos, NEW page, IsPage(page, Beyond(r)), page # Beyond(r)
  PROVE  /\ Min({Key(p) : p \in page}) \in Nat
         /\ \E last \in page : Min({Key(p) : p \in page}) = Key(last)
<1>1. Beyond(r) \subseteq Prs /\ IsFiniteSet(Beyond(r)) /\ page \subseteq Beyond(r)
  BY FS_Subset, PrAssumption DEF Beyond, Of, IsPage
<1>2. IsFiniteSet(page)
  BY <1>1, FS_Subset
<1>3. page # {}
  <2> SUFFICES ASSUME page = {} PROVE FALSE
    OBVIOUS
  <2>1. Cardinality(page) = 0
    BY FS_EmptySet
  <2>2. Cardinality(Beyond(r)) = 0
    BY <2>1, <1>1, FS_CardinalityType, WalkAssumption DEF IsPage
  <2> QED
    BY <2>2, <1>1, FS_EmptySet
<1>4. \A p \in page : Key(p) \in Nat
  BY <1>1, PrAssumption, TimesAreNat DEF Key, TypeOK, Copies
<1> DEFINE S == {Key(p) : p \in page}
<1>5. S \in SUBSET Nat /\ S # {}
  BY <1>3, <1>4
<1> HIDE DEF S
<1>6. Min(S) \in Nat /\ Min(S) \in S
  BY <1>5, MinOf
<1> QED
  BY <1>6 DEF S

\* What a repository's pull requests were seen to have, and its watermark: the greatest of them.
LEMMA MarkType ==
  ASSUME TypeOK, NEW r \in Repos
  PROVE  /\ Max({mark[r]} \cup Seen(r)) \in Times
         /\ mark[r] <= Max({mark[r]} \cup Seen(r))
         /\ \A p \in Prs : RepoOf[p] = r /\ sync.got[p].ver # 0
                => sync.got[p].at <= Max({mark[r]} \cup Seen(r))
<1> DEFINE S == {mark[r]} \cup Seen(r)
<1>1. S \in SUBSET (0 .. MaxChanges) /\ S # {} /\ mark[r] \in S
  BY DEF TypeOK, Seen, Of, Known, Copies, Times
<1>2. \A p \in Prs : RepoOf[p] = r /\ sync.got[p].ver # 0 => sync.got[p].at \in S
  BY DEF Seen, Of, Known
<1> HIDE DEF S
<1>3. Max(S) \in S /\ \A x \in S : x <= Max(S)
  BY <1>1, TimesAreNat, MaxOf
<1> QED
  BY <1>1, <1>2, <1>3 DEF S, Times

\* Every step keeps the types.
LEMMA NextType == TypeOK /\ [Next]_syncVars => TypeOK'
<1> SUFFICES ASSUME TypeOK, [Next]_syncVars PROVE TypeOK'
  OBVIOUS
<1> USE TimesAreNat DEF forgeVars, storeVars, cacheVars, woeVars, listVars
<1>1. CASE Environment
  <2>1. ASSUME NEW p \in Prs, NEW copy \in [at : Times, open : BOOLEAN, ver : {clock + 1}],
               Becomes(p, copy)
        PROVE  TypeOK'
    <3>1. clock + 1 \in Times
      BY <2>1 DEF Becomes, TypeOK, Times
    <3>2. copy \in Copies
      BY <3>1 DEF Copies
    <3> QED
      BY <2>1, <3>1, <3>2 DEF Becomes, TypeOK
  <2>2. ASSUME NEW p \in Prs, Opened(p) \/ ChangedSilently(p) \/ \E open \in BOOLEAN : Updated(p, open)
        PROVE  TypeOK'
    <3>1. pr[p] \in Copies
      BY DEF TypeOK
    <3>2. clock < MaxChanges /\ clock \in Times
      BY <2>2 DEF TypeOK, Opened, ChangedSilently, Updated, Becomes
    <3>3. clock + 1 \in Times
      BY <3>2 DEF Times
    <3> QED
      BY <2>1, <2>2, <3>1, <3>3 DEF Opened, ChangedSilently, Updated, Copies
  <2>3. ASSUME NEW r \in Repos, Grant(r) \/ DayPasses(r) PROVE TypeOK'
    BY <2>3 DEF Grant, DayPasses, TypeOK
  <2>4. ASSUME NEW f \in 1 .. clock + 1, Ages(f) PROVE TypeOK'
    <3>1. f \in 1 .. MaxChanges + 1
      BY DEF TypeOK, Times
    <3> QED
      BY <2>4, <3>1 DEF Ages, TypeOK
  <2>5. CASE RefreshList
    BY <2>5 DEF RefreshList, TypeOK
  <2> QED
    BY <1>1, <2>2, <2>3, <2>4, <2>5 DEF Environment
<1>2. CASE Start
  BY <1>2 DEF Start, Goto, TypeOK, Steps
<1>3. CASE ListRepos
  BY <1>3 DEF ListRepos, Goto, TypeOK, Steps
<1>4. ASSUME NEW stateRead \in BOOLEAN, NEW openRead \in BOOLEAN, BeginWalk(stateRead, openRead)
      PROVE  TypeOK'
  <2>1. BuildCutoff(stateRead, openRead) \in [Repos -> Times]
    BY CutoffType
  <2>2. ChooseMode(stateRead) \in {"full", "incremental"}
    BY DEF ChooseMode
  <2>3. sync' \in [pc : Steps, from : Times, mode : {"full", "incremental"},
                   cutoff : [Repos -> Times], left : SUBSET Repos, cursor : Nat,
                   got : [Prs -> Copies], done : SUBSET Repos, poor : BOOLEAN]
    BY <1>4, <2>1, <2>2 DEF BeginWalk, TypeOK, Steps
  <2>4. faults' \in 0 .. MaxWoes
    BY <1>4 DEF BeginWalk, Fault, Woe, TypeOK
  <2> QED
    BY <1>4, <2>3, <2>4 DEF BeginWalk, TypeOK
<1>5. ASSUME NEW r \in Repos, ReadPage(r) PROVE TypeOK'
  <2>1. PICK page \in SUBSET Beyond(r) :
            /\ IsPage(page, Beyond(r))
            /\ LET over == Completes(r, page, Beyond(r)) IN
               sync' = [sync EXCEPT
                   !.got = [p \in Prs |-> IF p \in page THEN pr[p] ELSE sync.got[p]],
                   !.left = IF over THEN @ \ {r} ELSE @,
                   !.done = IF over THEN @ \cup {r} ELSE @,
                   !.cursor = IF over THEN 0 ELSE Min({Key(p) : p \in page})]
    BY <1>5 DEF ReadPage
  <2>2. ~Completes(r, page, Beyond(r)) => Min({Key(p) : p \in page}) \in Nat
    BY <2>1, LastOfPage DEF Completes
  <2>3. [p \in Prs |-> IF p \in page THEN pr[p] ELSE sync.got[p]] \in [Prs -> Copies]
    BY DEF TypeOK
  <2>4. sync' \in [pc : Steps, from : Times, mode : {"full", "incremental"},
                   cutoff : [Repos -> Times], left : SUBSET Repos, cursor : Nat,
                   got : [Prs -> Copies], done : SUBSET Repos, poor : BOOLEAN]
    BY <2>1, <2>2, <2>3 DEF TypeOK
  <2> QED
    BY <1>5, <2>4 DEF ReadPage, TypeOK
<1>6. ASSUME NEW short \in BOOLEAN, WalkEnds(short) PROVE TypeOK'
  BY <1>6, IdleType DEF WalkEnds, TypeOK, Steps
<1>7. CASE ListUnavailable \/ WalkFails \/ Crash
  <2>1. {failures', faults', crashes'} \subseteq 0 .. MaxWoes
    BY <1>7 DEF ListUnavailable, WalkFails, Crash, Woe, TypeOK
  <2>2. NoCopies \in [Prs -> Copies]
    BY DEF NoCopies, Unknown, Copies, Times
  <2> QED
    BY <1>7, <2>1, <2>2, IdleType DEF ListUnavailable, WalkFails, Crash, TypeOK
<1>8. ASSUME NEW p \in Prs, SavePullRequest(p) PROVE TypeOK'
  BY <1>8 DEF SavePullRequest, TypeOK
<1>9. ASSUME NEW r \in Repos, RecordSync(r) PROVE TypeOK'
  <2>1. Max({mark[r]} \cup Seen(r)) \in Times
    BY MarkType
  <2>2. mark' \in [Repos -> Times] /\ fullFrom' \in [Repos -> Times]
    BY <1>9, <2>1 DEF RecordSync, TypeOK
  <2>3. due' \in [Repos -> BOOLEAN] /\ poor' \in [Repos -> BOOLEAN]
    BY <1>9 DEF RecordSync, TypeOK
  <2> QED
    BY <1>9, <2>2, <2>3 DEF RecordSync, TypeOK
<1>10. CASE Written
  BY <1>10 DEF Written, Goto, TypeOK, Steps
<1>11. CASE WriteFails \/ LoadFails
  <2>1. faults' \in 0 .. MaxWoes
    BY <1>11 DEF WriteFails, LoadFails, Fault, Woe, TypeOK
  <2> QED
    BY <1>11, <2>1 DEF WriteFails, LoadFails, Goto, TypeOK, Steps
<1>12. CASE LoadPullRequests
  <2>1. Stored(listed) \in [Prs -> Copies]
    BY DEF Stored, TypeOK, Unknown, Copies, Times
  <2> QED
    BY <1>12, <2>1 DEF LoadPullRequests, TypeOK, Steps
<1>13. CASE Publish
  BY <1>13, IdleType DEF Publish, TypeOK
<1>14. CASE UNCHANGED syncVars
  BY <1>14 DEF syncVars, TypeOK
<1> QED
  BY <1>1, <1>2, <1>3, <1>4, <1>5, <1>6, <1>7, <1>8, <1>9, <1>10, <1>11, <1>12, <1>13, <1>14
     DEF Next, SyncSteps

-----------------------------------------------------------------------------
(* Copies of a pull request.                                               *)

\* A copy is dated; nothing is newer than the clock, nor the store newer than the provider.
Dated(copy) == copy.ver # 0 => copy.at # 0
ForgeInv ==
    \A p \in Prs :
        /\ Dated(pr[p]) /\ Dated(row[p]) /\ Dated(sync.got[p])
        /\ row[p].ver <= pr[p].ver /\ pr[p].ver <= clock

\* What a sync has from its walk is at least as new as the store, and of listed repositories.
Carried(p) ==
    sync.got[p].ver # 0 =>
        /\ row[p].ver <= sync.got[p].ver /\ sync.got[p].ver <= pr[p].ver
        /\ RepoOf[p] \in listed

WalkInv ==
    /\ listed \subseteq granted
    /\ sync.pc \in {"idle", "listing", "reading"} => sync.got = NoCopies /\ sync.done = {}
    /\ sync.pc \in {"walking", "writing"} => \A p \in Prs : Carried(p)
    /\ sync.pc = "walking" => sync.left \subseteq listed

\* What is shown is in the store and of a listed repository, and so is what is about to be,
\* which is newer.
ShownInv ==
    faults = 0 =>
        \A p \in Prs :
            /\ shown[p].ver <= row[p].ver
            /\ shown[p].ver # 0 => RepoOf[p] \in listed
            /\ sync.pc = "history" =>
                   /\ shown[p].ver <= sync.got[p].ver /\ sync.got[p].ver <= row[p].ver
                   /\ sync.got[p].ver # 0 => RepoOf[p] \in listed

CopyInv == TypeOK /\ ForgeInv /\ WalkInv /\ ShownInv

\* What a row of a repository without a watermark comes from: the sync under way, which has
\* yet to record that it has been there.
RowInv ==
    faults = 0 /\ crashes = 0 =>
        /\ \A p \in Prs :
               row[p].ver # 0 /\ mark[RepoOf[p]] = 0 =>
                   sync.pc = "writing" /\ sync.got[p].ver # 0 /\ RepoOf[p] \in sync.done
        /\ sync.pc = "walking" =>
               \A p \in Prs : sync.got[p].ver # 0 => RepoOf[p] \in sync.left \cup sync.done
        /\ sync.pc = "writing" =>
               \A p \in Prs : sync.got[p].ver # 0 /\ mark[RepoOf[p]] = 0 => RepoOf[p] \in sync.done

\* The facts of one pull request that the steps below are about.
LEMMA CopyTypes ==
  ASSUME TypeOK
  PROVE  /\ clock \in Nat
         /\ \A p \in Prs :
                /\ RepoOf[p] \in Repos
                /\ {pr[p], row[p], shown[p], sync.got[p]} \subseteq Copies
                /\ {pr[p].ver, row[p].ver, shown[p].ver, sync.got[p].ver} \subseteq Nat
         /\ \A r \in Repos : mark[r] \in Nat
<1>1. \A p \in Prs : RepoOf[p] \in Repos
  BY PrAssumption
<1>2. \A p \in Prs : pr[p] \in Copies /\ row[p] \in Copies /\ shown[p] \in Copies
  BY DEF TypeOK
<1>3. \A p \in Prs : sync.got[p] \in Copies
  BY DEF TypeOK
<1>4. \A copy \in Copies : copy.ver \in Nat
  BY TimesAreNat DEF Copies
<1>5. clock \in Nat /\ \A r \in Repos : mark[r] \in Nat
  BY TimesAreNat DEF TypeOK
<1> QED
  BY <1>1, <1>2, <1>3, <1>4, <1>5

LEMMA InitCopies == Init => CopyInv /\ RowInv
<1> SUFFICES ASSUME Init PROVE CopyInv /\ RowInv
  OBVIOUS
<1>1. TypeOK
  BY InitType
<1>2. \A p \in Prs : row[p] = Unknown /\ shown[p] = Unknown /\ sync.got[p] = Unknown
  BY DEF Init, NoCopies, Idle
<1>3. \A p \in Prs : Dated(pr[p]) /\ pr[p].ver <= clock /\ 0 <= pr[p].ver
  BY <1>1, PrAssumption, CopyTypes DEF Init, Dated, Unknown
<1>4. ForgeInv
  BY <1>2, <1>3 DEF ForgeInv, Dated, Unknown
<1>5. WalkInv
  BY DEF Init, WalkInv, Idle
<1>6. ShownInv /\ RowInv
  BY <1>2 DEF Init, ShownInv, RowInv, Idle, Unknown
<1> QED
  BY <1>1, <1>4, <1>5, <1>6 DEF CopyInv

\* A change of a pull request, or of what the App may read, leaves the copies behind it.
LEMMA EnvironmentCopies ==
  ASSUME CopyInv, Environment, TypeOK'
  PROVE  CopyInv'
<1> USE DEF forgeVars, storeVars, cacheVars, woeVars, listVars
<1>1. TypeOK /\ ForgeInv /\ WalkInv /\ ShownInv
  BY DEF CopyInv
<1>2. ASSUME NEW p \in Prs, NEW copy, copy.ver = clock + 1, copy.at # 0, Becomes(p, copy)
      PROVE  CopyInv'
  <2>1. /\ clock' = clock + 1 /\ pr' = [pr EXCEPT ![p] = copy]
        /\ UNCHANGED <<granted, row, mark, listed, sync, shown, faults>>
    BY <1>2 DEF Becomes
  <2>2. \A q \in Prs : pr'[q].ver <= clock' /\ pr[q].ver <= pr'[q].ver /\ Dated(pr'[q])
    BY <1>1, <1>2, <2>1, CopyTypes DEF TypeOK, ForgeInv, Dated
  <2>3. \A q \in Prs : pr'[q].ver \in Nat
    BY <1>1, <1>2, <2>1, CopyTypes DEF TypeOK
  <2>4. ForgeInv'
    BY <1>1, <2>1, <2>2, <2>3, CopyTypes DEF ForgeInv, Dated
  <2>5. WalkInv'
    BY <1>1, <2>1, <2>2, <2>3, CopyTypes DEF WalkInv, Carried
  <2>6. ShownInv'
    BY <1>1, <2>1 DEF ShownInv
  <2> QED
    BY <2>4, <2>5, <2>6 DEF CopyInv
<1>3. ASSUME NEW p \in Prs, Opened(p) \/ ChangedSilently(p) \/ \E open \in BOOLEAN : Updated(p, open)
      PROVE  CopyInv'
  <2>1. pr[p] \in Copies /\ clock \in Nat
    BY <1>1, CopyTypes
  <2>2. CASE ChangedSilently(p)
    <3>1. pr[p].at # 0
      BY <1>1, <2>2 DEF ChangedSilently, Known, ForgeInv, Dated
    <3> QED
      BY <2>1, <2>2, <3>1, <1>2 DEF ChangedSilently, Copies
  <2>3. CASE Opened(p)
    BY <2>1, <2>3, <1>2 DEF Opened
  <2>4. CASE \E open \in BOOLEAN : Updated(p, open)
    BY <2>1, <2>4, <1>2 DEF Updated
  <2> QED
    BY <1>3, <2>2, <2>3, <2>4
<1>4. ASSUME UNCHANGED <<clock, pr, row, sync, shown, faults>>,
             listed' \in {listed, granted}, granted \subseteq granted'
      PROVE  CopyInv'
  <2>1. listed \subseteq listed' /\ listed' \subseteq granted'
    BY <1>1, <1>4 DEF WalkInv
  <2>2. ForgeInv'
    BY <1>1, <1>4 DEF ForgeInv
  <2>3. WalkInv'
    BY <1>1, <1>4, <2>1 DEF WalkInv, Carried
  <2>4. ShownInv'
    BY <1>1, <1>4, <2>1 DEF ShownInv
  <2> QED
    BY <2>2, <2>3, <2>4 DEF CopyInv
<1>5. ASSUME NEW r \in Repos, Grant(r) \/ DayPasses(r) PROVE CopyInv'
  BY <1>5, <1>4 DEF Grant, DayPasses
<1>6. ASSUME NEW f \in 1 .. clock + 1, Ages(f) PROVE CopyInv'
  BY <1>6, <1>4 DEF Ages
<1>7. CASE RefreshList
  BY <1>7, <1>4 DEF RefreshList
<1> QED
  BY <1>3, <1>5, <1>6, <1>7 DEF Environment

\* What a page changes of a walk.
PageRead(r, page) ==
    /\ sync.pc = "walking" /\ sync'.pc = "walking"
    /\ r \in sync.left /\ r = CHOOSE next \in sync.left : TRUE
    /\ sync'.mode = sync.mode /\ sync'.from = sync.from /\ sync'.cutoff = sync.cutoff
    /\ \A p \in Prs : sync'.got[p] = IF p \in page THEN pr[p] ELSE sync.got[p]
    /\ IsPage(page, Beyond(r))
    /\ \/ /\ ~Completes(r, page, Beyond(r))
          /\ sync'.left = sync.left /\ sync'.done = sync.done
          /\ sync'.cursor = Min({Key(p) : p \in page})
       \/ /\ Completes(r, page, Beyond(r))
          /\ sync'.left = sync.left \ {r} /\ sync'.done = sync.done \cup {r}
          /\ sync'.cursor = 0

LEMMA ReadsPage ==
  ASSUME TypeOK, NEW r \in Repos, ReadPage(r)
  PROVE  \E page \in SUBSET Beyond(r) : PageRead(r, page)
<1>1. sync.pc = "walking" /\ sync.left # {} /\ r = CHOOSE next \in sync.left : TRUE
  BY DEF ReadPage, At
<1>2. r \in sync.left
  BY <1>1
<1>3. PICK page \in SUBSET Beyond(r) :
          /\ IsPage(page, Beyond(r))
          /\ LET over == Completes(r, page, Beyond(r)) IN
             sync' = [sync EXCEPT
                 !.got = [p \in Prs |-> IF p \in page THEN pr[p] ELSE sync.got[p]],
                 !.left = IF over THEN @ \ {r} ELSE @,
                 !.done = IF over THEN @ \cup {r} ELSE @,
                 !.cursor = IF over THEN 0 ELSE Min({Key(p) : p \in page})]
  BY DEF ReadPage
<1> DEFINE over == Completes(r, page, Beyond(r))
           got == [p \in Prs |-> IF p \in page THEN pr[p] ELSE sync.got[p]]
           cursor == IF over THEN 0 ELSE Min({Key(p) : p \in page})
<1>4. \A p \in Prs : got[p] = IF p \in page THEN pr[p] ELSE sync.got[p]
  OBVIOUS
<1>5. sync' = [sync EXCEPT !.got = got, !.left = IF over THEN @ \ {r} ELSE @,
                           !.done = IF over THEN @ \cup {r} ELSE @, !.cursor = cursor]
  BY <1>3
<1>6. IF over THEN cursor = 0 ELSE cursor = Min({Key(p) : p \in page})
  OBVIOUS
<1> HIDE DEF got, cursor, over
<1>7. /\ sync'.pc = sync.pc /\ sync'.mode = sync.mode /\ sync'.from = sync.from
      /\ sync'.cutoff = sync.cutoff /\ sync'.got = got /\ sync'.cursor = cursor
      /\ sync'.left = IF over THEN sync.left \ {r} ELSE sync.left
      /\ sync'.done = IF over THEN sync.done \cup {r} ELSE sync.done
  BY <1>5 DEF TypeOK
<1> QED
  BY <1>1, <1>2, <1>3, <1>4, <1>6, <1>7 DEF PageRead, over

\* So does a sync: what it reads is newer than the store, and what it stores or shows newer
\* than what it replaces.
LEMMA SyncCopies ==
  ASSUME CopyInv, Start \/ SyncSteps \/ ListUnavailable \/ WalkFails \/ Crash, TypeOK'
  PROVE  CopyInv'
<1> USE DEF forgeVars, storeVars, cacheVars, woeVars, listVars
<1>1. TypeOK /\ ForgeInv /\ WalkInv /\ ShownInv
  BY DEF CopyInv
<1>2. /\ \A p \in Prs : {row[p].ver, pr[p].ver, shown[p].ver, sync.got[p].ver} \subseteq Nat
      /\ {failures, faults, crashes} \subseteq Nat
  BY <1>1, CopyTypes DEF TypeOK
<1>3. \A p \in Prs : NoCopies[p].ver = 0
  BY DEF NoCopies, Unknown
<1>4. CASE Start \/ ListRepos
  <2>1. /\ UNCHANGED <<clock, pr, granted, row, shown, faults>>
        /\ sync' = [sync EXCEPT !.pc = sync'.pc] /\ sync'.pc \in {"listing", "reading"}
        /\ sync.pc \in {"idle", "listing"} /\ listed' \in {listed, granted}
    BY <1>1, <1>4 DEF Start, ListRepos, Goto, At, TypeOK
  <2>2. listed \subseteq listed' /\ listed' \subseteq granted'
    BY <1>1, <2>1 DEF WalkInv
  <2>3. sync'.got = sync.got /\ sync'.done = sync.done
    BY <2>1, <1>1 DEF TypeOK
  <2> QED
    BY <1>1, <2>1, <2>2, <2>3 DEF CopyInv, ForgeInv, WalkInv, ShownInv
<1>5. ASSUME NEW stateRead \in BOOLEAN, NEW openRead \in BOOLEAN, BeginWalk(stateRead, openRead)
      PROVE  CopyInv'
  <2>1. /\ UNCHANGED <<clock, pr, granted, row, shown, listed>>
        /\ sync'.pc = "walking" /\ sync'.left = listed
        /\ sync'.got = sync.got /\ sync'.done = sync.done /\ sync.pc = "reading"
        /\ faults' = 0 => faults = 0
    BY <1>1, <1>2, <1>5 DEF BeginWalk, At, Fault, TypeOK
  <2> QED
    BY <1>1, <1>3, <2>1 DEF CopyInv, ForgeInv, WalkInv, ShownInv, Carried
<1>6. ASSUME NEW r \in Repos, ReadPage(r) PROVE CopyInv'
  <2>1. PICK page \in SUBSET Beyond(r) : PageRead(r, page)
    BY <1>1, <1>6, ReadsPage
  <2>2. UNCHANGED <<clock, pr, granted, row, shown, listed, faults>>
    BY <1>6 DEF ReadPage
  <2>3. sync'.left \subseteq sync.left
    BY <2>1 DEF PageRead
  <2>4. \A p \in page : RepoOf[p] = r
    BY DEF Beyond, Of
  <2>5. \A p \in Prs : Carried(p)'
    BY <1>1, <1>2, <2>1, <2>2, <2>4 DEF PageRead, Carried, WalkInv, ForgeInv
  <2> QED
    BY <1>1, <2>1, <2>2, <2>3, <2>5 DEF PageRead, CopyInv, ForgeInv, WalkInv, ShownInv
<1>7. ASSUME NEW short \in BOOLEAN, WalkEnds(short) PROVE CopyInv'
  <2>1. /\ UNCHANGED <<clock, pr, granted, row, shown, listed, faults>>
        /\ sync.pc = "walking" /\ sync'.pc = "writing" /\ sync'.got = sync.got
    BY <1>7, <1>1 DEF WalkEnds, At, TypeOK
  <2> QED
    BY <1>1, <2>1 DEF CopyInv, ForgeInv, WalkInv, ShownInv, Carried
<1>8. CASE ListUnavailable \/ WalkFails \/ Crash \/ Publish
  <2>1. /\ UNCHANGED <<clock, pr, granted, row, faults>> /\ sync' = Idle
        /\ \/ shown' = shown /\ listed' = listed
           \/ shown' = NoCopies /\ listed' = {}
           \/ shown' = sync.got /\ listed' = listed /\ sync.pc = "history"
    BY <1>8 DEF ListUnavailable, WalkFails, Crash, Publish, At
  <2>2. /\ Idle.pc = "idle" /\ Idle.got = NoCopies /\ Idle.done = {}
    BY DEF Idle
  <2>3. ForgeInv'
    BY <1>1, <1>3, <2>1, <2>2 DEF ForgeInv, Dated
  <2>4. WalkInv'
    BY <1>1, <2>1, <2>2 DEF WalkInv
  <2>5. ShownInv'
    BY <1>1, <1>2, <1>3, <2>1, <2>2 DEF ShownInv
  <2> QED
    BY <2>3, <2>4, <2>5 DEF CopyInv
<1>9. ASSUME NEW p \in Prs, SavePullRequest(p) PROVE CopyInv'
  <2>1. /\ UNCHANGED <<clock, pr, granted, sync, shown, listed, faults>>
        /\ row' = [row EXCEPT ![p] = sync.got[p]]
        /\ sync.pc = "writing" /\ sync.got[p].ver # 0
    BY <1>9 DEF SavePullRequest, At, Unsaved, Known
  <2>2. /\ row[p].ver <= sync.got[p].ver /\ sync.got[p].ver <= pr[p].ver
    BY <1>1, <2>1 DEF WalkInv, Carried
  <2>3. \A q \in Prs : row'[q] = IF q = p THEN sync.got[p] ELSE row[q]
    BY <1>1, <2>1 DEF TypeOK
  <2>4. ForgeInv'
    BY <1>1, <2>1, <2>2, <2>3 DEF ForgeInv
  <2>5. WalkInv'
    BY <1>1, <1>2, <2>1, <2>2, <2>3 DEF WalkInv, Carried
  <2>6. ShownInv'
    BY <1>1, <1>2, <2>1, <2>2, <2>3 DEF ShownInv
  <2> QED
    BY <2>4, <2>5, <2>6 DEF CopyInv
<1>10. ASSUME NEW r \in Repos, RecordSync(r) PROVE CopyInv'
  <2>1. /\ UNCHANGED <<clock, pr, granted, row, shown, listed, faults>>
        /\ sync.pc = "writing" /\ sync'.pc = "writing" /\ sync'.got = sync.got
    BY <1>10, <1>1 DEF RecordSync, At, TypeOK
  <2> QED
    BY <1>1, <2>1 DEF CopyInv, ForgeInv, WalkInv, ShownInv, Carried
<1>11. CASE Written \/ WriteFails \/ LoadFails
  <2>1. /\ UNCHANGED <<clock, pr, granted, row, shown, listed>>
        /\ sync'.got = sync.got /\ sync'.pc \in {"loading", "history"}
        /\ \/ sync'.pc = "loading" /\ faults' = faults
           \/ faults' # 0
    BY <1>1, <1>2, <1>11 DEF Written, WriteFails, LoadFails, Goto, Fault, TypeOK
  <2> QED
    BY <1>1, <2>1 DEF CopyInv, ForgeInv, WalkInv, ShownInv
<1>12. CASE LoadPullRequests
  <2>1. /\ UNCHANGED <<clock, pr, granted, row, shown, listed, faults>>
        /\ sync'.got = Stored(listed) /\ sync'.pc = "history"
    BY <1>12, <1>1 DEF LoadPullRequests, TypeOK
  <2>2. \A p \in Prs : sync'.got[p] = IF RepoOf[p] \in listed THEN row[p] ELSE Unknown
    BY <2>1 DEF Stored
  <2>3. ForgeInv'
    BY <1>1, <2>1, <2>2 DEF ForgeInv, Dated, Unknown
  <2>4. ShownInv'
    BY <1>1, <1>2, <2>1, <2>2 DEF ShownInv, Unknown
  <2> QED
    BY <1>1, <2>1, <2>3, <2>4 DEF CopyInv, WalkInv
<1> QED
  BY <1>4, <1>5, <1>6, <1>7, <1>8, <1>9, <1>10, <1>11, <1>12 DEF SyncSteps

LEMMA NextCopies == CopyInv /\ [Next]_syncVars => CopyInv'
<1>1. CASE UNCHANGED syncVars
  BY <1>1 DEF syncVars, forgeVars, storeVars, cacheVars, woeVars, listVars,
              CopyInv, TypeOK, ForgeInv, WalkInv, Carried, ShownInv
<1> QED
  BY <1>1, NextType, EnvironmentCopies, SyncCopies DEF Next, CopyInv

-----------------------------------------------------------------------------
(* Rows without a watermark.                                               *)

LEMMA NextRows == CopyInv /\ RowInv /\ [Next]_syncVars => RowInv'
<1> SUFFICES ASSUME CopyInv, RowInv, [Next]_syncVars PROVE RowInv'
  OBVIOUS
<1> USE DEF forgeVars, storeVars, cacheVars, woeVars, listVars
<1>1. TypeOK /\ ForgeInv /\ WalkInv
  BY DEF CopyInv
<1>2. /\ \A p \in Prs : RepoOf[p] \in Repos
      /\ \A p \in Prs : row[p].ver \in Nat /\ sync.got[p].ver \in Nat
      /\ \A r \in Repos : mark[r] \in Nat
      /\ {failures, faults, crashes} \subseteq Nat
  BY <1>1, CopyTypes DEF TypeOK
<1>3. ASSUME UNCHANGED <<row, mark, sync, faults, crashes>> PROVE RowInv'
  BY <1>3 DEF RowInv
<1>4. CASE Environment
  <2>1. UNCHANGED <<row, mark, sync, faults, crashes>>
    BY <1>4 DEF Environment, Opened, ChangedSilently, Updated, Becomes, Grant, DayPasses,
                Ages, RefreshList
  <2> QED
    BY <1>3, <2>1
<1>5. ASSUME UNCHANGED <<row, mark>>, sync.pc # "writing", sync'.pc \notin {"walking", "writing"},
             faults' = 0 /\ crashes' = 0 => faults = 0 /\ crashes = 0
      PROVE  RowInv'
  BY <1>5 DEF RowInv
<1>6. CASE Start \/ ListRepos \/ ListUnavailable \/ WalkFails \/ LoadPullRequests \/ Publish
  <2>1. /\ UNCHANGED <<row, mark, faults, crashes>>
        /\ sync.pc # "writing" /\ sync'.pc \notin {"walking", "writing"}
    <3>1. CASE Start \/ ListRepos
      BY <1>1, <3>1 DEF Start, ListRepos, Goto, At, TypeOK
    <3>2. CASE ListUnavailable \/ WalkFails \/ Publish
      BY <3>2 DEF ListUnavailable, WalkFails, Publish, At, Idle
    <3>3. CASE LoadPullRequests
      BY <1>1, <3>3 DEF LoadPullRequests, At, TypeOK
    <3> QED
      BY <1>6, <3>1, <3>2, <3>3
  <2> QED
    BY <1>5, <2>1
<1>7. CASE Crash \/ WriteFails \/ LoadFails
  <2>1. faults' # 0 \/ crashes' # 0
    BY <1>2, <1>7 DEF Crash, WriteFails, LoadFails, Fault
  <2> QED
    BY <2>1 DEF RowInv
<1>8. ASSUME NEW stateRead \in BOOLEAN, NEW openRead \in BOOLEAN, BeginWalk(stateRead, openRead)
      PROVE  RowInv'
  <2>1. /\ UNCHANGED <<row, mark, crashes>>
        /\ sync.pc = "reading" /\ sync'.pc = "walking" /\ sync'.got = sync.got
        /\ faults' = 0 => faults = 0
    BY <1>1, <1>2, <1>8 DEF BeginWalk, At, Fault, TypeOK
  <2>2. \A p \in Prs : sync'.got[p].ver = 0
    BY <1>1, <2>1 DEF WalkInv, NoCopies, Unknown
  <2> QED
    BY <2>1, <2>2 DEF RowInv
<1>9. ASSUME NEW r \in Repos, ReadPage(r) PROVE RowInv'
  <2>1. PICK page \in SUBSET Beyond(r) : PageRead(r, page)
    BY <1>1, <1>9, ReadsPage
  <2>2. UNCHANGED <<row, mark, faults, crashes>>
    BY <1>9 DEF ReadPage
  <2>3. \A p \in page : RepoOf[p] = r
    BY DEF Beyond, Of
  <2> QED
    BY <2>1, <2>2, <2>3 DEF RowInv, PageRead
<1>10. ASSUME NEW short \in BOOLEAN, WalkEnds(short) PROVE RowInv'
  <2>1. /\ UNCHANGED <<row, mark, faults, crashes>>
        /\ sync.pc = "walking" /\ sync'.pc = "writing" /\ sync.left = {}
        /\ sync'.got = sync.got /\ sync'.done = sync.done
    BY <1>1, <1>10 DEF WalkEnds, At, TypeOK
  <2> QED
    BY <2>1 DEF RowInv
<1>11. ASSUME NEW p \in Prs, SavePullRequest(p) PROVE RowInv'
  <2>1. /\ UNCHANGED <<mark, sync, faults, crashes>>
        /\ row' = [row EXCEPT ![p] = sync.got[p]]
        /\ sync.pc = "writing" /\ sync.got[p].ver # 0
    BY <1>11 DEF SavePullRequest, At, Unsaved, Known
  <2>2. \A q \in Prs : row'[q] = IF q = p THEN sync.got[p] ELSE row[q]
    BY <1>1, <2>1 DEF TypeOK
  <2> QED
    BY <2>1, <2>2 DEF RowInv
<1>12. ASSUME NEW r \in Repos, RecordSync(r) PROVE RowInv'
  <2>1. /\ UNCHANGED <<row, faults, crashes>>
        /\ mark' = [mark EXCEPT ![r] = Max({mark[r]} \cup Seen(r))]
        /\ sync.pc = "writing" /\ sync'.pc = "writing" /\ sync'.got = sync.got
        /\ sync'.done = sync.done \ {r}
    BY <1>1, <1>12 DEF RecordSync, At, TypeOK
  <2>2. Max({mark[r]} \cup Seen(r)) \in Nat /\ mark[r] <= Max({mark[r]} \cup Seen(r))
    BY <1>1, MarkType, TimesAreNat
  <2>3. \A p \in Prs : RepoOf[p] = r /\ sync.got[p].ver # 0
            => sync.got[p].at # 0 /\ sync.got[p].at <= Max({mark[r]} \cup Seen(r))
    BY <1>1, MarkType DEF ForgeInv, Dated
  <2>4. \A p \in Prs : sync.got[p].at \in Nat
    BY <1>1, CopyTypes, TimesAreNat DEF Copies
  <2>5. ASSUME NEW p \in Prs, RepoOf[p] = r, sync.got[p].ver # 0 PROVE mark'[RepoOf[p]] # 0
    <3>1. Max({mark[r]} \cup Seen(r)) # 0
      <4> DEFINE greatest == Max({mark[r]} \cup Seen(r))
      <4>1. /\ sync.got[p].at \in Nat /\ sync.got[p].at # 0
            /\ greatest \in Nat /\ sync.got[p].at <= greatest
        BY <2>2, <2>3, <2>4, <2>5
      <4> HIDE DEF greatest
      <4>2. greatest # 0
        BY <4>1, AtLeast
      <4> QED
        BY <4>2 DEF greatest
    <3>2. mark'[r] = Max({mark[r]} \cup Seen(r))
      BY <1>1, <2>1 DEF TypeOK
    <3> QED
      BY <2>5, <3>1, <3>2
  <2>6. \A q \in Repos : q # r => mark'[q] = mark[q]
    BY <1>1, <2>1 DEF TypeOK
  <2>7. mark'[r] = 0 => mark[r] = 0
    BY <1>1, <1>2, <2>1, <2>2 DEF TypeOK
  <2> QED
    BY <1>2, <2>1, <2>5, <2>6, <2>7 DEF RowInv
<1>13. CASE Written
  <2>1. /\ UNCHANGED <<row, mark, faults, crashes>>
        /\ sync.pc = "writing" /\ sync'.pc = "loading" /\ sync.done \cap listed = {}
    BY <1>1, <1>13 DEF Written, Goto, At, Unrecorded, TypeOK
  <2>2. \A p \in Prs : sync.got[p].ver # 0 => RepoOf[p] \notin sync.done
    BY <1>1, <2>1 DEF WalkInv, Carried
  <2> QED
    BY <2>1, <2>2 DEF RowInv
<1>14. CASE UNCHANGED syncVars
  BY <1>3, <1>14 DEF syncVars
<1> QED
  BY <1>4, <1>6, <1>7, <1>8, <1>9, <1>10, <1>11, <1>12, <1>13, <1>14 DEF Next, SyncSteps

-----------------------------------------------------------------------------
(* What a walk has passed.                                                 *)

Walks == sync.pc \in {"walking", "writing"}

\* Walks begin at the clock, and no change that a walk of the last day may have missed is past
\* the 14 days.
TimeInv ==
    /\ floor <= clock + 1
    /\ \A r \in Repos :
           /\ fullFrom[r] <= clock
           /\ Walks => fullFrom[r] <= sync.from
           /\ ~due[r] => floor <= fullFrom[r] + 1
    /\ Walks => sync.from <= clock /\ floor <= sync.from + 1
    /\ \A p \in Prs : row[p].at <= pr[p].at /\ pr[p].at <= clock

\* A pull request that has been read has not changed since, or after the walk began.
ReadInv ==
    Walks => \A p \in Prs :
        sync.got[p].ver # 0 =>
            /\ sync.got[p].at <= pr[p].at
            /\ sync.got[p].at = pr[p].at \/ sync.from < pr[p].at

\* One that has not been read and has not changed either is still to come, or lies behind
\* the cutoff.
Passed(p) == pr[p].ver # 0 /\ sync.got[p].ver = 0 /\ pr[p].at <= sync.from
PassInv ==
    /\ sync.pc \in {"idle", "listing", "reading"} => sync.cursor = 0
    /\ sync.pc = "walking" =>
           /\ sync.mode = "incremental" =>
                  \A r \in sync.left \cup sync.done : mark[r] # 0 /\ sync.cutoff[r] <= Behind(mark[r])
           /\ \A p \in Prs : Passed(p) =>
                  /\ RepoOf[p] \in sync.done =>
                         sync.mode = "incremental" /\ pr[p].at < sync.cutoff[RepoOf[p]]
                  /\ RepoOf[p] \in sync.left /\ RepoOf[p] = (CHOOSE next \in sync.left : TRUE)
                     /\ sync.cursor # 0 => Key(p) < sync.cursor
    /\ sync.pc = "writing" =>
           /\ sync.mode = "incremental" => \A r \in sync.done : mark[r] # 0
           /\ \A p \in Prs : Passed(p) /\ RepoOf[p] \in sync.done =>
                  sync.mode = "incremental" /\ pr[p].at < Behind(mark[RepoOf[p]])

\* What the store has only an earlier change of, and believes closed, is within the overlap of
\* the watermark or has changed since the last full walk.
Overtaken(p) == pr[p].ver # 0 /\ pr[p].at # row[p].at /\ ~row[p].open
KeptInv ==
    \A p \in Prs : LET r == RepoOf[p] IN
        Overtaken(p) /\ mark[r] # 0 /\ ~due[r] =>
            Behind(mark[r]) <= pr[p].at \/ fullFrom[r] < pr[p].at

BehindInv == CopyInv /\ TimeInv /\ ReadInv /\ PassInv /\ KeptInv

\* The numbers that the steps below compare.
LEMMA TimeTypes ==
  ASSUME TypeOK
  PROVE  /\ clock \in Nat /\ floor \in Nat /\ sync.from \in Nat /\ sync.cursor \in Nat
         /\ \A p \in Prs :
                /\ RepoOf[p] \in Repos
                /\ pr[p].at \in Nat /\ row[p].at \in Nat /\ sync.got[p].at \in Nat
         /\ \A r \in Repos :
                /\ fullFrom[r] \in Nat /\ sync.cutoff[r] \in Nat
                /\ mark[r] \in Nat /\ Behind(mark[r]) \in Nat
<1>1. clock \in Nat /\ floor \in Nat /\ sync.from \in Nat /\ sync.cursor \in Nat
  <2>1. clock \in Times /\ sync.from \in Times /\ sync.cursor \in Nat
    BY DEF TypeOK
  <2>2. floor \in 1 .. MaxChanges + 1
    BY DEF TypeOK
  <2>3. floor \in Nat
    BY <2>2, TimesAreNat
  <2> QED
    BY <2>1, <2>3, TimesAreNat
<1>2. \A copy \in Copies : copy.at \in Nat
  BY TimesAreNat DEF Copies
<1>3. \A p \in Prs : pr[p] \in Copies /\ row[p] \in Copies /\ sync.got[p] \in Copies
  BY CopyTypes
<1>4. \A r \in Repos : fullFrom[r] \in Times /\ sync.cutoff[r] \in Times /\ mark[r] \in Times
  BY DEF TypeOK
<1>5. \A r \in Repos : Behind(mark[r]) \in Nat
  BY CutoffBound
<1> QED
  BY <1>1, <1>2, <1>3, <1>4, <1>5, PrAssumption, TimesAreNat

LEMMA InitBehind == Init => BehindInv
<1> SUFFICES ASSUME Init PROVE BehindInv
  OBVIOUS
<1>1. CopyInv /\ TypeOK
  BY InitCopies DEF CopyInv
<1>2. sync.pc = "idle" /\ sync.cursor = 0 /\ \A r \in Repos : due[r] /\ mark[r] = 0 /\ fullFrom[r] = 0
  BY DEF Init, Idle
<1>3. \A p \in Prs : row[p].at = 0 /\ (p <= OpenedFirst => pr[p].at = p)
                   /\ (~(p <= OpenedFirst) => pr[p].at = 0)
  BY DEF Init, NoCopies, Unknown
<1>4. clock = OpenedFirst /\ floor = 1 /\ clock \in Nat
  BY <1>1, TimeTypes DEF Init
<1>5. \A p \in Prs : p \in Nat
  BY PrAssumption
<1>6. TimeInv
  BY <1>2, <1>3, <1>4, <1>5 DEF TimeInv, Walks
<1>7. ReadInv /\ PassInv
  BY <1>2 DEF ReadInv, Walks, PassInv
<1>8. KeptInv
  BY <1>2, PrAssumption DEF KeptInv
<1> QED
  BY <1>1, <1>6, <1>7, <1>8 DEF BehindInv

\* A pull request stays as it was, but for silent changes, or has changed now.
Moved(p) ==
    \/ pr'[p].at = pr[p].at /\ (pr'[p].ver # 0 => pr[p].ver # 0)
    \/ pr'[p].at = clock + 1

LEMMA ChangesMove ==
  ASSUME TypeOK, NEW p \in Prs,
         Opened(p) \/ ChangedSilently(p) \/ \E open \in BOOLEAN : Updated(p, open)
  PROVE  /\ clock' = clock + 1
         /\ UNCHANGED <<floor, row, mark, due, fullFrom, sync>>
         /\ \A q \in Prs : Moved(q)
<1> USE DEF forgeVars, storeVars, cacheVars, woeVars, listVars
<1>1. pr \in [Prs -> Copies]
  BY DEF TypeOK
<1>2. CASE ChangedSilently(p)
  <2>1. pr[p].ver # 0 /\ pr' = [pr EXCEPT ![p] = [pr[p] EXCEPT !.ver = clock + 1]]
    BY <1>2 DEF ChangedSilently, Becomes, Known
  <2>2. \A q \in Prs : pr'[q].at = pr[q].at /\ (pr'[q].ver # 0 => pr[q].ver # 0)
    BY <1>1, <2>1 DEF Copies
  <2> QED
    BY <1>2, <2>2 DEF ChangedSilently, Becomes, Moved
<1>3. ASSUME NEW copy, copy.at = clock + 1, Becomes(p, copy)
      PROVE  \A q \in Prs : Moved(q)
  BY <1>1, <1>3 DEF Becomes, Moved
<1>4. CASE Opened(p)
  BY <1>3, <1>4 DEF Opened, Becomes
<1>5. CASE \E open \in BOOLEAN : Updated(p, open)
  BY <1>3, <1>5 DEF Updated, Becomes
<1> QED
  BY <1>2, <1>4, <1>5

\* What changes after a walk has begun does not come under what the walk has passed, nor does
\* the 14th day reach it.
LEMMA EnvironmentBehind ==
  ASSUME BehindInv, Environment, TypeOK'
  PROVE  (TimeInv /\ ReadInv /\ PassInv /\ KeptInv)'
<1> USE DEF forgeVars, storeVars, cacheVars, woeVars, listVars
<1>1. TypeOK /\ CopyInv /\ TimeInv /\ ReadInv /\ PassInv /\ KeptInv
  BY DEF BehindInv, CopyInv
<1> DEFINE Goal == (TimeInv /\ ReadInv /\ PassInv /\ KeptInv)'
<1>2. ASSUME NEW p \in Prs, Opened(p) \/ ChangedSilently(p) \/ \E open \in BOOLEAN : Updated(p, open)
      PROVE  Goal
  <2>1. /\ clock' = clock + 1
        /\ UNCHANGED <<floor, row, mark, due, fullFrom, sync>>
        /\ \A q \in Prs : Moved(q)
    BY <1>1, <1>2, ChangesMove
  <2>2. clock \in Nat /\ floor \in Nat /\ sync.from \in Nat /\ sync.cursor \in Nat
    BY <1>1, TimeTypes
  <2>3. \A r \in Repos : fullFrom[r] \in Nat /\ mark[r] \in Nat /\ Behind(mark[r]) \in Nat
    BY <1>1, TimeTypes
  <2>4. \A q \in Prs : /\ RepoOf[q] \in Repos /\ pr[q].at \in Nat /\ row[q].at \in Nat
                       /\ sync.got[q].at \in Nat
    BY <1>1, TimeTypes
  <2>5. Walks' <=> Walks
    BY <2>1 DEF Walks
  <2>6. \A q \in Prs : pr[q].at <= pr'[q].at /\ pr'[q].at <= clock + 1 /\ pr'[q].at \in Nat
    BY <1>1, <2>1, <2>2, <2>4 DEF TimeInv, Moved
  <2>7. TimeInv'
    BY <1>1, <2>1, <2>2, <2>3, <2>4, <2>5, <2>6 DEF TimeInv
  <2>8. ReadInv'
    <3> SUFFICES ASSUME Walks, NEW q \in Prs, sync.got[q].ver # 0
                 PROVE  /\ sync.got[q].at <= pr'[q].at
                        /\ sync.got[q].at = pr'[q].at \/ sync.from < pr'[q].at
      BY <2>1, <2>5 DEF ReadInv
    <3>1. /\ sync.got[q].at <= pr[q].at /\ sync.from <= clock
          /\ sync.got[q].at = pr[q].at \/ sync.from < pr[q].at
      BY <1>1 DEF ReadInv, TimeInv
    <3> QED
      BY <2>1, <2>2, <2>4, <2>6, <3>1 DEF Moved
  <2>9. \A q \in Prs : Walks /\ Passed(q)' => Passed(q) /\ pr'[q].at = pr[q].at
    BY <1>1, <2>1, <2>2, <2>4 DEF Passed, Moved, TimeInv
  <2>10. PassInv'
    <3>1. \A r \in Repos : Behind(mark[r])' = Behind(mark[r])
      BY <2>1
    <3>2. \A q \in Prs : pr'[q].at = pr[q].at => Key(q)' = Key(q)
      BY <2>1 DEF Key
    <3> QED
      BY <1>1, <2>1, <2>9, <3>1, <3>2 DEF PassInv, Walks
  <2>11. KeptInv'
    <3> SUFFICES ASSUME NEW q \in Prs, Overtaken(q)', mark[RepoOf[q]] # 0, ~due[RepoOf[q]]
                 PROVE  Behind(mark[RepoOf[q]]) <= pr'[q].at \/ fullFrom[RepoOf[q]] < pr'[q].at
      BY <2>1 DEF KeptInv
    <3>1. CASE pr'[q].at = clock + 1
      BY <1>1, <2>2, <2>3, <2>4, <3>1 DEF TimeInv
    <3>2. CASE pr'[q].at # clock + 1
      <4>1. pr'[q].at = pr[q].at /\ Overtaken(q)
        BY <2>1, <3>2 DEF Moved, Overtaken
      <4> QED
        BY <1>1, <4>1 DEF KeptInv
    <3> QED
      BY <3>1, <3>2
  <2> QED
    BY <2>7, <2>8, <2>10, <2>11
<1>3. ASSUME UNCHANGED <<clock, pr, row, mark, fullFrom, sync>>,
             \A r \in Repos : due[r] => due'[r],
             floor' <= clock + 1, Walks => floor' <= sync.from + 1,
             \A r \in Repos : ~due'[r] => floor' <= fullFrom[r] + 1
      PROVE  Goal
  <2>1. TimeInv'
    BY <1>1, <1>3 DEF TimeInv, Walks
  <2>2. ReadInv'
    BY <1>1, <1>3 DEF ReadInv, Walks
  <2>3. PassInv'
    BY <1>1, <1>3 DEF PassInv, Passed, Key
  <2>4. KeptInv'
    BY <1>1, <1>3, PrAssumption DEF KeptInv, Overtaken
  <2> QED
    BY <2>1, <2>2, <2>3, <2>4
<1>4. ASSUME NEW r \in Repos, Grant(r) PROVE Goal
  BY <1>1, <1>3, <1>4 DEF Grant, TimeInv
<1>5. ASSUME NEW r \in Repos, DayPasses(r) PROVE Goal
  <2>1. \A q \in Repos : due[q] => due'[q]
    BY <1>1, <1>5 DEF DayPasses, TypeOK
  <2> QED
    BY <1>1, <1>3, <1>5, <2>1 DEF DayPasses, TimeInv
<1>6. ASSUME NEW f \in 1 .. clock + 1, Ages(f) PROVE Goal
  <2>1. f <= clock + 1
    BY <1>1, TimeTypes
  <2>2. Walks => f <= sync.from + 1
    BY <1>6 DEF Ages, Walks
  <2> QED
    BY <1>3, <1>6, <2>1, <2>2 DEF Ages
<1>7. CASE RefreshList
  BY <1>1, <1>3, <1>7 DEF RefreshList, TimeInv
<1> QED
  BY <1>2, <1>4, <1>5, <1>6, <1>7 DEF Environment

\* A page leaves behind it only what it has read, what has changed since the walk began, and
\* what lies behind the cutoff.
LEMMA PagePasses ==
  ASSUME BehindInv, NEW r \in Repos, NEW page \in SUBSET Beyond(r), PageRead(r, page),
         UNCHANGED <<pr, mark>>
  PROVE  PassInv'
<1>1. TypeOK /\ PassInv
  BY DEF BehindInv, CopyInv
<1>2. sync.pc = "walking" /\ sync'.pc = "walking" /\ r \in sync.left
      /\ r = (CHOOSE next \in sync.left : TRUE)
      /\ sync'.mode = sync.mode /\ sync'.from = sync.from /\ sync'.cutoff = sync.cutoff
  BY DEF PageRead
<1>3. sync.left \cup sync.done = sync'.left \cup sync'.done
  BY DEF PageRead
<1>4. \A p \in Prs : Key(p)' = Key(p)
  BY <1>2 DEF Key
<1>5. \A p \in Prs : pr[p].at \in Nat /\ Key(p) \in Nat
  BY <1>1, TimeTypes, PrAssumption DEF Key
<1>6. \A r1 \in Repos : sync.cutoff[r1] \in Nat
  BY <1>1, TimeTypes
<1>7. ASSUME NEW p \in Prs, Passed(p)'
      PROVE  Passed(p) /\ p \notin page
  BY <1>2, <1>7 DEF Passed, PageRead
<1>8. ASSUME NEW p \in Prs, Passed(p), p \notin page, RepoOf[p] = r
      PROVE  p \in Beyond(r) \ page
  <2>1. sync.cursor # 0 => Key(p) < sync.cursor
    BY <1>1, <1>2, <1>8 DEF PassInv
  <2> QED
    BY <1>8, <2>1 DEF Beyond, Of, Known, Passed
<1>9. ASSUME NEW p \in Prs, Passed(p)', RepoOf[p] \in sync'.done
      PROVE  sync.mode = "incremental" /\ pr[p].at < sync.cutoff[RepoOf[p]]
  <2>1. CASE RepoOf[p] \in sync.done
    BY <1>1, <1>2, <1>7, <1>9, <2>1 DEF PassInv
  <2>2. CASE RepoOf[p] \notin sync.done
    <3>1. RepoOf[p] = r /\ Completes(r, page, Beyond(r))
      BY <1>9, <2>2 DEF PageRead
    <3>2. p \in Beyond(r) \ page
      BY <1>7, <1>8, <1>9, <3>1
    <3>3. sync.mode = "incremental" /\ \A q \in page : pr[q].at < sync.cutoff[r]
      BY <3>1, <3>2 DEF Completes
    <3>4. IsPage(page, Beyond(r)) /\ page # Beyond(r)
      BY <3>2 DEF PageRead
    <3>5. PICK q \in page : TRUE
      BY <1>1, <3>4, LastOfPage
    <3>6. pr[q].at > pr[p].at /\ pr[q].at < sync.cutoff[r] /\ q \in Prs
      BY <3>2, <3>3, <3>4 DEF IsPage, Key, Beyond, Of
    <3>7. pr[p].at < sync.cutoff[r]
      BY <1>5, <1>6, <3>6
    <3> QED
      BY <3>1, <3>3, <3>7
  <2> QED
    BY <2>1, <2>2
<1>10. ASSUME NEW p \in Prs, Passed(p)', RepoOf[p] \in sync'.left,
              RepoOf[p] = (CHOOSE next \in sync'.left : TRUE), sync'.cursor # 0
       PROVE  Key(p) < sync'.cursor
  <2>1. /\ ~Completes(r, page, Beyond(r)) /\ sync'.left = sync.left
        /\ sync'.cursor = Min({Key(q) : q \in page})
    BY <1>10 DEF PageRead
  <2>2. RepoOf[p] = r
    BY <1>2, <1>10, <2>1
  <2>3. p \in Beyond(r) \ page
    BY <1>7, <1>8, <1>10, <2>2
  <2>4. IsPage(page, Beyond(r)) /\ page # Beyond(r)
    BY <2>3 DEF PageRead
  <2>5. PICK last \in page : sync'.cursor = Key(last)
    BY <1>1, <2>1, <2>4, LastOfPage
  <2>6. Key(last) > Key(p) /\ last \in Prs
    BY <2>3, <2>4 DEF IsPage, Beyond, Of
  <2> QED
    BY <1>5, <2>5, <2>6
<1>11. \A r1 \in Repos : Behind(mark[r1])' = Behind(mark[r1])
  OBVIOUS
<1>12. sync.left \cup sync.done \subseteq Repos
  BY <1>1 DEF TypeOK
<1>13. sync.mode = "incremental" =>
          \A r1 \in sync'.left \cup sync'.done : mark[r1] # 0 /\ sync.cutoff[r1] <= Behind(mark[r1])
  BY <1>1, <1>2, <1>3 DEF PassInv
<1> QED
  BY <1>2, <1>3, <1>4, <1>9, <1>10, <1>11, <1>12, <1>13 DEF PassInv

\* A sync moves a watermark past nothing it has not stored, unless it has changed since the
\* last full walk.
LEMMA SyncBehind ==
  ASSUME BehindInv, Start \/ SyncSteps \/ ListUnavailable \/ WalkFails \/ Crash, CopyInv'
  PROVE  (TimeInv /\ ReadInv /\ PassInv /\ KeptInv)'
<1> USE DEF forgeVars, storeVars, cacheVars, woeVars, listVars
<1>1. TypeOK /\ CopyInv /\ TimeInv /\ ReadInv /\ PassInv /\ KeptInv /\ WalkInv
  BY DEF BehindInv, CopyInv
<1> DEFINE Goal == (TimeInv /\ ReadInv /\ PassInv /\ KeptInv)'
<1>2. clock \in Nat /\ floor \in Nat /\ sync.from \in Nat
  BY <1>1, TimeTypes
<1>3. \A r \in Repos : fullFrom[r] \in Nat /\ mark[r] \in Nat /\ Behind(mark[r]) \in Nat
  BY <1>1, TimeTypes
<1>4. \A p \in Prs : /\ RepoOf[p] \in Repos /\ pr[p].at \in Nat /\ row[p].at \in Nat
                     /\ sync.got[p].at \in Nat
  BY <1>1, TimeTypes
<1>5. ASSUME UNCHANGED <<clock, floor, pr, row, mark, due, fullFrom>>, ~Walks',
             sync'.pc \in {"idle", "listing", "reading"} => sync'.cursor = 0
      PROVE  Goal
  <2>1. TimeInv' /\ ReadInv'
    BY <1>1, <1>5 DEF TimeInv, ReadInv
  <2>2. PassInv'
    BY <1>5 DEF PassInv, Walks
  <2>3. KeptInv'
    BY <1>1, <1>5 DEF KeptInv, Overtaken
  <2> QED
    BY <2>1, <2>2, <2>3
<1>6. CASE Start \/ ListRepos
  <2>1. /\ sync.pc \in {"idle", "listing"} /\ sync'.pc \in {"listing", "reading"}
        /\ sync'.cursor = sync.cursor
    BY <1>1, <1>6 DEF Start, ListRepos, Goto, At, TypeOK
  <2> QED
    BY <1>1, <1>5, <1>6, <2>1 DEF Start, ListRepos, PassInv, Walks
<1>7. CASE ListUnavailable \/ WalkFails \/ Crash \/ Publish
  <2>1. sync'.pc = "idle" /\ sync'.cursor = 0
    BY <1>7 DEF ListUnavailable, WalkFails, Crash, Publish, Idle
  <2> QED
    BY <1>5, <1>7, <2>1 DEF ListUnavailable, WalkFails, Crash, Publish, Walks
<1>8. CASE Written \/ WriteFails \/ LoadPullRequests \/ LoadFails
  <2>1. sync'.pc \in {"loading", "history"}
    BY <1>1, <1>8 DEF Written, WriteFails, LoadPullRequests, LoadFails, Goto, TypeOK
  <2> QED
    BY <1>5, <1>8, <2>1 DEF Written, WriteFails, LoadPullRequests, LoadFails, Walks
<1>9. ASSUME NEW stateRead \in BOOLEAN, NEW openRead \in BOOLEAN, BeginWalk(stateRead, openRead)
      PROVE  Goal
  <2>1. /\ UNCHANGED <<clock, floor, pr, row, mark, due, fullFrom, listed>>
        /\ sync.pc = "reading"
        /\ sync'.pc = "walking" /\ sync'.from = clock /\ sync'.left = listed
        /\ sync'.mode = ChooseMode(stateRead) /\ sync'.cutoff = BuildCutoff(stateRead, openRead)
        /\ sync'.cursor = sync.cursor /\ sync'.done = sync.done /\ sync'.got = sync.got
    BY <1>1, <1>9 DEF BeginWalk, At, TypeOK
  <2>2. sync.cursor = 0 /\ sync.done = {} /\ \A p \in Prs : sync.got[p].ver = 0
    BY <1>1, <2>1 DEF WalkInv, PassInv, NoCopies, Unknown
  <2>3. TimeInv'
    BY <1>1, <1>2, <1>3, <2>1 DEF TimeInv, Walks
  <2>4. ReadInv'
    BY <2>1, <2>2 DEF ReadInv
  <2>5. ASSUME ChooseMode(stateRead) = "incremental", NEW r \in listed
        PROVE  mark[r] # 0 /\ BuildCutoff(stateRead, openRead)[r] <= Behind(mark[r])
    <3>1. stateRead /\ mark[r] # 0 /\ r \in Repos
      BY <1>1, <2>5 DEF ChooseMode, NeverWalked, TypeOK
    <3>2. \A open \in SUBSET Times : Cutoff(r, open) <= Behind(mark[r])
      BY <1>1, <3>1, CutoffBound
    <3>3. OldestOpen(r) \in SUBSET Times /\ {} \in SUBSET Times
      BY <1>1, <3>1, OldestOpenType
    <3>4. BuildCutoff(stateRead, openRead)[r] = Cutoff(r, IF openRead THEN OldestOpen(r) ELSE {})
      BY <2>5, <3>1 DEF BuildCutoff
    <3> QED
      BY <3>1, <3>2, <3>3, <3>4
  <2>6. PassInv'
    BY <2>1, <2>2, <2>5 DEF PassInv
  <2>7. KeptInv'
    BY <1>1, <2>1 DEF KeptInv, Overtaken
  <2> QED
    BY <2>3, <2>4, <2>6, <2>7
<1>10. ASSUME NEW r \in Repos, ReadPage(r) PROVE Goal
  <2>1. PICK page \in SUBSET Beyond(r) : PageRead(r, page)
    BY <1>1, <1>10, ReadsPage
  <2>2. UNCHANGED <<clock, floor, pr, row, mark, due, fullFrom>>
    BY <1>10 DEF ReadPage
  <2>3. TimeInv'
    BY <1>1, <2>1, <2>2 DEF TimeInv, PageRead, Walks
  <2>4. ReadInv'
    <3>1. \A p \in Prs : sync'.got[p] = IF p \in page THEN pr[p] ELSE sync.got[p]
      BY <2>1 DEF PageRead
    <3> QED
      BY <1>1, <1>4, <2>1, <2>2, <3>1 DEF ReadInv, PageRead, Walks
  <2>5. PassInv'
    BY <2>1, <2>2, PagePasses
  <2>6. KeptInv'
    BY <1>1, <2>2 DEF KeptInv, Overtaken
  <2> QED
    BY <2>3, <2>4, <2>5, <2>6
<1>11. ASSUME NEW short \in BOOLEAN, WalkEnds(short) PROVE Goal
  <2>1. /\ UNCHANGED <<clock, floor, pr, row, mark, due, fullFrom>>
        /\ sync.pc = "walking" /\ sync'.pc = "writing" /\ sync'.from = sync.from
        /\ sync'.mode = sync.mode /\ sync'.done = sync.done /\ sync'.got = sync.got
    BY <1>1, <1>11 DEF WalkEnds, At, TypeOK
  <2>2. TimeInv' /\ ReadInv'
    BY <1>1, <2>1 DEF TimeInv, ReadInv, Walks
  <2>3. ASSUME NEW p \in Prs, Passed(p), RepoOf[p] \in sync.done
        PROVE  sync.mode = "incremental" /\ pr[p].at < Behind(mark[RepoOf[p]])
    <3>1. /\ sync.mode = "incremental" /\ pr[p].at < sync.cutoff[RepoOf[p]]
          /\ sync.cutoff[RepoOf[p]] <= Behind(mark[RepoOf[p]])
      BY <1>1, <2>1, <2>3 DEF PassInv
    <3>2. sync.cutoff[RepoOf[p]] \in Nat
      BY <1>1, <1>4, TimeTypes
    <3> QED
      BY <1>3, <1>4, <3>1, <3>2
  <2>4. \A p \in Prs : Passed(p)' => Passed(p)
    BY <2>1 DEF Passed
  <2>5. PassInv'
    BY <1>1, <2>1, <2>3, <2>4 DEF PassInv, Behind
  <2>6. KeptInv'
    BY <1>1, <2>1 DEF KeptInv, Overtaken
  <2> QED
    BY <2>2, <2>5, <2>6
<1>12. ASSUME NEW p \in Prs, SavePullRequest(p) PROVE Goal
  <2>1. /\ UNCHANGED <<clock, floor, pr, sync, mark, due, fullFrom>>
        /\ row' = [row EXCEPT ![p] = sync.got[p]]
        /\ sync.pc = "writing" /\ sync.got[p].ver # 0
    BY <1>12 DEF SavePullRequest, At, Unsaved, Known
  <2>2. \A q \in Prs : row'[q] = IF q = p THEN sync.got[p] ELSE row[q]
    BY <1>1, <2>1 DEF TypeOK
  <2>3. /\ sync.got[p].at <= pr[p].at
        /\ sync.got[p].at = pr[p].at \/ sync.from < pr[p].at
    BY <1>1, <2>1 DEF ReadInv, Walks
  <2>4. TimeInv'
    BY <1>1, <2>1, <2>2, <2>3 DEF TimeInv, Walks
  <2>5. ReadInv' /\ PassInv'
    BY <1>1, <2>1 DEF ReadInv, PassInv, Passed, Key, Walks
  <2>6. ASSUME NEW q \in Prs, Overtaken(q)', mark[RepoOf[q]] # 0, ~due[RepoOf[q]]
        PROVE  Behind(mark[RepoOf[q]]) <= pr[q].at \/ fullFrom[RepoOf[q]] < pr[q].at
    <3>1. CASE q = p
      <4>1. sync.from < pr[p].at
        BY <2>1, <2>2, <2>3, <2>6, <3>1 DEF Overtaken
      <4>2. fullFrom[RepoOf[p]] <= sync.from
        BY <1>1, <1>4, <2>1 DEF TimeInv, Walks
      <4> QED
        BY <1>2, <1>3, <1>4, <3>1, <4>1, <4>2
    <3>2. CASE q # p
      BY <1>1, <2>1, <2>2, <2>6, <3>2 DEF KeptInv, Overtaken
    <3> QED
      BY <3>1, <3>2
  <2>7. KeptInv'
    BY <2>1, <2>6 DEF KeptInv
  <2> QED
    BY <2>4, <2>5, <2>7
<1>13. ASSUME NEW r \in Repos, RecordSync(r) PROVE Goal
  <2>1. /\ UNCHANGED <<clock, floor, pr, row>>
        /\ sync.pc = "writing" /\ sync'.pc = "writing" /\ sync'.from = sync.from
        /\ sync'.got = sync.got /\ sync'.mode = sync.mode /\ sync'.done = sync.done \ {r}
        /\ r \in sync.done /\ Unsaved = {}
    BY <1>1, <1>13 DEF RecordSync, At, Unrecorded, TypeOK
  <2>2. /\ mark' = [mark EXCEPT ![r] = Max({mark[r]} \cup Seen(r))]
        /\ due' = [due EXCEPT ![r] = due[r] /\ sync.mode # "full"]
        /\ fullFrom' = [fullFrom EXCEPT ![r] = IF sync.mode = "full" THEN sync.from ELSE fullFrom[r]]
    BY <1>13 DEF RecordSync
  <2>3. \A q \in Repos : q # r => mark'[q] = mark[q] /\ due'[q] = due[q] /\ fullFrom'[q] = fullFrom[q]
    BY <1>1, <2>2 DEF TypeOK
  <2>4. /\ fullFrom'[r] = IF sync.mode = "full" THEN sync.from ELSE fullFrom[r]
        /\ due'[r] = (due[r] /\ sync.mode # "full")
    BY <1>1, <2>2 DEF TypeOK
  <2>5. TimeInv'
    <3>1. /\ sync.from <= clock /\ floor <= sync.from + 1
          /\ \A q \in Repos : fullFrom[q] <= clock /\ fullFrom[q] <= sync.from
      BY <1>1, <2>1 DEF TimeInv, Walks
    <3>2. \A q \in Repos : ~due[q] => floor <= fullFrom[q] + 1
      BY <1>1 DEF TimeInv
    <3>3. fullFrom'[r] <= clock /\ fullFrom'[r] <= sync.from /\ (~due'[r] => floor <= fullFrom'[r] + 1)
      <4>1. CASE sync.mode = "full"
        BY <1>2, <2>4, <3>1, <4>1
      <4>2. CASE sync.mode # "full"
        BY <2>4, <3>1, <3>2, <4>2
      <4> QED
        BY <4>1, <4>2
    <3>4. \A q \in Repos :
              /\ fullFrom'[q] <= clock /\ fullFrom'[q] <= sync.from
              /\ ~due'[q] => floor <= fullFrom'[q] + 1
      BY <2>3, <3>1, <3>2, <3>3
    <3> QED
      BY <1>1, <2>1, <3>1, <3>4 DEF TimeInv
  <2>6. ReadInv'
    BY <1>1, <2>1 DEF ReadInv, Walks
  <2>7. PassInv'
    <3>1. \A q \in Repos : q # r => Behind(mark[q])' = Behind(mark[q])
      BY <2>3 DEF Behind
    <3>2. \A q \in sync'.done : q # r /\ q \in sync.done /\ q \in Repos
      BY <1>1, <2>1 DEF TypeOK
    <3>3. sync'.mode = "incremental" => \A q \in sync'.done : mark'[q] # 0
      BY <1>1, <2>1, <2>3, <3>2 DEF PassInv
    <3>4. ASSUME NEW p \in Prs, Passed(p)', RepoOf[p] \in sync'.done
          PROVE  sync'.mode = "incremental" /\ pr'[p].at < Behind(mark[RepoOf[p]])'
      <4>1. Passed(p)
        BY <2>1, <3>4 DEF Passed
      <4>2. sync.mode = "incremental" /\ pr[p].at < Behind(mark[RepoOf[p]])
        BY <1>1, <2>1, <3>2, <3>4, <4>1 DEF PassInv
      <4> QED
        BY <2>1, <3>1, <3>2, <3>4, <4>2
    <3> QED
      BY <2>1, <3>3, <3>4 DEF PassInv
  <2>8. ASSUME NEW q \in Prs, RepoOf[q] = r, Overtaken(q)', ~due'[r]
        PROVE  fullFrom'[r] < pr[q].at
    <3>1. pr[q].ver # 0 /\ pr[q].at # row[q].at /\ ~row[q].open
      BY <2>1, <2>8 DEF Overtaken
    <3>2. fullFrom[r] <= sync.from
      BY <1>1, <2>1 DEF TimeInv, Walks
    <3>3. CASE sync.from < pr[q].at
      BY <1>2, <1>3, <1>4, <2>4, <3>2, <3>3
    <3>4. CASE ~(sync.from < pr[q].at)
      <4>1. sync.got[q].ver = 0
        BY <1>1, <2>1, <3>1, <3>4 DEF ReadInv, Walks, Unsaved, Known
      <4>2. Passed(q)
        BY <1>2, <1>4, <3>1, <3>4, <4>1 DEF Passed
      <4>3. sync.mode = "incremental" /\ pr[q].at < Behind(mark[r]) /\ mark[r] # 0
        BY <1>1, <2>1, <2>8, <4>2 DEF PassInv
      <4>4. ~due[r]
        BY <2>4, <2>8, <4>3
      <4>5. Behind(mark[r]) <= pr[q].at \/ fullFrom[r] < pr[q].at
        BY <1>1, <2>8, <3>1, <4>3, <4>4 DEF KeptInv, Overtaken
      <4> QED
        BY <1>3, <1>4, <2>4, <4>3, <4>5
    <3> QED
      BY <3>3, <3>4
  <2>9. KeptInv'
    <3> SUFFICES ASSUME NEW q \in Prs, Overtaken(q)', mark'[RepoOf[q]] # 0, ~due'[RepoOf[q]]
                 PROVE  \/ Behind(mark'[RepoOf[q]]) <= pr'[q].at
                        \/ fullFrom'[RepoOf[q]] < pr'[q].at
      BY DEF KeptInv, Behind
    <3>1. CASE RepoOf[q] = r
      BY <2>1, <2>8, <3>1
    <3>2. CASE RepoOf[q] # r
      <4>1. Overtaken(q) /\ pr'[q] = pr[q]
        BY <2>1 DEF Overtaken
      <4> QED
        BY <1>1, <1>4, <2>3, <3>2, <4>1 DEF KeptInv
    <3> QED
      BY <3>1, <3>2
  <2> QED
    BY <2>5, <2>6, <2>7, <2>9
<1> QED
  BY <1>6, <1>7, <1>8, <1>9, <1>10, <1>11, <1>12, <1>13 DEF SyncSteps

LEMMA NextBehind == BehindInv /\ [Next]_syncVars => BehindInv'
<1> SUFFICES ASSUME BehindInv, [Next]_syncVars PROVE BehindInv'
  OBVIOUS
<1>1. CopyInv' /\ TypeOK'
  BY NextCopies DEF BehindInv, CopyInv
<1>2. CASE UNCHANGED syncVars
  BY <1>1, <1>2 DEF syncVars, forgeVars, storeVars, cacheVars, woeVars, listVars,
        BehindInv, TimeInv, ReadInv, PassInv, KeptInv, Passed, Key, Overtaken, Walks
<1> QED
  BY <1>1, <1>2, EnvironmentBehind, SyncBehind DEF Next, BehindInv

-----------------------------------------------------------------------------
(* Theorems.                                                               *)

\* The variables have their types, whatever is opened, granted, read or lost.
THEOREM TypeCorrect == Spec => []TypeOK
<1>1. Init => TypeOK
  BY InitType
<1>2. TypeOK /\ [Next]_syncVars => TypeOK'
  BY NextType
<1> QED
  BY <1>1, <1>2, PTL DEF Spec

\* No pull request of the dashboard disappears or goes back to an earlier change, however long
\* the lists and however syncs, failed walks, grants and changes follow one another, unless
\* the server or a statement of the store dies (cache.ts:35 "the last good render").
THEOREM NeverGoesBack == Spec => SnapshotNeverGoesBack
<1>1. Init => CopyInv
  BY InitCopies
<1>2. CopyInv /\ [Next]_syncVars => CopyInv'
  BY NextCopies
<1>3. ASSUME CopyInv, [Next]_syncVars, NEW p \in Prs, crashes' = crashes, faults = 0
      PROVE  shown'[p].ver >= shown[p].ver
  <2>1. TypeOK /\ ShownInv
    BY <1>3 DEF CopyInv
  <2>2. shown[p].ver \in Nat
    BY <2>1, CopyTypes
  <2>3. CASE Publish
    <3>1. shown' = sync.got /\ sync.pc = "history"
      BY <2>3 DEF Publish, At
    <3>2. shown[p].ver <= sync.got[p].ver /\ sync.got[p].ver \in Nat
      BY <1>3, <2>1, <3>1, CopyTypes DEF ShownInv
    <3> QED
      BY <2>2, <3>1, <3>2
  <2>4. CASE ~Publish
    <3>1. crashes \in Nat
      BY <2>1 DEF TypeOK
    <3>2. ~Crash
      BY <1>3, <3>1 DEF Crash
    <3>3. shown' = shown
      BY <1>3, <2>4, <3>2 DEF Next, Environment, SyncSteps, Opened, ChangedSilently, Updated,
            Becomes, Grant, DayPasses, Ages, RefreshList, Start, ListRepos, ListUnavailable,
            BeginWalk, ReadPage, WalkEnds, WalkFails, SavePullRequest, RecordSync, Written,
            WriteFails, LoadPullRequests, LoadFails, syncVars, cacheVars
    <3> QED
      BY <2>2, <3>3
  <2> QED
    BY <2>3, <2>4
<1>4. CopyInv /\ [Next]_syncVars =>
          [\A p \in Prs : (crashes' = crashes /\ faults = 0) => shown'[p].ver >= shown[p].ver]_syncVars
  BY <1>3
<1> QED
  BY <1>1, <1>2, <1>4, PTL DEF Spec, SnapshotNeverGoesBack

\* Nothing but the schedule makes a sync walk everything again, once each repository has a
\* pull request in the store, however many repositories there are (stats-service.ts chooseMode).
THEOREM FullWalksKeepToSchedule == Spec => FullWalksAreDue
<1>1. Init => CopyInv /\ RowInv
  BY InitCopies
<1>2. CopyInv /\ RowInv /\ [Next]_syncVars => CopyInv' /\ RowInv'
  BY NextCopies, NextRows
<1>3. ASSUME CopyInv, RowInv, [Next]_syncVars,
             At("reading"), sync'.pc = "walking", sync'.mode = "full", faults' + crashes = 0
      PROVE  \/ \E r \in listed : Of({r}) \cap Known(row) = {}
             \/ \E r \in listed : due[r]
  <2>1. TypeOK /\ {faults, crashes} \subseteq Nat
    BY <1>3 DEF CopyInv, TypeOK
  <2>2. PICK stateRead \in BOOLEAN, openRead \in BOOLEAN : BeginWalk(stateRead, openRead)
    <3>1. sync.pc = "reading"
      BY <1>3 DEF At
    <3>2. sync' # sync
      BY <1>3, <3>1
    <3>3. ~Environment /\ ~UNCHANGED syncVars
      BY <3>2 DEF Environment, Opened, ChangedSilently, Updated, Becomes, Grant, DayPasses,
            Ages, RefreshList, syncVars
    <3>4. ~Crash /\ ~ListUnavailable
      BY <1>3, <3>1 DEF Crash, ListUnavailable, At, Idle
    <3>5. /\ ~Start /\ ~ListRepos /\ ~WalkFails /\ ~Written /\ ~WriteFails
          /\ ~LoadPullRequests /\ ~LoadFails /\ ~Publish
      BY <3>1 DEF Start, ListRepos, WalkFails, Written, WriteFails, LoadPullRequests, LoadFails,
            Publish, At
    <3>6. /\ \A r \in Repos : ~ReadPage(r) /\ ~RecordSync(r)
          /\ \A short \in BOOLEAN : ~WalkEnds(short)
          /\ \A p \in Prs : ~SavePullRequest(p)
      BY <3>1 DEF ReadPage, RecordSync, WalkEnds, SavePullRequest, At
    <3> QED
      BY <1>3, <3>3, <3>4, <3>5, <3>6 DEF Next, SyncSteps
  <2>3. faults' \in Nat /\ faults \in Nat /\ crashes \in Nat
    BY <2>1, <2>2 DEF BeginWalk, Fault
  <2>4. faults' = 0 /\ crashes = 0
    <3>1. faults' + crashes = 0
      BY <1>3
    <3> QED
      BY <2>3, <3>1, NoneOfBoth
  <2>5. stateRead /\ faults = 0
    BY <2>2, <2>3, <2>4 DEF BeginWalk, Fault
  <2>6. ChooseMode(stateRead) = "full"
    BY <1>3, <2>1, <2>2 DEF BeginWalk, TypeOK
  <2>7. CASE \E r \in listed : due[r]
    BY <2>7
  <2>8. CASE NeverWalked # {}
    <3>1. PICK r \in listed : mark[r] = 0
      BY <2>8 DEF NeverWalked
    <3>2. \A p \in Prs : RepoOf[p] = r => row[p].ver = 0
      BY <1>3, <2>4, <2>5, <3>1 DEF RowInv, At
    <3> QED
      BY <3>1, <3>2 DEF Of, Known
  <2> QED
    BY <2>5, <2>6, <2>7, <2>8 DEF ChooseMode
<1>4. CopyInv /\ RowInv /\ [Next]_syncVars =>
          [(At("reading") /\ sync'.pc = "walking" /\ sync'.mode = "full" /\ faults' + crashes = 0) =>
              \/ \E r \in listed : Of({r}) \cap Known(row) = {}
              \/ \E r \in listed : due[r]]_syncVars
  BY <1>3
<1> QED
  BY <1>1, <1>2, <1>4, PTL DEF Spec, FullWalksAreDue

\* What the store misses of a repository lies within the next incremental walk, or the daily
\* full walk is due, for every history of changes, of pages turned while they happen, and of
\* walks, writes and servers that fail (stats-service.ts buildCutoff, and 429).
THEOREM NothingIsLeftBehind == Spec => []NothingLeftBehind
<1>1. Init => BehindInv
  BY InitBehind
<1>2. BehindInv /\ [Next]_syncVars => BehindInv'
  BY NextBehind
<1>3. ASSUME BehindInv PROVE NothingLeftBehind
  <2>1. TypeOK /\ TimeInv /\ KeptInv /\ ForgeInv
    BY <1>3 DEF BehindInv, CopyInv
  <2> SUFFICES ASSUME NEW p \in Prs, NEW r, r = RepoOf[p],
                      Missed(p), mark[r] # 0, ~due[r]
               PROVE  pr[p].at >= Cutoff(r, OldestOpen(r))
    BY DEF NothingLeftBehind
  <2>2. r \in Repos /\ pr[p].at \in Nat /\ row[p].at \in Nat /\ fullFrom[r] \in Nat /\ floor \in Nat
    BY <2>1, TimeTypes
  <2>3. OldestOpen(r) \in SUBSET Times
    BY <2>1, <2>2, OldestOpenType
  <2> DEFINE cutoff == Cutoff(r, OldestOpen(r))
  <2>4. /\ cutoff \in Nat /\ Behind(mark[r]) \in Nat
        /\ cutoff <= Behind(mark[r]) /\ cutoff <= floor
        /\ \A x \in OldestOpen(r) : cutoff <= x
    BY <2>1, <2>2, <2>3, CutoffBound, TimesAreNat
  <2> HIDE DEF cutoff
  <2>5. CASE row[p].open
    <3>1. row[p].at \in OldestOpen(r)
      BY <2>5 DEF OldestOpen, Of
    <3>2. row[p].at <= pr[p].at
      BY <2>1 DEF TimeInv
    <3>3. pr[p].at >= cutoff
      BY <2>2, <2>4, <3>1, <3>2
    <3> QED
      BY <3>3 DEF cutoff
  <2>6. CASE ~row[p].open
    <3>1. pr[p].ver # 0
      <4>1. row[p].ver <= pr[p].ver /\ row[p].ver \in Nat /\ pr[p].ver \in Nat
        BY <2>1, CopyTypes DEF ForgeInv
      <4> QED
        BY <4>1 DEF Missed
    <3>2. Behind(mark[r]) <= pr[p].at \/ fullFrom[r] < pr[p].at
      BY <2>1, <2>6, <3>1 DEF KeptInv, Overtaken, Missed
    <3>3. floor <= fullFrom[r] + 1
      BY <2>1, <2>2 DEF TimeInv
    <3>4. pr[p].at >= cutoff
      BY <2>2, <2>4, <3>2, <3>3
    <3> QED
      BY <3>4 DEF cutoff
  <2> QED
    BY <2>5, <2>6
<1> QED
  BY <1>1, <1>2, <1>3, PTL DEF Spec

-----------------------------------------------------------------------------
(* The service: types.                                                     *)

Primings == [pc : PrimeSteps, got : [Prs -> Copies], fresh : BOOLEAN]

LEMMA PrimingTypes ==
  /\ Unprimed \in Primings /\ [Unprimed EXCEPT !.pc = "done"] \in Primings
  /\ TypeOK => Stored(listed) \in [Prs -> Copies]
<1>1. NoCopies \in [Prs -> Copies] /\ Unknown \in Copies
  BY TimesAreNat DEF NoCopies, Unknown, Copies, Times
<1>2. Unprimed \in Primings
  BY <1>1 DEF Unprimed, Primings, PrimeSteps
<1>3. [Unprimed EXCEPT !.pc = "done"] \in Primings
  BY <1>2 DEF Primings, PrimeSteps
<1> QED
  BY <1>1, <1>2, <1>3 DEF Stored, TypeOK

LEMMA InitService == ServiceInit => ServiceTypeOK
<1> SUFFICES ASSUME ServiceInit PROVE ServiceTypeOK
  OBVIOUS
<1>1. TypeOK /\ sync.pc = "idle"
  BY InitType DEF ServiceInit, Init, Idle
<1> QED
  BY <1>1, PrimingTypes DEF ServiceInit, ServiceTypeOK, Primings, At

\* The steps of the service: a sync's are those of PrSync, and only the priming has others.
LEMMA ServiceSteps ==
  ASSUME [ServiceNext]_statsVars
  PROVE  Next \/ UNCHANGED syncVars \/ PrimeLists \/ PrimeSeeds \/ PrimeFails
<1>1. CASE Happens \/ EnsureFresh \/ Refresh \/ ListRejects \/ WalkRejects \/ Restart
  BY <1>1 DEF Happens, EnsureFresh, Refresh, Starts, ListRejects, WalkRejects, Restart, Next
<1>2. CASE SyncGoesOn
  <2>1. CASE Proceeds
    BY <2>1, Zenon DEF Proceeds, OtherSteps, Next, SyncSteps
  <2>2. CASE Publishes \/ \E r \in Repos : Records(r)
    BY <2>2, Zenon DEF Publishes, Records, Next, SyncSteps
  <2> QED
    BY <1>2, <2>1, <2>2 DEF SyncGoesOn
<1>3. CASE PrimeGoesOn
  BY <1>3 DEF PrimeGoesOn, PrimeReads
<1>4. CASE CooldownPasses \/ TtlPasses
  BY <1>4 DEF CooldownPasses, TtlPasses
<1>5. CASE UNCHANGED statsVars
  BY <1>5 DEF statsVars
<1> QED
  BY <1>1, <1>2, <1>3, <1>4, <1>5 DEF ServiceNext

LEMMA SyncTypes ==
  ASSUME ServiceTypeOK, [ServiceNext]_statsVars
  PROVE  TypeOK'
<1> USE DEF forgeVars, storeVars, cacheVars, woeVars, listVars
<1>1. TypeOK /\ prime.got \in [Prs -> Copies]
  BY DEF ServiceTypeOK
<1>2. CASE Next \/ UNCHANGED syncVars
  BY <1>1, <1>2, NextType
<1>3. CASE PrimeLists
  BY <1>1, <1>3 DEF PrimeLists, TypeOK
<1>4. CASE PrimeSeeds
  BY <1>1, <1>4 DEF PrimeSeeds, TypeOK
<1>5. CASE PrimeFails
  <2>1. faults' \in 0 .. MaxWoes
    BY <1>1, <1>5, TimesAreNat DEF PrimeFails, Fault, Woe, TypeOK
  <2> QED
    BY <1>1, <1>5, <2>1 DEF PrimeFails, TypeOK
<1> QED
  BY <1>2, <1>3, <1>4, <1>5, ServiceSteps

LEMMA NextService == ServiceTypeOK /\ [ServiceNext]_statsVars => ServiceTypeOK'
<1> SUFFICES ASSUME ServiceTypeOK, [ServiceNext]_statsVars PROVE ServiceTypeOK'
  OBVIOUS
<1> USE DEF forgeVars, storeVars, cacheVars, woeVars, listVars
<1> DEFINE ServiceTypes == /\ prime \in Primings
                           /\ {stale, cooling} \subseteq BOOLEAN
                           /\ lastSync \in [Repos -> {"never", "recent", "old"}]
                           /\ fetch \in {"idle", "loading", "error"}
           Told == sync.pc = "idle" \/ fetch = "loading"
<1>1. TypeOK /\ ServiceTypes /\ Told
  BY DEF ServiceTypeOK, Primings, At
<1>2. TypeOK'
  BY SyncTypes
<1>3. ServiceTypes' /\ Told'
  <2>1. CASE UNCHANGED statsVars
    BY <1>1, <2>1 DEF statsVars, serviceVars, syncVars
  <2>2. CASE Happens
    <3>1. UNCHANGED serviceVars /\ sync' = sync
      BY <2>2 DEF Happens, Environment, Opened, Updated, ChangedSilently, Becomes, Grant, DayPasses,
                  Ages, RefreshList
    <3> QED
      BY <1>1, <3>1 DEF serviceVars
  <2>3. CASE PrimeGoesOn \/ PrimeFails
    <3>1. UNCHANGED <<sync, lastSync, fetch, cooling>>
      BY <2>3 DEF PrimeGoesOn, PrimeFails, PrimeLists, PrimeReads, PrimeSeeds, syncVars
    <3>2. CASE PrimeLists
      <4>1. prime' \in Primings /\ stale' = stale
        BY <1>1, <3>2 DEF PrimeLists, Primings, PrimeSteps
      <4> QED
        BY <1>1, <3>1, <4>1
    <3>3. CASE PrimeReads
      <4>1. prime' \in Primings /\ stale' = stale
        BY <1>1, <3>3, PrimingTypes DEF PrimeReads, Primings, PrimeSteps
      <4> QED
        BY <1>1, <3>1, <4>1
    <3>4. CASE PrimeSeeds \/ PrimeFails
      <4>1. prime' \in Primings /\ prime.fresh \in BOOLEAN
        BY <1>1, <3>4, PrimingTypes DEF PrimeSeeds, PrimeFails, Primed, Primings
      <4>2. stale' \in BOOLEAN
        BY <1>1, <3>4, <4>1 DEF PrimeSeeds, PrimeFails
      <4> QED
        BY <1>1, <3>1, <4>1, <4>2
    <3> QED
      BY <2>3, <3>2, <3>3, <3>4 DEF PrimeGoesOn
  <2>4. CASE EnsureFresh \/ Refresh
    BY <1>1, <2>4 DEF EnsureFresh, Refresh, Starts, Loading
  <2>5. CASE Proceeds
    <3>1. UNCHANGED serviceVars /\ sync.pc # "idle"
      BY <2>5, Zenon DEF Proceeds, OtherSteps, ListRepos, BeginWalk, ReadPage, WalkEnds,
         SavePullRequest, Written, WriteFails, LoadPullRequests, LoadFails, At
    <3> QED
      BY <1>1, <3>1 DEF serviceVars
  <2>6. CASE Publishes
    BY <1>1, <2>6 DEF Publishes, Publish, Idle
  <2>7. ASSUME NEW r \in Repos, Records(r) PROVE ServiceTypes' /\ Told'
    BY <1>1, <2>7 DEF Records, RecordSync, At
  <2>8. CASE ListRejects \/ WalkRejects
    <3>1. CASE ListRejects
      BY <1>1, <3>1 DEF ListRejects, ListUnavailable, Idle, serviceVars
    <3>2. CASE WalkRejects
      BY <1>1, <3>2 DEF WalkRejects, WalkFails, Idle
    <3> QED
      BY <2>8, <3>1, <3>2
  <2>9. CASE CooldownPasses
    BY <1>1, <2>9 DEF CooldownPasses, syncVars
  <2>10. CASE TtlPasses
    <3>1. prime' \in Primings
      BY <1>1, <2>10 DEF TtlPasses, Primings
    <3> QED
      BY <1>1, <2>10, <3>1 DEF TtlPasses, syncVars
  <2>11. CASE Restart
    BY <1>1, <2>11, PrimingTypes DEF Restart, Crash, Idle
  <2> HIDE DEF ServiceTypes, Told
  <2> QED
    BY <2>1, <2>2, <2>3, <2>4, <2>5, <2>6, <2>7, <2>8, <2>9, <2>10, <2>11
       DEF ServiceNext, SyncGoesOn
<1> QED
  BY <1>2, <1>3 DEF ServiceTypeOK, Primings, At

-----------------------------------------------------------------------------
(* What is shown.                                                          *)

AsStored(copies) == \A p \in Known(copies) : copies[p] = row[p]

\* No sync is past its walk, so that the rows are those of the last one that was published.
Between == sync.pc \in {"idle", "listing", "reading", "walking"}

FreshInv ==
    /\ ServiceTypeOK
    /\ faults = 0 =>
        /\ cached /\ Between => AsStored(shown)
        /\ ~cached /\ Between /\ prime.pc = "read" => AsStored(prime.got)
        /\ sync.pc = "history" => AsStored(sync.got)

LEMMA StoredIsStored == AsStored(Stored(listed))
BY DEF AsStored, Stored, Known, Unknown

LEMMA NextFresh == FreshInv /\ [ServiceNext]_statsVars => FreshInv'
<1> SUFFICES ASSUME FreshInv, [ServiceNext]_statsVars, faults' = 0
             PROVE  /\ cached' /\ Between' => AsStored(shown)'
                    /\ ~cached' /\ Between' /\ prime'.pc = "read" => AsStored(prime.got)'
                    /\ sync'.pc = "history" => AsStored(sync.got)'
  BY NextService DEF FreshInv
<1> USE DEF forgeVars, storeVars, cacheVars, woeVars, listVars
<1> DEFINE Goal == /\ cached' /\ Between' => AsStored(shown)'
                   /\ ~cached' /\ Between' /\ prime'.pc = "read" => AsStored(prime.got)'
                   /\ sync'.pc = "history" => AsStored(sync.got)'
<1> SUFFICES Goal
  OBVIOUS
<1>1. ServiceTypeOK /\ TypeOK
  BY DEF FreshInv, ServiceTypeOK
<1>2. ~Fault
  BY <1>1, TimesAreNat DEF Fault, TypeOK
<1>3. ASSUME faults' = faults PROVE
        /\ cached /\ Between => AsStored(shown)
        /\ ~cached /\ Between /\ prime.pc = "read" => AsStored(prime.got)
        /\ sync.pc = "history" => AsStored(sync.got)
  BY <1>3 DEF FreshInv
<1>4. ASSUME UNCHANGED <<faults, row, cacheVars, sync, prime>> PROVE Goal
  BY <1>3, <1>4 DEF Between, AsStored, Known
<1>5. ASSUME UNCHANGED <<faults, row, cacheVars, prime>>, Between, sync'.pc # "history" PROVE Goal
  BY <1>3, <1>5 DEF AsStored, Known
<1>6. CASE UNCHANGED statsVars
  BY <1>4, <1>6 DEF statsVars, serviceVars, syncVars
<1>7. CASE Happens
  <2>1. UNCHANGED <<faults, row, cacheVars, sync, prime>>
    BY <1>7 DEF Happens, serviceVars, Environment, Opened, Updated, ChangedSilently, Becomes, Grant,
                DayPasses, Ages, RefreshList
  <2> QED
    BY <1>4, <2>1
<1>8. CASE PrimeGoesOn \/ PrimeFails
  <2>1. CASE PrimeLists
    <3>1. UNCHANGED <<faults, row, cacheVars, sync>> /\ prime'.pc = "reading"
      BY <1>1, <2>1 DEF PrimeLists, ServiceTypeOK
    <3> QED
      BY <1>3, <3>1 DEF Between, AsStored, Known
  <2>2. CASE PrimeReads
    <3>1. UNCHANGED <<faults, row, cacheVars, sync, listed>> /\ prime'.got = Stored(listed)
      BY <2>2 DEF PrimeReads, syncVars
    <3> QED
      BY <1>3, <3>1, StoredIsStored DEF Between, AsStored, Known
  <2>3. CASE PrimeSeeds
    <3>1. /\ UNCHANGED <<faults, row, sync>> /\ prime'.pc = "done" /\ prime.pc = "read"
          /\ UNCHANGED cacheVars \/ (~cached /\ shown' = prime.got)
      BY <1>1, <2>3 DEF PrimeSeeds, Primed, Seeds, Unprimed
    <3> QED
      BY <1>3, <3>1 DEF Between, AsStored, Known
  <2>4. CASE PrimeFails
    BY <1>2, <2>4 DEF PrimeFails
  <2> QED
    BY <1>8, <2>1, <2>2, <2>3, <2>4 DEF PrimeGoesOn
<1>9. CASE EnsureFresh \/ Refresh
  <2>1. /\ UNCHANGED <<faults, row, cacheVars, prime>> /\ Between /\ sync'.pc # "history"
    BY <1>1, <1>9 DEF EnsureFresh, Refresh, Starts, Start, Goto, At, Between, TypeOK
  <2> QED
    BY <1>5, <2>1
<1>10. CASE Proceeds
  <2>1. CASE ListRepos
    BY <1>1, <1>5, <1>10, <2>1 DEF Proceeds, ListRepos, Goto, At, Between, TypeOK, serviceVars
  <2>2. ASSUME NEW stateRead \in BOOLEAN, NEW openRead \in BOOLEAN, BeginWalk(stateRead, openRead)
        PROVE  Goal
    <3>1. /\ UNCHANGED <<faults, row, cacheVars, prime>> /\ Between /\ sync'.pc = "walking"
      BY <1>1, <1>2, <1>10, <2>2 DEF Proceeds, BeginWalk, At, Between, TypeOK, serviceVars
    <3> QED
      BY <1>5, <3>1
  <2>3. ASSUME NEW r \in Repos, ReadPage(r) PROVE Goal
    <3>1. /\ UNCHANGED <<faults, row, cacheVars, prime>> /\ Between /\ sync'.pc = "walking"
      BY <1>1, <1>10, <2>3 DEF Proceeds, ReadPage, At, Between, TypeOK, serviceVars
    <3> QED
      BY <1>5, <3>1
  <2>4. ASSUME NEW short \in BOOLEAN, WalkEnds(short) PROVE Goal
    <3>1. /\ UNCHANGED <<faults, row, cacheVars, prime>> /\ Between /\ sync'.pc = "writing"
      BY <1>1, <1>10, <2>4 DEF Proceeds, WalkEnds, At, Between, TypeOK, serviceVars
    <3> QED
      BY <1>5, <3>1
  <2>5. ASSUME NEW p \in Prs, SavePullRequest(p) PROVE Goal
    BY <2>5 DEF SavePullRequest, At, Between
  <2>6. CASE Written
    BY <1>1, <2>6 DEF Written, Goto, Between, TypeOK
  <2>7. CASE LoadPullRequests
    <3>1. /\ UNCHANGED <<faults, row>> /\ sync'.pc = "history" /\ sync'.got = Stored(listed)
      BY <1>1, <2>7 DEF LoadPullRequests, TypeOK
    <3> QED
      BY <3>1, StoredIsStored DEF Between, AsStored, Known
  <2>8. CASE WriteFails \/ LoadFails
    BY <1>2, <2>8 DEF WriteFails, LoadFails
  <2> HIDE DEF Goal
  <2> QED
    BY <1>10, <2>1, <2>2, <2>3, <2>4, <2>5, <2>6, <2>7, <2>8 DEF Proceeds, OtherSteps
<1>11. CASE Publishes
  <2>1. /\ UNCHANGED <<faults, row>> /\ sync.pc = "history" /\ cached' /\ shown' = sync.got
        /\ sync'.pc = "idle"
    BY <1>11 DEF Publishes, Publish, At, Idle
  <2> QED
    BY <1>3, <2>1 DEF AsStored, Known
<1>12. ASSUME NEW r \in Repos, Records(r) PROVE Goal
  <2>1. sync'.pc = "writing"
    BY <1>1, <1>12 DEF Records, RecordSync, At, TypeOK
  <2> QED
    BY <2>1 DEF Between
<1>13. CASE ListRejects \/ WalkRejects
  <2>1. /\ UNCHANGED <<faults, row, cacheVars, prime>> /\ Between /\ sync'.pc = "idle"
    BY <1>13 DEF ListRejects, ListUnavailable, WalkRejects, WalkFails, At, Between, Idle, serviceVars
  <2> QED
    BY <1>5, <2>1
<1>14. CASE CooldownPasses
  BY <1>4, <1>14 DEF CooldownPasses, syncVars
<1>15. CASE TtlPasses
  <2>1. /\ UNCHANGED <<faults, row, cacheVars, sync>>
        /\ prime'.pc = prime.pc /\ prime'.got = prime.got
    BY <1>1, <1>15 DEF TtlPasses, syncVars, ServiceTypeOK
  <2> QED
    BY <1>3, <2>1 DEF Between, AsStored, Known
<1>16. CASE Restart
  <2>1. ~cached' /\ cached' = FALSE /\ prime'.pc = "listing" /\ sync'.pc = "idle"
    BY <1>16 DEF Restart, Crash, Unprimed, Idle
  <2> QED
    BY <2>1
<1> HIDE DEF Goal
<1> QED
  BY <1>6, <1>7, <1>8, <1>9, <1>10, <1>11, <1>12, <1>13, <1>14, <1>15, <1>16
     DEF ServiceNext, SyncGoesOn

-----------------------------------------------------------------------------
(* Theorems.                                                               *)

\* The variables have their types, and a dashboard is told of a sync for as long as it goes on
\* (stats-service.ts:644, set before the first await), whatever primes, fails or restarts.
THEOREM ServiceTypeCorrect == ServiceSpec => []ServiceTypeOK
<1>1. ServiceInit => ServiceTypeOK
  BY InitService
<1>2. ServiceTypeOK /\ [ServiceNext]_statsVars => ServiceTypeOK'
  BY NextService
<1> QED
  BY <1>1, <1>2, PTL DEF ServiceSpec

\* Between syncs the dashboard shows what is stored, in whatever order primings, syncs and
\* restarts begin and end, unless a statement of the store has failed (cache.ts:16).
THEOREM ShownWasStored == ServiceSpec => []ShownIsStored
<1>1. ServiceInit => FreshInv
  BY InitService DEF ServiceInit, Init, FreshInv, Idle, Unprimed
<1>2. FreshInv /\ [ServiceNext]_statsVars => FreshInv'
  BY NextFresh
<1>3. FreshInv => ShownIsStored
  BY DEF FreshInv, ShownIsStored, At, Between, AsStored
<1> QED
  BY <1>1, <1>2, <1>3, PTL DEF ServiceSpec

==============================================================================
