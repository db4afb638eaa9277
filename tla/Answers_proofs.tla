---------------------------- MODULE Answers_proofs ----------------------------
(***************************************************************************)
(* Whose pull request the work is credited to, that it is credited once,   *)
(* and that the tables of the pull requests agree, for any sessions,       *)
(* places, repositories and bounds.  WorldInv says what the pull requests  *)
(* are like: the newest of a repository has the greatest number, and no    *)
(* two were merged at a moment.  WorkDiffers says it of the units of work. *)
(*                                                                         *)
(* The sums of an answer are sizes of sets: a record or a split of a       *)
(* session stands for the units of work that it counts (Units), a figure   *)
(* of a table for the bars that it is long (Bars); no two parts of a sum   *)
(* have one in common, and so (SumIsSize) the sum of their figures is the  *)
(* size of what they stand for together.                                   *)
(***************************************************************************)
EXTENDS Answers, FiniteSetTheorems, WellFoundedInduction, TLAPS

-----------------------------------------------------------------------------
(* The least and the greatest of some numbers.                             *)

LEMMA MinOf ==
  ASSUME NEW S \in SUBSET Nat, S # {}
  PROVE  Min(S) \in S /\ \A x \in S : Min(S) <= x
<1>1. PICK m \in S : \A x \in S : ~ (<<x, m>> \in OpToRel(<, Nat))
  BY WFMin, NatLessThanWellFounded, Zenon
<1>2. \A x \in S : m <= x
  <2> TAKE x \in S
  <2>1. m \in Nat /\ x \in Nat
    OBVIOUS
  <2>2. ~ (x < m)
    BY <1>1, <2>1, Zenon DEF OpToRel
  <2> QED
    BY <2>1, <2>2
<1> QED
  BY <1>2 DEF Min

LEMMA MaxOf ==
  ASSUME NEW S \in SUBSET Nat, S # {}, NEW n \in Nat, \A x \in S : x <= n
  PROVE  Max(S) \in S /\ \A x \in S : x <= Max(S)
<1> DEFINE T == {n - x : x \in S}
<1>1. T \in SUBSET Nat /\ T # {}
  <2>1. \A x \in S : n - x \in Nat
    OBVIOUS
  <2> QED
    BY <2>1
<1>2. Min(T) \in T /\ \A y \in T : Min(T) <= y
  <2> HIDE DEF T
  <2> QED
    BY <1>1, MinOf
<1>3. PICK m \in S : Min(T) = n - m
  BY <1>2
<1>4. \A x \in S : n - m <= n - x
  BY <1>2, <1>3
<1>5. \A x \in S : x <= m
  BY <1>4
<1> QED
  BY <1>5 DEF Max

-----------------------------------------------------------------------------
(* Sums.                                                                   *)

Some(s) == CHOOSE x \in s : TRUE

\* What a fold over S asks of the function that it goes by.
Adds(i, f, S) == i = [s \in SUBSET S |-> IF s = {} THEN 0 ELSE f[Some(s)] + i[s \ {Some(s)}]]

\* If the terms of a sum are the sizes of sets no two of which share a member, then it is the size of
\* their union.  The sizes are what the fold asks of its function, and no other function has that of it:
\* of the sets that it would give another sum, a smallest would be without one of its members.
LEMMA SumIsSize ==
  ASSUME NEW S, IsFiniteSet(S), NEW f, NEW F, NEW W, IsFiniteSet(W),
         \A x \in S : F[x] \subseteq W /\ f[x] = Cardinality(F[x]),
         \A x, y \in S : x # y => F[x] \cap F[y] = {}
  PROVE  /\ \E i : Adds(i, f, S)
         /\ \A i : Adds(i, f, S) => i[S] = Cardinality(UNION {F[x] : x \in S})
<1> DEFINE U(s) == UNION {F[x] : x \in s}
           sizes == [s \in SUBSET S |-> Cardinality(U(s))]
<1>1. \A s \in SUBSET S : s # {} => Some(s) \in s
  BY DEF Some
<1>2. ASSUME NEW s \in SUBSET S, NEW x \in s
      PROVE  Cardinality(U(s)) = f[x] + Cardinality(U(s \ {x}))
  <2>1. U(s) = F[x] \cup U(s \ {x}) /\ F[x] \cap U(s \ {x}) = {}
    OBVIOUS
  <2>2. IsFiniteSet(F[x]) /\ IsFiniteSet(U(s \ {x}))
    <3>1. F[x] \in SUBSET W /\ U(s \ {x}) \in SUBSET W
      OBVIOUS
    <3> HIDE DEF U
    <3> QED
      BY <3>1, FS_Subset
  <2> HIDE DEF U
  <2>3. Cardinality(U(s)) = Cardinality(F[x]) + Cardinality(U(s \ {x})) - Cardinality({})
    <3>1. Cardinality(F[x] \cup U(s \ {x})) =
              Cardinality(F[x]) + Cardinality(U(s \ {x})) - Cardinality(F[x] \cap U(s \ {x}))
      BY <2>2, FS_Union
    <3> QED
      BY <2>1, <3>1, Zenon
  <2>4. Cardinality(F[x]) \in Nat /\ Cardinality(U(s \ {x})) \in Nat
    BY <2>2, FS_CardinalityType
  <2>5. f[x] = Cardinality(F[x]) /\ Cardinality({}) = 0
    BY FS_EmptySet
  <2> QED
    BY <2>3, <2>4, <2>5
<1>3. Cardinality(U({})) = 0
  <2>1. U({}) = {}
    OBVIOUS
  <2> HIDE DEF U
  <2> QED
    BY <2>1, FS_EmptySet
<1>4. Adds(sizes, f, S)
  <2> HIDE DEF U
  <2>1. ASSUME NEW s \in SUBSET S
        PROVE  sizes[s] = IF s = {} THEN 0 ELSE f[Some(s)] + sizes[s \ {Some(s)}]
    BY <1>1, <1>2, <1>3
  <2> QED
    BY <2>1 DEF Adds
<1>5. ASSUME NEW i, Adds(i, f, S), NEW s \in SUBSET S
      PROVE  i[s] = Cardinality(U(s))
  <2> DEFINE Wrong == {n \in Nat : \E t \in SUBSET S : Cardinality(t) = n /\ i[t] # Cardinality(U(t))}
  <2> HIDE DEF U
  <2> SUFFICES ASSUME i[s] # Cardinality(U(s)) PROVE FALSE
    OBVIOUS
  <2>1. \A t \in SUBSET S : IsFiniteSet(t) /\ Cardinality(t) \in Nat
    BY FS_Subset, FS_CardinalityType
  <2>2. Wrong \in SUBSET Nat /\ Cardinality(s) \in Wrong
    BY <2>1
  <2>3. Min(Wrong) \in Wrong /\ \A n \in Wrong : Min(Wrong) <= n
    <3> HIDE DEF Wrong
    <3> QED
      BY <2>2, MinOf
  <2>4. PICK t \in SUBSET S : Cardinality(t) = Min(Wrong) /\ i[t] # Cardinality(U(t))
    BY <2>3
  <2>5. \A r \in SUBSET S : i[r] = IF r = {} THEN 0 ELSE f[Some(r)] + i[r \ {Some(r)}]
    BY <1>5 DEF Adds
  <2>6. t # {} /\ Some(t) \in t
    BY <1>1, <1>3, <2>4, <2>5
  <2> DEFINE v == t \ {Some(t)}
             n == f[Some(t)]
  <2>7. /\ v \in SUBSET S /\ Cardinality(v) = Cardinality(t) - 1
        /\ Cardinality(t) \in Nat /\ Cardinality(v) \in Nat
    BY <2>1, <2>6, FS_RemoveElement
  <2>8. i[v] = Cardinality(U(v))
    <3>1. Cardinality(v) \notin Wrong
      <4> HIDE DEF Wrong, v
      <4> QED
        BY <2>3, <2>4, <2>7
    <3> QED
      BY <2>7, <3>1
  <2>9. i[t] = n + i[v]
    BY <2>5, <2>6
  <2>10. Cardinality(U(t)) = n + Cardinality(U(v))
    BY <1>2, <2>6
  <2> HIDE DEF v, n
  <2> QED
    BY <2>4, <2>8, <2>9, <2>10
<1> QED
  <2>1. S \in SUBSET S
    OBVIOUS
  <2> QED
    BY <1>4, <1>5, <2>1, Zenon

Tokens(parts) == MapThenSumSet(LAMBDA x : x.tokens, parts)

\* Each sum of the answers is what its fold makes of it.
LEMMA TokensAdd ==
  ASSUME NEW S, \E i : Adds(i, [x \in S |-> x.tokens], S)
  PROVE  \E i : Adds(i, [x \in S |-> x.tokens], S) /\ Tokens(S) = i[S]
<1> DEFINE f == [x \in S |-> x.tokens]
           Goes(i) == i = [s \in SUBSET S |->
               IF s = {} THEN 0 ELSE Some(s).tokens + i[s \ {Some(s)}]]
           fold == CHOOSE i : Goes(i)
<1>1. Tokens(S) = fold[S]
  BY DEF Tokens, MapThenSumSet, MapThenFoldSet, Some
<1>2. \A s \in SUBSET S : s # {} => f[Some(s)] = Some(s).tokens
  BY DEF Some
<1>3. \A i : Adds(i, f, S) <=> Goes(i)
  BY <1>2 DEF Adds
<1>4. \E i : Goes(i)
  BY <1>3
<1>5. Goes(fold)
  <2> HIDE DEF Goes
  <2> QED
    BY <1>4
<1> HIDE DEF fold
<1> QED
  BY <1>1, <1>3, <1>5

LEMMA SumOf ==
  ASSUME NEW parts
  PROVE  LET measured == {x \in parts : x.tokens # None} IN
         sum(parts) = IF measured = {} THEN None ELSE Tokens(measured)
BY DEF sum, Tokens

LEMMA TokensInAdd ==
  ASSUME NEW t, \E i : Adds(i, [k \in DOMAIN t |-> Figure(t[k].tokens)], DOMAIN t)
  PROVE  \E i : Adds(i, [k \in DOMAIN t |-> Figure(t[k].tokens)], DOMAIN t) /\ TokensIn(t) = i[DOMAIN t]
<1> DEFINE f == [k \in DOMAIN t |-> Figure(t[k].tokens)]
           Goes(i) == i = [s \in SUBSET DOMAIN t |->
               IF s = {} THEN 0 ELSE Figure(t[Some(s)].tokens) + i[s \ {Some(s)}]]
           fold == CHOOSE i : Goes(i)
<1>1. TokensIn(t) = fold[DOMAIN t]
  BY DEF TokensIn, MapThenSumSet, MapThenFoldSet, Some
<1>2. \A s \in SUBSET DOMAIN t : s # {} => f[Some(s)] = Figure(t[Some(s)].tokens)
  BY DEF Some
<1>3. \A i : Adds(i, f, DOMAIN t) <=> Goes(i)
  BY <1>2 DEF Adds
<1>4. \E i : Goes(i)
  BY <1>3
<1>5. Goes(fold)
  <2> HIDE DEF Goes
  <2> QED
    BY <1>4
<1> HIDE DEF fold
<1> QED
  BY <1>1, <1>3, <1>5

LEMMA SessionsInAdd ==
  ASSUME NEW t, \E i : Adds(i, [k \in DOMAIN t |-> t[k].sessions], DOMAIN t)
  PROVE  \E i : Adds(i, [k \in DOMAIN t |-> t[k].sessions], DOMAIN t) /\ SessionsIn(t) = i[DOMAIN t]
<1> DEFINE f == [k \in DOMAIN t |-> t[k].sessions]
           Goes(i) == i = [s \in SUBSET DOMAIN t |->
               IF s = {} THEN 0 ELSE t[Some(s)].sessions + i[s \ {Some(s)}]]
           fold == CHOOSE i : Goes(i)
<1>1. SessionsIn(t) = fold[DOMAIN t]
  BY DEF SessionsIn, MapThenSumSet, MapThenFoldSet, Some
<1>2. \A s \in SUBSET DOMAIN t : s # {} => f[Some(s)] = t[Some(s)].sessions
  BY DEF Some
<1>3. \A i : Adds(i, f, DOMAIN t) <=> Goes(i)
  BY <1>2 DEF Adds
<1>4. \E i : Goes(i)
  BY <1>3
<1>5. Goes(fold)
  <2> HIDE DEF Goes
  <2> QED
    BY <1>4
<1> HIDE DEF fold
<1> QED
  BY <1>1, <1>3, <1>5

LEMMA CountsSum ==
  ASSUME NEW W, IsFiniteSet(W), NEW t, IsFiniteSet(DOMAIN t), NEW F,
         \A k \in DOMAIN t : F[k] \in SUBSET W /\ t[k].sessions = Cardinality(F[k]),
         \A k, j \in DOMAIN t : k # j => F[k] \cap F[j] = {}
  PROVE  SessionsIn(t) = Cardinality(UNION {F[k] : k \in DOMAIN t})
<1> DEFINE D == DOMAIN t
           f == [k \in D |-> t[k].sessions]
<1>1. \A k \in D : F[k] \subseteq W /\ f[k] = Cardinality(F[k])
  OBVIOUS
<1>2. /\ \E i : Adds(i, f, D)
      /\ \A i : Adds(i, f, D) => i[D] = Cardinality(UNION {F[k] : k \in D})
  <2> HIDE DEF f, D
  <2>1. IsFiniteSet(D) /\ \A k, j \in D : k # j => F[k] \cap F[j] = {}
    BY DEF D
  <2>2. IsFiniteSet(W)
    OBVIOUS
  <2> QED
    BY ONLY IsFiniteSet(W), <1>1, <2>1, <2>2, SumIsSize
<1>3. \E i : Adds(i, f, D) /\ SessionsIn(t) = i[D]
  BY <1>2, SessionsInAdd
<1> HIDE DEF f
<1> QED
  BY <1>2, <1>3

LEMMA DividedAdds ==
  ASSUME NEW u, \E i : Adds(i, [p \in Held(u) |-> Split(u, p).tokens], Held(u))
  PROVE  \E i : Adds(i, [p \in Held(u) |-> Split(u, p).tokens], Held(u)) /\ Divided(u) = i[Held(u)]
<1> DEFINE f == [p \in Held(u) |-> Split(u, p).tokens]
           Goes(i) == i = [s \in SUBSET Held(u) |->
               IF s = {} THEN 0 ELSE Split(u, Some(s)).tokens + i[s \ {Some(s)}]]
           fold == CHOOSE i : Goes(i)
<1>1. Divided(u) = fold[Held(u)]
  BY DEF Divided, MapThenSumSet, MapThenFoldSet, Some
<1>2. \A s \in SUBSET Held(u) : s # {} => f[Some(s)] = Split(u, Some(s)).tokens
  BY DEF Some
<1>3. \A i : Adds(i, f, Held(u)) <=> Goes(i)
  BY <1>2 DEF Adds
<1>4. \E i : Goes(i)
  BY <1>3
<1>5. Goes(fold)
  <2> HIDE DEF Goes
  <2> QED
    BY <1>4
<1> HIDE DEF fold
<1> QED
  BY <1>1, <1>3, <1>5

-----------------------------------------------------------------------------
(* The invariant.                                                          *)

Times == 0..MaxTime
Prs == [place : Places, number : Nat, created : Times, state : {"open", "merged", "closed"},
        merged : Times \cup {None}]

PrsOK ==
    /\ prs \in Seq(Prs)
    /\ \A i \in 1..Len(prs) :
           /\ prs[i].created <= now
           /\ prs[i].state = "merged" <=> prs[i].merged # None
           /\ prs[i].merged # None => prs[i].merged <= now

\* The newest of a repository has the greatest number, and no two were merged at a moment.
PrsDiffer ==
    \A i, j \in 1..Len(prs) : i < j =>
        /\ prs[i].place[1] = prs[j].place[1] => prs[j].number < prs[i].number
        /\ prs[i].merged # None => prs[i].merged # prs[j].merged

WorkOK == \A w \in work : w.session \in Sessions /\ w.place \in Places /\ w.at \in 1..now

WorldInv ==
    /\ now \in Times
    /\ kind \in [Sessions -> {"window", "session", "hookless"}]
    /\ PrsOK /\ PrsDiffer /\ WorkOK

-----------------------------------------------------------------------------
(* The invariant holds.                                                    *)

LEMMA InitWorld == Init => WorldInv
BY AttributionAssumption DEF Init, WorldInv, PrsOK, PrsDiffer, WorkOK, Times, Prs

LEMMA PrsTyped ==
  ASSUME PrsOK
  PROVE  /\ Len(prs) \in Nat /\ DOMAIN prs = 1..Len(prs)
         /\ \A i \in 1..Len(prs) :
                /\ prs[i] \in Prs /\ prs[i].number \in Nat /\ prs[i].created \in Nat
                /\ prs[i].merged # None => prs[i].merged \in Nat
<1>1. prs \in Seq(Prs)
  BY DEF PrsOK
<1>2. Times \subseteq Nat
  BY AttributionAssumption DEF Times
<1>3. ASSUME NEW pr \in Prs
      PROVE  pr.number \in Nat /\ pr.created \in Nat /\ (pr.merged # None => pr.merged \in Nat)
  BY <1>2 DEF Prs
<1> QED
  BY <1>1, <1>3

\* The list with one more in front.
LEMMA OnePrepended ==
  ASSUME PrsOK, NEW pr
  PROVE  LET all == <<pr>> \o prs IN
         /\ Len(all) = Len(prs) + 1 /\ all[1] = pr
         /\ \A i \in 1..Len(prs) : all[i + 1] = prs[i]
         /\ \A i \in 1..Len(all) : i # 1 => i - 1 \in 1..Len(prs) /\ all[i] = prs[i - 1]
         /\ pr \in Prs => all \in Seq(Prs)
<1>1. prs \in Seq(Prs) /\ Len(prs) \in Nat
  BY DEF PrsOK
<1> QED
  BY <1>1

\* A new number is none that there is.
LEMMA NumbersGrow ==
  ASSUME PrsOK, PrsDiffer, NEW repo
  PROVE  /\ NextNumber(repo) \in Nat
         /\ \A i \in 1..Len(prs) : prs[i].place[1] = repo => prs[i].number < NextNumber(repo)
<1> DEFINE own == {i \in DOMAIN prs : prs[i].place[1] = repo}
<1>1. DOMAIN prs = 1..Len(prs) /\ \A i \in 1..Len(prs) : prs[i].number \in Nat
  BY PrsTyped
<1>2. own \in SUBSET Nat
  BY <1>1
<1>3. CASE own = {}
  BY <1>1, <1>3 DEF NextNumber
<1>4. CASE own # {}
  <2> DEFINE m == Min(own)
  <2>1. m \in own /\ \A i \in own : m <= i
    <3> HIDE DEF own
    <3> QED
      BY <1>2, <1>4, MinOf
  <2>2. NextNumber(repo) = 1 + prs[m].number
    BY <1>4 DEF NextNumber
  <2> HIDE DEF m
  <2>3. m \in 1..Len(prs) /\ prs[m].place[1] = repo /\ prs[m].number \in Nat
    BY <1>1, <2>1
  <2>4. ASSUME NEW i \in 1..Len(prs), prs[i].place[1] = repo
        PROVE  prs[i].number <= prs[m].number
    <3>1. m <= i /\ prs[i].number \in Nat
      BY <1>1, <2>1, <2>4
    <3>2. i = m \/ m < i
      BY <2>3, <3>1
    <3> QED
      BY <2>3, <2>4, <3>1, <3>2 DEF PrsDiffer
  <2> QED
    BY <1>1, <2>2, <2>3, <2>4
<1> QED
  BY <1>3, <1>4

LEMMA OpenKeeps ==
  ASSUME WorldInv, NEW p \in Places, NEW by \in Sessions \cup {None}, Open(p, by)
  PROVE  WorldInv'
<1> DEFINE pr == [place |-> p, number |-> NextNumber(p[1]), created |-> now', state |-> "open",
                  merged |-> None]
<1>1. /\ now \in Nat /\ MaxTime \in Nat /\ now' = now + 1 /\ now' \in Times
      /\ prs' = <<pr>> \o prs /\ UNCHANGED <<kind, work>>
  BY AttributionAssumption DEF Open, WorldInv, Times
<1>2. PrsOK /\ PrsDiffer
  BY DEF WorldInv
<1>3. /\ NextNumber(p[1]) \in Nat
      /\ \A i \in 1..Len(prs) : prs[i].place[1] = p[1] => prs[i].number < NextNumber(p[1])
  BY <1>2, NumbersGrow
<1>4. pr \in Prs
  BY <1>1, <1>3 DEF Prs
<1>5. /\ pr.state = "open" /\ pr.merged = None /\ pr.created = now' /\ pr.number = NextNumber(p[1])
      /\ pr.place = p
  OBVIOUS
<1> HIDE DEF pr
<1>6. /\ Len(prs') = Len(prs) + 1 /\ prs'[1] = pr
      /\ \A i \in 1..Len(prs') : i # 1 => i - 1 \in 1..Len(prs) /\ prs'[i] = prs[i - 1]
      /\ prs' \in Seq(Prs)
  BY <1>1, <1>2, <1>4, OnePrepended
<1>7. Len(prs) \in Nat
  BY <1>2 DEF PrsOK
<1>8. PrsOK'
  <2>1. ASSUME NEW i \in 1..Len(prs')
        PROVE  /\ prs'[i].created <= now'
               /\ prs'[i].state = "merged" <=> prs'[i].merged # None
               /\ prs'[i].merged # None => prs'[i].merged <= now'
    <3>1. CASE i = 1
      BY <1>1, <1>5, <1>6, <3>1
    <3>2. CASE i # 1
      <4>1. i - 1 \in 1..Len(prs) /\ prs'[i] = prs[i - 1]
        BY <1>6, <3>2
      <4>2. \A j \in 1..Len(prs) :
                /\ prs[j].created <= now'
                /\ prs[j].state = "merged" <=> prs[j].merged # None
                /\ prs[j].merged # None => prs[j].merged <= now'
        <5> TAKE j \in 1..Len(prs)
        <5>1. prs[j].created \in Nat /\ (prs[j].merged # None => prs[j].merged \in Nat)
          BY <1>2, PrsTyped
        <5>2. /\ prs[j].created <= now
              /\ prs[j].state = "merged" <=> prs[j].merged # None
              /\ prs[j].merged # None => prs[j].merged <= now
          BY <1>2 DEF PrsOK
        <5> QED
          BY <1>1, <5>1, <5>2
      <4> QED
        BY <4>1, <4>2
    <3> QED
      BY <3>1, <3>2
  <2> QED
    BY <1>6, <2>1 DEF PrsOK
<1>9. PrsDiffer'
  <2> SUFFICES ASSUME NEW i \in 1..Len(prs'), NEW j \in 1..Len(prs'), i < j
               PROVE  /\ prs'[i].place[1] = prs'[j].place[1] => prs'[j].number < prs'[i].number
                      /\ prs'[i].merged # None => prs'[i].merged # prs'[j].merged
    BY DEF PrsDiffer
  <2>1. j # 1 /\ j - 1 \in 1..Len(prs) /\ prs'[j] = prs[j - 1]
    BY <1>6, <1>7
  <2>2. CASE i = 1
    BY <1>3, <1>5, <1>6, <2>1, <2>2
  <2>3. CASE i # 1
    <3>1. i - 1 \in 1..Len(prs) /\ prs'[i] = prs[i - 1] /\ i - 1 < j - 1
      BY <1>6, <1>7, <2>3
    <3> QED
      BY <1>2, <2>1, <3>1 DEF PrsDiffer
  <2> QED
    BY <2>2, <2>3
<1>10. WorkOK'
  BY <1>1 DEF WorldInv, WorkOK
<1> QED
  BY <1>1, <1>8, <1>9, <1>10 DEF WorldInv

\* One of the list settled.
LEMMA SettledPrs ==
  ASSUME PrsOK, NEW i \in DOMAIN prs, NEW pr, prs' = [prs EXCEPT ![i] = pr]
  PROVE  /\ Len(prs') = Len(prs) /\ i \in 1..Len(prs) /\ prs'[i] = pr
         /\ DOMAIN prs' = DOMAIN prs /\ DOMAIN prs = 1..Len(prs)
         /\ \A j \in 1..Len(prs) : j # i => prs'[j] = prs[j]
         /\ pr \in Prs => prs' \in Seq(Prs)
<1>1. prs \in Seq(Prs)
  BY DEF PrsOK
<1> QED
  BY <1>1

LEMMA MergeKeeps ==
  ASSUME WorldInv, NEW i \in DOMAIN prs, Merge(i)
  PROVE  WorldInv'
<1> DEFINE pr == [prs[i] EXCEPT !.state = "merged", !.merged = now]
<1>1. PrsOK /\ PrsDiffer /\ now \in Times /\ now # None
  BY AttributionAssumption DEF WorldInv, Times
<1>2. prs' = [prs EXCEPT ![i] = pr] /\ UNCHANGED <<now, kind, work>>
  BY DEF Merge
<1>3. prs[i] \in Prs
  BY <1>1 DEF PrsOK
<1>4. /\ pr \in Prs /\ pr.place = prs[i].place /\ pr.number = prs[i].number
      /\ pr.created = prs[i].created /\ pr.state = "merged" /\ pr.merged = now
  BY <1>1, <1>3 DEF Prs
<1> HIDE DEF pr
<1>5. /\ Len(prs') = Len(prs) /\ i \in 1..Len(prs) /\ prs'[i] = pr /\ prs' \in Seq(Prs)
      /\ \A j \in 1..Len(prs) : j # i => prs'[j] = prs[j]
  BY <1>1, <1>2, <1>4, SettledPrs
<1>6. PrsOK'
  BY <1>1, <1>2, <1>4, <1>5 DEF PrsOK, Times
<1>7. \A j \in 1..Len(prs) : prs[j].merged # now
  BY <1>1, SettledPrs DEF Merge, PrsOK
<1>8. PrsDiffer'
  BY <1>1, <1>4, <1>5, <1>7 DEF PrsDiffer
<1> QED
  BY <1>2, <1>6, <1>8 DEF WorldInv, WorkOK

LEMMA CloseKeeps ==
  ASSUME WorldInv, NEW i \in DOMAIN prs, Close(i)
  PROVE  WorldInv'
<1> DEFINE pr == [prs[i] EXCEPT !.state = "closed"]
<1>1. PrsOK /\ PrsDiffer
  BY DEF WorldInv
<1>2. prs' = [prs EXCEPT ![i] = pr] /\ UNCHANGED <<now, kind, work>> /\ prs[i].state = "open"
  BY DEF Close
<1>3. prs[i] \in Prs /\ i \in 1..Len(prs)
  BY <1>1 DEF PrsOK
<1>4. /\ pr \in Prs /\ pr.place = prs[i].place /\ pr.number = prs[i].number
      /\ pr.created = prs[i].created /\ pr.state = "closed" /\ pr.merged = prs[i].merged
  BY <1>1, <1>3 DEF Prs
<1> HIDE DEF pr
<1>5. /\ Len(prs') = Len(prs) /\ i \in 1..Len(prs) /\ prs'[i] = pr /\ prs' \in Seq(Prs)
      /\ \A j \in 1..Len(prs) : j # i => prs'[j] = prs[j]
  BY <1>1, <1>2, <1>4, SettledPrs
<1>6. PrsOK'
  BY <1>1, <1>2, <1>3, <1>4, <1>5 DEF PrsOK
<1>7. PrsDiffer'
  BY <1>1, <1>4, <1>5 DEF PrsDiffer
<1> QED
  BY <1>2, <1>6, <1>7 DEF WorldInv, WorkOK

LEMMA WorkKeeps ==
  ASSUME WorldInv, NEW s \in Sessions, NEW p \in Places, Work(s, p)
  PROVE  WorldInv'
<1>1. /\ now \in Nat /\ now' = now + 1 /\ now' \in Times /\ UNCHANGED <<kind, prs>>
      /\ work' = work \cup {[session |-> s, place |-> p, at |-> now']}
  BY AttributionAssumption DEF Work, WorldInv, Times
<1>2. WorkOK'
  BY <1>1 DEF WorldInv, WorkOK
<1>3. PrsOK'
  BY <1>1, PrsTyped DEF WorldInv, PrsOK
<1>4. PrsDiffer'
  BY <1>1 DEF WorldInv, PrsDiffer
<1> QED
  BY <1>1, <1>2, <1>3, <1>4 DEF WorldInv

LEMMA NextWorld == WorldInv /\ [Next]_vars => WorldInv'
<1>1. WorldInv /\ UNCHANGED vars => WorldInv'
  BY DEF vars, WorldInv, PrsOK, PrsDiffer, WorkOK
<1> QED
  BY <1>1, OpenKeeps, MergeKeeps, CloseKeeps, WorkKeeps DEF Next

LEMMA WorldInvariant == Spec => []WorldInv
<1>1. Init => WorldInv
  BY InitWorld
<1>2. WorldInv /\ [Next]_vars => WorldInv'
  BY NextWorld
<1> QED
  BY <1>1, <1>2, PTL DEF Spec

-----------------------------------------------------------------------------
(* Owners.                                                                 *)

\* A list of pull requests, or what is left of one.
Listed(all) == DOMAIN all \in SUBSET Nat /\ \A i \in DOMAIN all : closesAt(all[i]) \in Nat

\* The pull requests that a split may belong to, and the one it does belong to.
Takes(all, x) == {i \in DOMAIN all : all[i].place = x.place /\ closesAt(all[i]) >= x.from}
Owns(all, x, i) ==
    /\ i \in Takes(all, x)
    /\ \A j \in Takes(all, x) :
           /\ closesAt(all[i]) <= closesAt(all[j])
           /\ closesAt(all[i]) = closesAt(all[j]) => i <= j

LEMMA OwnerOf ==
  ASSUME NEW all, Listed(all), NEW x
  PROVE  /\ Takes(all, x) = {} => owner(all, x) = None
         /\ Takes(all, x) # {} => \E i \in DOMAIN all : Owns(all, x, i)
         /\ \A i : Owns(all, x, i) => owner(all, x) = prKey(all[i])
<1> DEFINE open == Takes(all, x)
           closings == {closesAt(all[i]) : i \in open}
           first == Min(closings)
           firsts == {i \in open : closesAt(all[i]) = first}
           m == Min(firsts)
<1>1. open = {i \in DOMAIN all : all[i].place = x.place /\ closesAt(all[i]) >= x.from}
  BY DEF Takes
<1>2. owner(all, x) = IF open = {} THEN None ELSE prKey(all[m])
  BY <1>1, Zenon DEF owner
<1> SUFFICES ASSUME open # {}
             PROVE  Owns(all, x, m) /\ \A i : Owns(all, x, i) => i = m
  BY <1>1, <1>2 DEF Owns
<1>3. open \in SUBSET Nat /\ \A i \in open : closesAt(all[i]) \in Nat
  BY <1>1 DEF Listed
<1> HIDE DEF open
<1>4. first \in closings /\ \A n \in closings : first <= n
  <2>1. closings \in SUBSET Nat /\ closings # {}
    BY <1>3
  <2> HIDE DEF closings
  <2> QED
    BY <2>1, MinOf
<1>5. \A i \in open : first <= closesAt(all[i])
  BY <1>4
<1>6. first \in Nat
  BY <1>3, <1>4
<1>7. firsts \in SUBSET Nat /\ firsts # {}
  BY <1>3, <1>4
<1> HIDE DEF first
<1>8. m \in firsts /\ \A i \in firsts : m <= i
  <2> HIDE DEF firsts
  <2> QED
    BY <1>7, MinOf
<1> HIDE DEF m
<1>9. Owns(all, x, m)
  BY <1>3, <1>5, <1>6, <1>8 DEF Owns, open
<1>10. ASSUME NEW i, Owns(all, x, i) PROVE i = m
  <2>1. i \in open /\ closesAt(all[i]) <= closesAt(all[m])
    BY <1>8, <1>10 DEF Owns, open
  <2>2. closesAt(all[i]) = first
    BY <1>3, <1>5, <1>6, <1>8, <2>1
  <2>3. i <= m /\ m <= i
    BY <1>8, <1>10, <2>1, <2>2 DEF Owns, open
  <2> QED
    BY <1>3, <1>8, <2>1, <2>3
<1> QED
  BY <1>9, <1>10

LEMMA PrsListed ==
  ASSUME WorldInv
  PROVE  /\ Listed(prs) /\ DOMAIN prs = 1..Len(prs)
         /\ \A i \in 1..Len(prs) :
                /\ closesAt(prs[i]) \in Nat
                /\ prs[i].merged # None => closesAt(prs[i]) = prs[i].merged /\ prs[i].merged < Forever
                /\ prs[i].merged = None => closesAt(prs[i]) = Forever
         /\ Forever \in Nat /\ now \in Nat /\ now < Forever
<1>1. MaxTime \in Nat /\ now \in Nat /\ now <= MaxTime /\ PrsOK
  BY AttributionAssumption DEF WorldInv, Times
<1>2. \A i \in 1..Len(prs) :
          /\ closesAt(prs[i]) \in Nat
          /\ prs[i].merged # None => closesAt(prs[i]) = prs[i].merged /\ prs[i].merged < Forever
          /\ prs[i].merged = None => closesAt(prs[i]) = Forever
  BY <1>1, PrsTyped DEF closesAt, Forever, PrsOK
<1> QED
  BY <1>1, <1>2, PrsTyped DEF Listed, Forever

\* A pull request is known by its key.
LEMMA KeysDiffer ==
  ASSUME WorldInv, NEW i \in DOMAIN prs, NEW j \in DOMAIN prs, prKey(prs[i]) = prKey(prs[j])
  PROVE  i = j
<1>1. PrsOK /\ PrsDiffer
  BY DEF WorldInv
<1>2. prs[i].place[1] = prs[j].place[1] /\ prs[i].number = prs[j].number
  BY DEF prKey
<1>3. i \in 1..Len(prs) /\ j \in 1..Len(prs) /\ prs[i].number \in Nat /\ Len(prs) \in Nat
  BY <1>1, PrsTyped
<1> QED
  BY <1>1, <1>2, <1>3 DEF PrsDiffer

LEMMA StartsOf ==
  ASSUME WorldInv, NEW s, NEW p, p \in Held(s)
  PROVE  /\ Starts(s, p) \in {w.at : w \in {x \in Of(s) : x.place = p}}
         /\ \A w \in Of(s) : w.place = p => Starts(s, p) <= w.at
         /\ Starts(s, p) \in Nat /\ Starts(s, p) <= now
<1> DEFINE ats == {w.at : w \in {x \in Of(s) : x.place = p}}
<1>1. ats # {}
  BY DEF Held
<1>2. \A a \in ats : a \in Nat /\ a <= now
  BY DEF WorldInv, WorkOK, Of, Times
<1>3. \A w \in Of(s) : w.place = p => w.at \in ats
  OBVIOUS
<1>4. Starts(s, p) = Min(ats)
  BY DEF Starts
<1> HIDE DEF ats
<1>5. Min(ats) \in ats /\ \A a \in ats : Min(ats) <= a
  BY <1>1, <1>2, MinOf
<1> QED
  BY <1>2, <1>3, <1>4, <1>5 DEF ats

-----------------------------------------------------------------------------
(* Units of work.                                                          *)

\* No two units of work were done at one moment, and there are only so many.
WorkDiffers ==
    /\ IsFiniteSet(work) /\ IsFiniteSet(links)
    /\ \A w, v \in work : w.at = v.at => w = v

LEMMA NextDiffers == WorldInv /\ WorkDiffers /\ [Next]_vars => WorkDiffers'
<1> SUFFICES ASSUME WorldInv, WorkDiffers, [Next]_vars PROVE WorkDiffers'
  OBVIOUS
<1>1. CASE UNCHANGED <<work, links>>
  BY <1>1 DEF WorkDiffers
<1>2. ASSUME NEW p \in Places, NEW by \in Sessions \cup {None}, Open(p, by)
      PROVE  WorkDiffers'
  <2> DEFINE one(s) == [session |-> s, pr |-> <<p[1], NextNumber(p[1])>>, at |-> now']
             new == {one(s) : s \in {by} \cap Sessions}
  <2>1. links' = links \cup new /\ work' = work
    BY <1>2 DEF Open, prKey
  <2>2. new \in SUBSET {one(by)}
    OBVIOUS
  <2> HIDE DEF one
  <2>3. IsFiniteSet({one(by)})
    BY FS_Singleton
  <2> HIDE DEF new
  <2>4. IsFiniteSet(new)
    BY <2>2, <2>3, FS_Subset
  <2> QED
    BY <2>1, <2>4, FS_Union DEF WorkDiffers
<1>3. ASSUME NEW p \in Places, NEW s \in Sessions, Work(s, p)
      PROVE  WorkDiffers'
  <2> DEFINE w == [session |-> s, place |-> p, at |-> now + 1]
  <2>1. work' = work \cup {w} /\ links' = links /\ w.at = now + 1
    BY <1>3 DEF Work
  <2> HIDE DEF w
  <2>2. now \in Nat /\ \A v \in work : v.at \in Nat /\ v.at <= now
    BY PrsListed DEF WorldInv, WorkOK
  <2>3. IsFiniteSet(work')
    BY <2>1, FS_AddElement DEF WorkDiffers
  <2> QED
    BY <2>1, <2>2, <2>3 DEF WorkDiffers
<1> QED
  BY <1>1, <1>2, <1>3 DEF Next, Merge, Close, vars

LEMMA DiffersInvariant == Spec => [](WorldInv /\ WorkDiffers)
<1>1. Init => WorldInv /\ WorkDiffers
  BY InitWorld, FS_EmptySet DEF Init, WorkDiffers
<1>2. WorldInv /\ WorkDiffers /\ [Next]_vars => (WorldInv /\ WorkDiffers)'
  BY NextWorld, NextDiffers
<1> QED
  BY <1>1, <1>2, PTL DEF Spec

\* The units of work that a record or a split of a session stands for.
Units(x) == {w \in Of(x.session) : w.at \in x.from..x.to}
Measured(parts) == UNION {Units(x) : x \in {y \in parts : y.tokens # None}}
IsPart(x) == x.tokens # None => x.tokens = Cardinality(Units(x))

LEMMA UnitsFinite ==
  ASSUME WorkDiffers
  PROVE  /\ \A x : Units(x) \in SUBSET work /\ IsFiniteSet(Units(x)) /\ Cardinality(Units(x)) \in Nat
         /\ \A s : Of(s) \in SUBSET work /\ IsFiniteSet(Of(s)) /\ Cardinality(Of(s)) \in Nat
         /\ \A P : /\ Measured(P) \in SUBSET work /\ IsFiniteSet(Measured(P))
                  /\ Cardinality(Measured(P)) \in Nat
<1>1. \A x : Units(x) \in SUBSET work
  BY DEF Units, Of
<1>2. \A s : Of(s) \in SUBSET work
  BY DEF Of
<1>3. \A P : Measured(P) \in SUBSET work
  BY <1>1 DEF Measured
<1>4. \A T \in SUBSET work : IsFiniteSet(T) /\ Cardinality(T) \in Nat
  BY FS_Subset, FS_CardinalityType DEF WorkDiffers
<1> QED
  BY <1>1, <1>2, <1>3, <1>4

LEMMA RollupIs ==
  ASSUME WorldInv, WorkDiffers, NEW r \in Everything.sessions
  PROVE  /\ Of(r.session) # {} /\ r = Rollup(r.session)
         /\ Units(r) = Of(r.session) /\ IsPart(r) /\ r.tokens # None /\ r.from \in Nat /\ r.from <= now
<1>1. PICK s \in Sessions : Of(s) # {} /\ r = Rollup(s)
  BY DEF Everything
<1> DEFINE ats == {w.at : w \in Of(s)}
<1>2. /\ r.session = s /\ r.tokens = Cardinality(Of(s)) /\ r.from = Min(ats) /\ r.to = Max(ats)
  BY <1>1 DEF Rollup
<1>3. now \in Nat /\ ats \in SUBSET Nat /\ ats # {} /\ \A a \in ats : a <= now
  BY <1>1, PrsListed DEF WorldInv, WorkOK, Of
<1> HIDE DEF ats
<1>4. Min(ats) \in ats /\ Max(ats) \in ats /\ \A a \in ats : Min(ats) <= a /\ a <= Max(ats)
  BY <1>3, MinOf, MaxOf
<1> DEFINE lo == Min(ats)
           hi == Max(ats)
<1>5. \A a \in ats : a \in lo..hi
  BY <1>3, <1>4
<1>6. \A w \in Of(s) : w.at \in lo..hi
  BY <1>5 DEF ats
<1>7. Units(r) = Of(s)
  <2> HIDE DEF lo, hi
  <2> QED
    BY <1>2, <1>6 DEF Units, lo, hi
<1>8. r.tokens # None
  BY <1>2, UnitsFinite, AttributionAssumption
<1> QED
  BY <1>1, <1>2, <1>3, <1>4, <1>7, <1>8 DEF IsPart

\* What a branch of a session was held for: up to the first moment of the next.
LEMMA EndsOf ==
  ASSUME WorldInv, NEW s, NEW p, p \in Held(s)
  PROVE  /\ \A q \in Held(s) : Starts(s, q) > Starts(s, p) => Ends(s, p) < Starts(s, q)
         /\ Ends(s, p) \in Int
         /\ (\A q \in Held(s) : q = p) => \A w \in Of(s) : w.at \in Starts(s, p)..Ends(s, p)
<1> DEFINE ats == {w.at : w \in {x \in Of(s) : x.place = p}}
           seen == Max(ats)
           later == {Starts(s, q) : q \in {x \in Held(s) : Starts(s, x) > Starts(s, p)}}
<1>1. Ends(s, p) = IF later = {} THEN seen ELSE Min({seen, Min(later) - 1})
  BY DEF Ends
<1>2. \A q \in Held(s) : Starts(s, q) \in Nat /\ Starts(s, q) <= now
  BY StartsOf
<1>3. ats \in SUBSET Nat /\ ats # {} /\ now \in Nat /\ \A a \in ats : a <= now
  BY PrsListed DEF WorldInv, WorkOK, Of, Held
<1>4. seen \in ats /\ seen \in Nat /\ \A a \in ats : a <= seen
  <2> HIDE DEF ats
  <2> QED
    BY <1>3, MaxOf
<1>5. later \in SUBSET Nat /\ \A n \in later : n > 0
  BY <1>2
<1>6. later # {} => Min(later) \in Nat /\ Min(later) > 0 /\ \A n \in later : Min(later) <= n
  <2> HIDE DEF later
  <2> QED
    BY <1>5, MinOf
<1>7. \A q \in Held(s) : Starts(s, q) > Starts(s, p) => Starts(s, q) \in later
  OBVIOUS
<1>8. (\A q \in Held(s) : q = p) => later = {}
  BY <1>2
<1>9. \A w \in Of(s) : w.place \in Held(s) /\ (w.place = p => w.at \in ats /\ Starts(s, p) <= w.at)
  BY StartsOf DEF Held
<1> HIDE DEF later, seen
<1> DEFINE two == {seen, Min(later) - 1}
           m == Min(two)
<1>10. later # {} => m \in Nat /\ m < Min(later)
  <2> SUFFICES ASSUME later # {} PROVE m \in Nat /\ m < Min(later)
    OBVIOUS
  <2> DEFINE k == Min(later)
  <2>1. two \in SUBSET Nat /\ two # {} /\ k - 1 \in two /\ k \in Nat
    BY <1>4, <1>6
  <2> HIDE DEF two
  <2>2. m \in two /\ m <= k - 1
    BY <2>1, MinOf
  <2> HIDE DEF m, k
  <2>3. m \in Nat /\ m < k
    BY <2>1, <2>2
  <2> QED
    BY <2>3 DEF k
<1>11. \A q \in Held(s) : Starts(s, q) > Starts(s, p) => Ends(s, p) < Starts(s, q)
  <2> TAKE q \in Held(s)
  <2> HAVE Starts(s, q) > Starts(s, p)
  <2>1. Starts(s, q) \in later /\ later # {}
    BY <1>7
  <2>2. Ends(s, p) = m
    BY <1>1, <2>1
  <2> HIDE DEF m
  <2> QED
    BY <1>2, <1>6, <1>10, <2>1, <2>2
<1>12. (\A q \in Held(s) : q = p) => \A w \in Of(s) : w.at \in Starts(s, p)..Ends(s, p)
  <2> HAVE \A q \in Held(s) : q = p
  <2> TAKE w \in Of(s)
  <2>1. Ends(s, p) = seen
    BY <1>1, <1>8
  <2>2. w.at \in ats /\ Starts(s, p) <= w.at
    BY <1>9
  <2> HIDE DEF ats
  <2>3. w.at \in Nat /\ w.at <= seen
    BY <1>3, <1>4, <2>2
  <2> HIDE DEF seen
  <2>4. Starts(s, p) \in Nat /\ seen \in Nat
    BY <1>2, <1>4
  <2> QED
    BY <2>1, <2>2, <2>3, <2>4
<1> QED
  <2>1. Ends(s, p) \in Int
    <3>1. CASE later = {}
      BY <1>1, <1>4, <3>1
    <3>2. CASE later # {}
      <4>1. Ends(s, p) = m
        BY <1>1, <3>2
      <4> HIDE DEF m
      <4> QED
        BY <1>10, <3>2, <4>1
    <3> QED
      BY <3>1, <3>2
  <2> QED
    BY <2>1, <1>11, <1>12

LEMMA SplitIs ==
  ASSUME WorldInv, WorkDiffers, NEW x \in Everything.splits
  PROVE  /\ x.place \in Held(x.session) /\ x = Split(x.session, x.place)
         /\ x.session \in Sessions /\ Of(x.session) # {} /\ kind[x.session] # "hookless"
         /\ x.from = Starts(x.session, x.place) /\ x.to = Ends(x.session, x.place)
         /\ Units(x) \subseteq Of(x.session)
         /\ NamesAreDistinct => IsPart(x)
         /\ x.tokens = None => kind[x.session] = "session"
<1>1. PICK s \in Sessions : /\ Of(s) # {} /\ kind[s] # "hookless"
                            /\ \E p \in Held(s) : x = Split(s, p)
  BY DEF Everything
<1>2. PICK p \in Held(s) : x = Split(s, p)
  BY <1>1
<1>3. x.session = s /\ x.place = p /\ x.from = Starts(s, p) /\ x.to = Ends(s, p)
  BY <1>2 DEF Split
<1>4. Units(x) = {w \in Of(s) : w.at \in Starts(s, p)..Ends(s, p)}
  BY <1>3 DEF Units
<1>5. CASE Cardinality(Held(s)) = 1
  <2>1. \A q \in Held(s) : q = p
    <3>1. Held(s) = {w.place : w \in Of(s)}
      BY DEF Held
    <3>2. IsFiniteSet(Held(s))
      <4> DEFINE f == [w \in Of(s) |-> w.place]
      <4>1. f \in Surjection(Of(s), Held(s))
        BY <3>1 DEF Surjection
      <4> QED
        BY <4>1, UnitsFinite, FS_Surjection
    <3>3. \E q : Held(s) = {q}
      BY <1>5, <3>2, FS_Singleton
    <3> QED
      BY <3>3
  <2>2. \A w \in Of(s) : w.at \in Starts(s, p)..Ends(s, p)
    BY <2>1, EndsOf
  <2>3. Units(x) = Of(s)
    BY <1>4, <2>2, Zenon
  <2>4. x.tokens = Cardinality(Of(s))
    BY <1>2, <1>5 DEF Split
  <2> QED
    BY <1>1, <1>2, <1>3, <2>3, <2>4, UnitsFinite, AttributionAssumption DEF IsPart
<1>6. CASE Cardinality(Held(s)) # 1 /\ kind[s] = "session"
  <2>1. x.tokens = None
    BY <1>2, <1>6 DEF Split
  <2> QED
    BY <1>1, <1>2, <1>3, <1>4, <1>6, <2>1 DEF IsPart
<1>7. CASE Cardinality(Held(s)) # 1 /\ kind[s] # "session"
  <2>1. x.tokens = Cardinality(OnBranch(s, p[2]))
    BY <1>2, <1>7 DEF Split
  <2>2. OnBranch(s, p[2]) \in SUBSET Of(s) /\ IsFiniteSet(Of(s))
    BY UnitsFinite DEF OnBranch
  <2>3. x.tokens # None
    BY <2>1, <2>2, FS_Subset, FS_CardinalityType, AttributionAssumption
  <2>4. ASSUME NamesAreDistinct
        PROVE  x.tokens = Cardinality(Units(x))
    <3>1. \A q \in Held(s) : q[2] = p[2] => q = p
      BY <1>2, <2>4 DEF NamesAreDistinct
    <3>2. OnBranch(s, p[2]) = Units(x)
      BY <1>2, <1>4, <3>1 DEF OnBranch
    <3> QED
      BY <2>1, <3>2
  <2> QED
    BY <1>1, <1>2, <1>3, <1>4, <2>3, <2>4 DEF IsPart
<1> QED
  BY <1>5, <1>6, <1>7

\* Two branches of a session share no unit of work.
LEMMA SplitsApart ==
  ASSUME WorldInv, WorkDiffers, NEW x \in Everything.splits, NEW y \in Everything.splits, x # y
  PROVE  Units(x) \cap Units(y) = {}
<1>1. CASE x.session # y.session
  BY <1>1 DEF Units, Of
<1>2. CASE x.session = y.session
  <2> DEFINE s == x.session
  <2>1. /\ x.place # y.place /\ x.place \in Held(s) /\ y.place \in Held(s)
        /\ x.from = Starts(s, x.place) /\ y.from = Starts(s, y.place)
        /\ x.to = Ends(s, x.place) /\ y.to = Ends(s, y.place)
    BY <1>2, SplitIs
  <2>2. x.from \in Nat /\ y.from \in Nat /\ x.to \in Int /\ y.to \in Int
    BY <2>1, StartsOf, EndsOf
  <2>3. x.from # y.from
    <3>1. PICK w \in Of(s) : w.place = x.place /\ w.at = x.from
      BY <2>1, StartsOf
    <3>2. PICK v \in Of(s) : v.place = y.place /\ v.at = y.from
      BY <2>1, StartsOf
    <3> QED
      BY <2>1, <3>1, <3>2 DEF WorkDiffers, Of
  <2>4. x.to < y.from \/ y.to < x.from
    BY <2>1, <2>2, <2>3, EndsOf
  <2>5. \A w \in Of(s) : w.at \in Nat
    BY DEF WorldInv, WorkOK, Of
  <2> QED
    BY <1>2, <2>2, <2>4, <2>5 DEF Units
<1> QED
  BY <1>1, <1>2

\* The sum of the figures of parts that share no work is the size of their work.
LEMMA PartsSum ==
  ASSUME WorkDiffers, NEW P, IsFiniteSet(P), \A x \in P : IsPart(x),
         \A x, y \in P : x # y => Units(x) \cap Units(y) = {}
  PROVE  /\ Figure(sum(P)) = Cardinality(Measured(P))
         /\ sum(P) = None => Measured(P) = {}
         /\ (\E x \in P : x.tokens # None) => sum(P) # None
<1> DEFINE S == {x \in P : x.tokens # None}
           f == [x \in S |-> x.tokens]
           F == [x \in S |-> Units(x)]
<1>1. sum(P) = IF S = {} THEN None ELSE Tokens(S)
  BY SumOf
<1>2. CASE S = {}
  <2>1. Measured(P) = {}
    BY <1>2 DEF Measured
  <2> QED
    BY <1>1, <1>2, <2>1, FS_EmptySet DEF Figure
<1>3. CASE S # {}
  <2>1. IsFiniteSet(S)
    BY FS_Subset
  <2>2. \A x \in S : F[x] \subseteq work /\ f[x] = Cardinality(F[x])
    BY UnitsFinite DEF IsPart
  <2>3. \A x, y \in S : x # y => F[x] \cap F[y] = {}
    OBVIOUS
  <2>4. UNION {F[x] : x \in S} = Measured(P)
    BY DEF Measured
  <2>5. IsFiniteSet(work)
    BY DEF WorkDiffers
  <2> HIDE DEF F
  <2>6. /\ \E i : Adds(i, f, S)
        /\ \A i : Adds(i, f, S) => i[S] = Cardinality(Measured(P))
    <3> HIDE DEF f, S
    <3>1. /\ \E i : Adds(i, f, S)
          /\ \A i : Adds(i, f, S) => i[S] = Cardinality(UNION {F[x] : x \in S})
      BY <2>1, <2>2, <2>3, <2>5, SumIsSize
    <3> QED
      BY <2>4, <3>1, Zenon
  <2>7. \E i : Adds(i, f, S) /\ Tokens(S) = i[S]
    BY <2>6, TokensAdd
  <2>8. Tokens(S) = Cardinality(Measured(P))
    BY <2>6, <2>7
  <2>9. Cardinality(Measured(P)) # None
    BY UnitsFinite, AttributionAssumption
  <2> HIDE DEF S
  <2> QED
    BY <1>1, <1>3, <2>8, <2>9 DEF Figure
<1> QED
  BY <1>2, <1>3

-----------------------------------------------------------------------------
(* Answers.                                                                *)

\* So is the sum of a column whose figures are.
LEMMA ColumnSum ==
  ASSUME WorkDiffers, NEW t, IsFiniteSet(DOMAIN t), NEW F,
         \A k \in DOMAIN t : F[k] \in SUBSET work /\ Figure(t[k].tokens) = Cardinality(F[k]),
         \A k, j \in DOMAIN t : k # j => F[k] \cap F[j] = {}
  PROVE  TokensIn(t) = Cardinality(UNION {F[k] : k \in DOMAIN t})
<1> DEFINE D == DOMAIN t
           f == [k \in D |-> Figure(t[k].tokens)]
<1>1. \A k \in D : F[k] \subseteq work /\ f[k] = Cardinality(F[k])
  OBVIOUS
<1>2. IsFiniteSet(work)
  BY DEF WorkDiffers
<1>3. /\ \E i : Adds(i, f, D)
      /\ \A i : Adds(i, f, D) => i[D] = Cardinality(UNION {F[k] : k \in D})
  <2> HIDE DEF f, D
  <2>1. IsFiniteSet(D) /\ \A k, j \in D : k # j => F[k] \cap F[j] = {}
    BY DEF D
  <2> QED
    BY <1>1, <1>2, <2>1, SumIsSize
<1>4. \E i : Adds(i, f, D) /\ TokensIn(t) = i[D]
  BY <1>3, TokensInAdd
<1> HIDE DEF f
<1> QED
  BY <1>3, <1>4

\* What attribute joins: the sessions in scope, the splits that are left to match, what the sessions
\* name, the owners of the splits and the sessions that name several.
LinkedTo(j, k) == {s \in j.inScope : j.names[s.session] = {k}}
MatchedTo(j, k) == {x \in j.splits : j.owners[x] = k}
Ambiguous(j, k) == \E s \in j.several : k \in j.names[s]
RowOf(j, k) == row(LinkedTo(j, k), MatchedTo(j, k), Ambiguous(j, k))
Share(j, k) == Measured(LinkedTo(j, k) \cup MatchedTo(j, k))
Credits(j, keys) ==
    (UNION {Share(j, k) : k \in {i \in keys : RowOf(j, i).tokens # None}})
        \cup Measured(MatchedTo(j, None))

\* Each row has a share of the work, what matched none another, and no two shares have a unit in
\* common.
LEMMA RowsAddUp ==
  ASSUME WorldInv, WorkDiffers, NamesAreDistinct, NEW keys, IsFiniteSet(keys), None \notin keys, NEW j,
         j.inScope \in SUBSET Everything.sessions, IsFiniteSet(j.inScope),
         j.splits \in SUBSET Everything.splits, IsFiniteSet(j.splits),
         \A x \in j.splits : j.names[x.session] = {} /\ \E s \in j.inScope : s.session = x.session,
         NEW rows, rows = [k \in keys |-> RowOf(j, k)]
  PROVE  /\ TokensIn(rows) + Figure(sum(MatchedTo(j, None))) = Cardinality(Credits(j, keys))
         /\ Credits(j, keys) \subseteq Measured(j.inScope)
         /\ \A k \in keys : /\ ~Ambiguous(j, k)
                            /\ \A x \in MatchedTo(j, k) : x.tokens # None
                            /\ LinkedTo(j, k) \cup MatchedTo(j, k) # {}
                            => RowOf(j, k).tokens # None
<1> DEFINE inScope == j.inScope
           splits == j.splits
           linked(k) == LinkedTo(j, k)
           matched(k) == MatchedTo(j, k)
           parts(k) == linked(k) \cup matched(k)
           shared(k) == Ambiguous(j, k)
           orphans == MatchedTo(j, None)
           F == [k \in keys |-> IF rows[k].tokens = None THEN {} ELSE Measured(parts(k))]
           rowShares == UNION {F[k] : k \in keys}
           every == {s \in inScope : j.names[s.session] # {}} \cup splits
<1>1. \A x \in every : IsPart(x) /\ Units(x) \subseteq Of(x.session)
  BY RollupIs, SplitIs
<1>2. ASSUME NEW x \in every, NEW y \in every, x # y PROVE Units(x) \cap Units(y) = {}
  <2>1. CASE x \in splits /\ y \in splits
    BY <1>2, <2>1, SplitsApart
  <2>2. CASE x.session # y.session
    BY <1>1, <1>2, <2>2 DEF Of
  <2>3. CASE x \in inScope /\ y \in inScope
    <3>1. x = Rollup(x.session) /\ y = Rollup(y.session)
      BY <2>3, RollupIs
    <3> QED
      BY <1>2, <2>2, <3>1
  <2> QED
    BY <1>2, <2>1, <2>2, <2>3
<1>3. /\ \A k \in keys : parts(k) \subseteq every
      /\ \A k, i \in keys : k # i => parts(k) \cap parts(i) = {}
      /\ orphans \subseteq every /\ \A k \in keys : parts(k) \cap orphans = {}
  <2> USE DEF LinkedTo, MatchedTo
  <2>1. \A k \in keys : /\ linked(k) \subseteq {s \in inScope : j.names[s.session] # {}}
                        /\ matched(k) \subseteq splits
    OBVIOUS
  <2>2. \A s \in inScope, x \in splits : j.names[s.session] # {} => s # x
    OBVIOUS
  <2>3. \A k, i \in keys : k # i => linked(k) \cap linked(i) = {} /\ matched(k) \cap matched(i) = {}
    OBVIOUS
  <2>4. \A k \in keys : matched(k) \cap orphans = {}
    OBVIOUS
  <2>5. orphans \subseteq splits
    OBVIOUS
  <2> HIDE DEF linked, matched, orphans
  <2> QED
    BY <2>1, <2>2, <2>3, <2>4, <2>5
<1>4. IsFiniteSet(every)
  <2>1. IsFiniteSet({s \in inScope : j.names[s.session] # {}})
    BY FS_Subset
  <2> QED
    BY <2>1, FS_Union
<1>5. \A k \in keys : rows[k] = RowOf(j, k) /\ RowOf(j, k) = row(linked(k), matched(k), shared(k))
  BY DEF RowOf
<1> HIDE DEF every, linked, matched, orphans
<1>6. ASSUME NEW P \in SUBSET every
      PROVE  /\ Figure(sum(P)) = Cardinality(Measured(P))
             /\ sum(P) = None => Measured(P) = {}
             /\ (\E x \in P : x.tokens # None) => sum(P) # None
  BY <1>1, <1>2, <1>4, FS_Subset, PartsSum
<1>7. \A P, Q \in SUBSET every : P \cap Q = {} => Measured(P) \cap Measured(Q) = {}
  BY <1>2 DEF Measured
<1>8. ASSUME NEW k \in keys
      PROVE  /\ rows[k].tokens # None => rows[k].tokens = sum(parts(k))
             /\ ~shared(k) /\ (\A x \in matched(k) : x.tokens # None) /\ parts(k) # {}
                    => rows[k].tokens = sum(parts(k))
  <2> DEFINE L == linked(k)
             M == matched(k)
  <2>1. rows[k] = row(L, M, shared(k)) /\ parts(k) = L \cup M
    BY <1>5
  <2> HIDE DEF L, M, parts
  <2>2. CASE shared(k)
    BY <2>1, <2>2 DEF row
  <2>3. CASE ~shared(k)
    <3>1. /\ row(L, M, FALSE).tokens # None => row(L, M, FALSE).tokens = sum(L \cup M)
          /\ (\A x \in M : x.tokens # None) /\ L \cup M # {} => row(L, M, FALSE).tokens = sum(L \cup M)
      BY <2>3 DEF row
    <3>2. shared(k) = FALSE
      BY <2>3
    <3>3. rows[k] = row(L, M, FALSE)
      BY <2>1, <3>2, Zenon
    <3> QED
      BY <2>1, <2>3, <3>1, <3>3 DEF M
  <2> QED
    BY <2>2, <2>3 DEF M
<1>9. \A k \in keys : F[k] \in SUBSET work /\ Figure(rows[k].tokens) = Cardinality(F[k])
  <2> TAKE k \in keys
  <2>1. CASE rows[k].tokens = None
    <3>1. F[k] = {}
      BY <2>1
    <3> QED
      BY <2>1, <3>1, FS_EmptySet DEF Figure
  <2>2. CASE rows[k].tokens # None
    <3>1. F[k] = Measured(parts(k)) /\ Figure(rows[k].tokens) = Figure(sum(parts(k)))
      BY <1>8, <2>2
    <3>2. parts(k) \in SUBSET every
      BY <1>3
    <3> QED
      BY <1>6, <3>1, <3>2, UnitsFinite
  <2> QED
    BY <2>1, <2>2
<1>10. \A k, i \in keys : k # i => F[k] \cap F[i] = {}
  BY <1>3, <1>7
<1>11. TokensIn(rows) = Cardinality(rowShares)
  <2>1. DOMAIN rows = keys
    OBVIOUS
  <2> HIDE DEF F
  <2>2. /\ IsFiniteSet(DOMAIN rows)
        /\ \A k \in DOMAIN rows : F[k] \in SUBSET work /\ Figure(rows[k].tokens) = Cardinality(F[k])
        /\ \A k, i \in DOMAIN rows : k # i => F[k] \cap F[i] = {}
    BY <1>9, <1>10, <2>1
  <2>3. TokensIn(rows) = Cardinality(UNION {F[k] : k \in DOMAIN rows})
    <3>1. ASSUME NEW t, IsFiniteSet(DOMAIN t),
                 \A k \in DOMAIN t : F[k] \in SUBSET work /\ Figure(t[k].tokens) = Cardinality(F[k]),
                 \A k, i \in DOMAIN t : k # i => F[k] \cap F[i] = {}
          PROVE  TokensIn(t) = Cardinality(UNION {F[k] : k \in DOMAIN t})
      BY <3>1, ColumnSum
    <3> QED
      BY <2>2, <3>1, Zenon
  <2> QED
    BY <2>1, <2>3, Zenon
<1> DEFINE credited == rowShares \cup Measured(orphans)
<1>12. credited = (UNION {Measured(parts(k)) : k \in {i \in keys : rows[i].tokens # None}})
                      \cup Measured(orphans)
  <2>1. \A k \in keys : F[k] = IF rows[k].tokens = None THEN {} ELSE Measured(parts(k))
    OBVIOUS
  <2> HIDE DEF F
  <2>2. rowShares = UNION {Measured(parts(k)) : k \in {i \in keys : rows[i].tokens # None}}
    <3> SUFFICES ASSUME NEW w
                 PROVE  w \in rowShares <=>
                            \E k \in keys : rows[k].tokens # None /\ w \in Measured(parts(k))
      OBVIOUS
    <3> QED
      BY <2>1
  <2> QED
    BY <2>2
<1>13. TokensIn(rows) + Figure(sum(orphans)) = Cardinality(credited)
  <2>1. rowShares \cap Measured(orphans) = {}
    <3>1. \A k \in keys : F[k] \cap Measured(orphans) = {}
      BY <1>3, <1>7
    <3> HIDE DEF F
    <3> QED
      BY <3>1
  <2>2. Figure(sum(orphans)) = Cardinality(Measured(orphans))
    BY <1>3, <1>6
  <2>3. rowShares \in SUBSET work /\ Measured(orphans) \in SUBSET work
    BY <1>9, UnitsFinite
  <2> HIDE DEF rowShares
  <2>4. /\ IsFiniteSet(rowShares) /\ Cardinality(rowShares) \in Nat
        /\ IsFiniteSet(Measured(orphans)) /\ Cardinality(Measured(orphans)) \in Nat
    BY <2>3, FS_Subset, FS_CardinalityType DEF WorkDiffers
  <2>5. Cardinality(credited) =
            Cardinality(rowShares) + Cardinality(Measured(orphans)) - Cardinality({})
    <3>1. Cardinality(rowShares \cup Measured(orphans)) = Cardinality(rowShares)
              + Cardinality(Measured(orphans)) - Cardinality(rowShares \cap Measured(orphans))
      BY <2>4, FS_Union
    <3> QED
      BY <2>1, <3>1, Zenon
  <2>6. Cardinality({}) = 0
    BY FS_EmptySet
  <2> HIDE DEF credited
  <2> QED
    BY <1>11, <2>2, <2>4, <2>5, <2>6
<1>14. credited \subseteq Measured(inScope)
  <2>1. ASSUME NEW x \in every PROVE Units(x) \subseteq Measured(inScope)
    <3>1. PICK s \in inScope : s.session = x.session
      BY DEF every
    <3>2. Units(x) \subseteq Units(s) /\ s.tokens # None
      BY <1>1, <3>1, RollupIs
    <3> QED
      BY <3>2 DEF Measured
  <2>2. \A P \in SUBSET every : Measured(P) \subseteq Measured(inScope)
    BY <2>1 DEF Measured
  <2>3. \A k \in keys : F[k] \subseteq Measured(inScope)
    BY <1>3, <2>2
  <2> HIDE DEF F
  <2> QED
    BY <1>3, <2>2, <2>3
<1>15. ASSUME NEW k \in keys, ~shared(k), \A x \in matched(k) : x.tokens # None, parts(k) # {}
       PROVE  rows[k].tokens # None
  <2>1. rows[k].tokens = sum(parts(k))
    BY <1>8, <1>15
  <2>2. PICK x \in parts(k) : TRUE
    BY <1>15
  <2>3. x.tokens # None
    BY <1>15, <2>2, RollupIs DEF linked, LinkedTo
  <2> QED
    BY <1>3, <1>6, <2>1, <2>2, <2>3
<1>16. \A k \in keys : Share(j, k) = Measured(parts(k))
  BY DEF Share, linked, matched
<1>17. credited = Credits(j, keys)
  <2>1. {i \in keys : rows[i].tokens # None} = {i \in keys : RowOf(j, i).tokens # None}
    BY <1>5
  <2> DEFINE K == {i \in keys : RowOf(j, i).tokens # None}
  <2>2. {Measured(parts(k)) : k \in K} = {Share(j, k) : k \in K}
    BY <1>16
  <2> HIDE DEF parts
  <2> QED
    BY <1>12, <2>1, <2>2, Zenon DEF Credits, orphans
<1> QED
  <2>1. \A k \in keys : ~shared(k) /\ (\A x \in matched(k) : x.tokens # None) /\ parts(k) # {}
            => RowOf(j, k).tokens # None
    BY <1>5, <1>15
  <2> HIDE DEF credited
  <2> QED
    BY <1>13, <1>14, <1>17, <2>1 DEF linked, matched, orphans

LEMMA EverythingFinite ==
  ASSUME WorkDiffers
  PROVE  IsFiniteSet(Everything.sessions) /\ IsFiniteSet(Everything.splits)
<1> DEFINE f == [w \in work |-> Rollup(w.session)]
           g == [w \in work |-> Split(w.session, w.place)]
           rollups == {f[w] : w \in work}
           cut == {g[w] : w \in work}
<1>1. IsFiniteSet(work)
  BY DEF WorkDiffers
<1>2. Everything.sessions \in SUBSET rollups
  BY DEF Everything, Of
<1>3. Everything.splits \in SUBSET cut
  BY DEF Everything, Held, Of
<1>4. f \in Surjection(work, rollups) /\ g \in Surjection(work, cut)
  <2>1. f \in [work -> rollups] /\ g \in [work -> cut]
    OBVIOUS
  <2> HIDE DEF f, g
  <2> QED
    BY <2>1 DEF Surjection
<1> HIDE DEF rollups, cut
<1>5. IsFiniteSet(rollups) /\ IsFiniteSet(cut)
  BY <1>1, <1>4, FS_Surjection
<1> QED
  BY <1>2, <1>3, <1>5, FS_Subset

LEMMA RollupsSum ==
  ASSUME WorldInv, WorkDiffers, NEW P \in SUBSET Everything.sessions
  PROVE  Figure(sum(P)) = Cardinality(Measured(P))
<1>1. IsFiniteSet(P)
  BY EverythingFinite, FS_Subset
<1>2. \A s \in P : s = Rollup(s.session) /\ Units(s) = Of(s.session) /\ IsPart(s)
  BY RollupIs
<1>3. \A s, r \in P : s # r => Units(s) \cap Units(r) = {}
  BY <1>2 DEF Of
<1> QED
  BY <1>1, <1>2, <1>3, PartsSum

\* The weeks share out the sessions.
LEMMA WeeksAddUp ==
  ASSUME WorldInv, WorkDiffers, NEW inScope \in SUBSET Everything.sessions
  PROVE  /\ TokensIn(weeklySeries(inScope)) = Figure(sum(inScope))
         /\ SessionsIn(weeklySeries(inScope)) = Cardinality(inScope)
<1> DEFINE week(s) == s.from \div WeekLength
           weeks == {week(s) : s \in inScope}
           those(w) == {s \in inScope : week(s) = w}
           all == IF weeks = {} THEN {} ELSE Min(weeks)..Max(weeks)
           t == weeklySeries(inScope)
           F == [w \in all |-> Measured(those(w))]
           G == [w \in all |-> those(w)]
<1>1. t = [w \in all |-> [sessions |-> Cardinality(those(w)), tokens |-> sum(those(w))]]
  BY DEF weeklySeries
<1>2. \A s \in inScope : week(s) \in Nat /\ week(s) <= now
  <2>1. \A s \in inScope : s.from \in Nat /\ s.from <= now
    BY RollupIs
  <2>2. WeekLength \in Nat /\ WeekLength > 0 /\ now \in Nat
    BY AttributionAssumption, PrsListed
  <2>3. \A n \in Nat : n <= now => n \div WeekLength \in Nat /\ n \div WeekLength <= now
    BY <2>2
  <2> QED
    BY <2>1, <2>3
<1>3. IsFiniteSet(inScope)
  BY EverythingFinite, FS_Subset
<1> DEFINE first == Min(weeks)
           last == Max(weeks)
<1>4. IsFiniteSet(all) /\ \A s \in inScope : week(s) \in all
  <2>1. CASE weeks = {}
    BY <2>1, FS_EmptySet
  <2>2. CASE weeks # {}
    <3>1. weeks \in SUBSET Nat /\ now \in Nat /\ \A n \in weeks : n <= now
      BY <1>2, PrsListed
    <3> HIDE DEF weeks
    <3>2. first \in weeks /\ last \in weeks /\ \A n \in weeks : first <= n /\ n <= last
      BY <2>2, <3>1, MinOf, MaxOf
    <3>3. first \in Nat /\ last \in Nat /\ all = first..last
      BY <2>2, <3>1, <3>2
    <3> HIDE DEF first, last, all
    <3>4. \A n \in weeks : n \in first..last
      BY <3>1, <3>2, <3>3
    <3>5. IsFiniteSet(first..last)
      BY <3>3, FS_Interval
    <3> QED
      BY <3>3, <3>4, <3>5 DEF weeks
  <2> QED
    BY <2>1, <2>2
<1> HIDE DEF all, t
<1>5. \A s, r \in inScope : s # r => Units(s) \cap Units(r) = {}
  <2>1. \A s \in inScope : s = Rollup(s.session) /\ Units(s) = Of(s.session)
    BY RollupIs
  <2> QED
    BY <2>1 DEF Of
<1>6. \A P \in SUBSET inScope : Figure(sum(P)) = Cardinality(Measured(P))
  BY RollupsSum
<1>7. \A w \in all : those(w) \in SUBSET inScope
  OBVIOUS
<1>8. \A w, v \in all : w # v => those(w) \cap those(v) = {}
  OBVIOUS
<1>9. \A s \in inScope : \E w \in all : s \in those(w)
  BY <1>4
<1> HIDE DEF those
<1>10. /\ DOMAIN t = all
       /\ \A w \in all : t[w].sessions = Cardinality(those(w)) /\ t[w].tokens = sum(those(w))
  BY <1>1
<1>11. TokensIn(t) = Figure(sum(inScope))
  <2>1. \A w \in all : F[w] \in SUBSET work /\ Figure(t[w].tokens) = Cardinality(F[w])
    BY <1>6, <1>7, <1>10, UnitsFinite
  <2>2. \A w, v \in all : w # v => F[w] \cap F[v] = {}
    BY <1>5, <1>7, <1>8 DEF Measured
  <2>3. UNION {F[w] : w \in all} = Measured(inScope)
    <3>1. \A w \in all : F[w] = Measured(those(w))
      OBVIOUS
    <3> HIDE DEF F
    <3> QED
      BY <1>7, <1>9, <3>1 DEF Measured
  <2> HIDE DEF F
  <2>4. TokensIn(t) = Cardinality(UNION {F[w] : w \in DOMAIN t})
    BY <1>4, <1>10, <2>1, <2>2, ColumnSum
  <2> QED
    BY <1>6, <1>10, <2>3, <2>4
<1>12. SessionsIn(t) = Cardinality(inScope)
  <2>1. \A w \in all : G[w] \in SUBSET inScope /\ t[w].sessions = Cardinality(G[w])
    BY <1>7, <1>10
  <2>2. \A w, v \in all : w # v => G[w] \cap G[v] = {}
    BY <1>8
  <2>3. UNION {G[w] : w \in all} = inScope
    <3>1. \A w \in all : G[w] = those(w)
      OBVIOUS
    <3> HIDE DEF G
    <3> QED
      BY <1>7, <1>9, <3>1
  <2> HIDE DEF G
  <2>4. SessionsIn(t) = Cardinality(UNION {G[w] : w \in DOMAIN t})
    BY <1>3, <1>4, <1>10, <2>1, <2>2, CountsSum
  <2> QED
    BY <1>10, <2>3, <2>4
<1> QED
  BY <1>11, <1>12 DEF t

\* What is left of the list of pull requests in a range.
LEMMA LeftInRange ==
  ASSUME WorldInv, NEW range
  PROVE  LET left == filterPrs(prs, range)
             keys == {prKey(left[i]) : i \in DOMAIN left}
         IN Listed(left) /\ IsFiniteSet(keys) /\ None \notin keys
<1> DEFINE left == filterPrs(prs, range)
           keys == {prKey(left[i]) : i \in DOMAIN left}
           key == [i \in DOMAIN left |-> prKey(left[i])]
<1>1. DOMAIN left \subseteq DOMAIN prs /\ \A i \in DOMAIN left : left[i] = prs[i]
  BY DEF filterPrs, Restrict
<1> HIDE DEF left
<1>2. Listed(left)
  BY <1>1, PrsListed DEF Listed
<1>3. IsFiniteSet(DOMAIN left)
  <2>1. DOMAIN left \in SUBSET (1..Len(prs)) /\ Len(prs) \in Nat
    BY <1>1, PrsListed, PrsTyped DEF WorldInv
  <2>2. IsFiniteSet(1..Len(prs))
    BY <2>1, FS_Interval
  <2> QED
    BY <2>1, <2>2, FS_Subset
<1>4. key \in Surjection(DOMAIN left, keys)
  BY DEF Surjection
<1>5. IsFiniteSet(keys)
  <2> HIDE DEF key, keys
  <2> QED
    BY <1>3, <1>4, FS_Surjection
<1>6. None \notin keys
  <2>1. ASSUME NEW i \in DOMAIN left PROVE prKey(left[i]) \in Nat \X Nat
    <3>1. prs[i] \in Prs /\ prs[i].number \in Nat /\ left[i] = prs[i]
      BY <1>1, PrsListed, PrsTyped DEF WorldInv
    <3>2. prs[i].place[1] \in Nat
      BY <3>1, AttributionAssumption DEF Prs
    <3> QED
      BY <3>1, <3>2 DEF prKey
  <2> QED
    BY <2>1, AttributionAssumption
<1> QED
  BY <1>2, <1>5, <1>6 DEF left

\* Where every session can be divided, its splits are all of its work.
LEMMA DividedIsAll ==
  ASSUME WorldInv, WorkDiffers, NamesAreDistinct, NEW s \in Sessions, Of(s) # {}, kind[s] = "window",
         Divided(s) = Cardinality(Of(s)), NEW w \in Of(s)
  PROVE  \E p \in Held(s) : w \in Units(Split(s, p)) /\ Split(s, p) \in Everything.splits
<1> DEFINE P == Held(s)
           F == [p \in P |-> Units(Split(s, p))]
           f == [p \in P |-> Split(s, p).tokens]
           all == UNION {F[p] : p \in P}
<1>1. \A p \in P : Split(s, p) \in Everything.splits
  <2>1. kind[s] # "hookless"
    OBVIOUS
  <2> QED
    BY <2>1 DEF Everything
<1>2. \A p \in P : Split(s, p).session = s /\ Split(s, p).place = p
  BY DEF Split
<1>3. \A p \in P : F[p] \subseteq Of(s) /\ f[p] = Cardinality(F[p])
  <2> TAKE p \in P
  <2> DEFINE x == Split(s, p)
  <2>1. x \in Everything.splits /\ x.session = s
    BY <1>1, <1>2
  <2> HIDE DEF x
  <2>2. IsPart(x) /\ Units(x) \subseteq Of(s) /\ x.tokens # None
    BY <2>1, SplitIs
  <2> QED
    BY <2>2 DEF IsPart, x
<1>4. \A p, q \in P : p # q => F[p] \cap F[q] = {}
  <2> SUFFICES ASSUME NEW p \in P, NEW q \in P, p # q
               PROVE  Units(Split(s, p)) \cap Units(Split(s, q)) = {}
    OBVIOUS
  <2>1. Split(s, p) # Split(s, q)
    BY <1>2
  <2> QED
    BY <1>1, <2>1, SplitsApart
<1>5. IsFiniteSet(P) /\ IsFiniteSet(Of(s))
  <2> DEFINE place == [v \in Of(s) |-> v.place]
  <2>1. place \in Surjection(Of(s), P)
    BY DEF Surjection, Held
  <2> HIDE DEF place
  <2> QED
    BY <2>1, UnitsFinite, FS_Surjection
<1>6. all \in SUBSET Of(s)
  BY <1>3
<1> HIDE DEF F
<1>7. /\ \E i : Adds(i, f, P)
      /\ \A i : Adds(i, f, P) => i[P] = Cardinality(all)
  <2> HIDE DEF f, P
  <2> QED
    BY ONLY <1>3, <1>4, <1>5, SumIsSize
<1>8. \E i : Adds(i, f, P) /\ Divided(s) = i[P]
  BY <1>7, DividedAdds
<1>9. Cardinality(all) = Cardinality(Of(s))
  <2> HIDE DEF f, P, all
  <2> QED
    BY <1>7, <1>8
<1>10. all = Of(s)
  <2> HIDE DEF all
  <2> QED
    BY <1>5, <1>6, <1>9, FS_Subset
<1> QED
  BY <1>1, <1>10 DEF F

\* In every range: see AddsUp.
LEMMA AnswerAddsUp ==
  ASSUME WorldInv, WorkDiffers, NEW range
  PROVE  LET answer == current(Everything, range) IN
         /\ NamesAreDistinct => Credited(answer) <= Figure(answer.totals.tokens)
         /\ TokensIn(answer.weekly) = Figure(answer.totals.tokens)
         /\ SessionsIn(answer.weekly) = answer.totals.sessions
         /\ answer.totals.sessions + answer.otherRepoSessions + answer.sessionsWithoutHook
                = Cardinality(filterTelemetryInput(Everything, range).sessions)
         /\ range = ALL_TIME /\ NamesAreDistinct /\ Divisible =>
                Credited(answer) = Figure(answer.totals.tokens)
<1> DEFINE all == filterPrs(prs, range)
           input == filterTelemetryInput(Everything, range)
           answer == attribute(all, input, Repos)
           inScope == {s \in input.sessions : s.repo \in Repos}
           scoped == {s.session : s \in inScope}
           names == [s \in scoped |-> named(all, input, Repos, s)]
           splits == unlinked(input, names)
           owners == [x \in splits |-> owner(all, x)]
           orphans == {x \in splits : owners[x] = None}
           keys == {prKey(all[i]) : i \in DOMAIN all}
           several == {s \in scoped : Cardinality(names[s]) > 1}
           j == [inScope |-> inScope, splits |-> splits, names |-> names, owners |-> owners,
                 several |-> several]
           rows == [k \in keys |-> RowOf(j, k)]
           others == {s \in input.sessions : s.repo # None /\ s.repo \notin Repos}
           hookless == {s \in input.sessions : s.repo = None}
<1>1. /\ answer.totals.tokens = sum(inScope) /\ answer.totals.sessions = Cardinality(inScope)
      /\ answer.weekly = weeklySeries(inScope) /\ answer.unmatched.tokens = sum(orphans)
      /\ answer.otherRepoSessions = Cardinality(others)
      /\ answer.sessionsWithoutHook = Cardinality(hookless)
  BY Zenon DEF attribute
<1>2. answer.prs = rows
  <2>1. answer.prs = [k \in keys |-> row({s \in inScope : names[s.session] = {k}},
                             {x \in splits : owners[x] = k}, \E s \in several : k \in names[s])]
    BY Zenon DEF attribute
  <2>2. /\ j.inScope = inScope /\ j.splits = splits /\ j.names = names /\ j.owners = owners
        /\ j.several = several
    OBVIOUS
  <2> HIDE DEF j, inScope, splits, names, owners, several
  <2>3. \A k \in keys : RowOf(j, k) = row({s \in inScope : names[s.session] = {k}},
                             {x \in splits : owners[x] = k}, \E s \in several : k \in names[s])
    BY <2>2, Zenon DEF RowOf, LinkedTo, MatchedTo, Ambiguous
  <2> QED
    BY <2>1, <2>3, Zenon
<1>3. current(Everything, range) = answer
  BY DEF current
<1>4. /\ input.sessions = {s \in Everything.sessions : overlaps(s, range)}
      /\ input.splits \subseteq Everything.splits
      /\ \A l \in input.links : l \in links
  BY DEF filterTelemetryInput, Everything
<1>5. splits = {x \in input.splits : x.session \in scoped /\ names[x.session] = {}}
  BY DEF unlinked
<1>6. Listed(all) /\ IsFiniteSet(keys) /\ None \notin keys
  BY LeftInRange
<1> HIDE DEF all, input, answer
<1>7. /\ inScope \in SUBSET Everything.sessions /\ IsFiniteSet(inScope) /\ IsFiniteSet(input.sessions)
      /\ splits \in SUBSET Everything.splits /\ IsFiniteSet(splits)
  <2>1. inScope \in SUBSET Everything.sessions /\ input.sessions \in SUBSET Everything.sessions
    BY <1>4
  <2>2. splits \in SUBSET Everything.splits
    BY <1>4, <1>5
  <2> QED
    BY <2>1, <2>2, EverythingFinite, FS_Subset
<1>8. \A x \in splits : names[x.session] = {} /\ \E s \in inScope : s.session = x.session
  BY <1>5
<1>same. /\ j.inScope = inScope /\ j.splits = splits /\ j.names = names /\ j.owners = owners
      /\ j.several = several
  OBVIOUS
<1> HIDE DEF splits, names, owners, keys, j
<1> DEFINE linked(k) == LinkedTo(j, k)
           matched(k) == MatchedTo(j, k)
           credited == Credits(j, keys)
<1>9. ASSUME NamesAreDistinct
      PROVE  /\ TokensIn(rows) + Figure(sum(orphans)) = Cardinality(credited)
             /\ credited \subseteq Measured(inScope)
             /\ \A k \in keys : /\ ~Ambiguous(j, k)
                                /\ \A x \in matched(k) : x.tokens # None
                                /\ linked(k) \cup matched(k) # {}
                                => RowOf(j, k).tokens # None
  <2>1. MatchedTo(j, None) = orphans
    BY <1>same DEF MatchedTo
  <2> HIDE DEF inScope, orphans
  <2> QED
    BY <1>6, <1>7, <1>8, <1>9, <1>same, <2>1, RowsAddUp
<1>10. Figure(sum(inScope)) = Cardinality(Measured(inScope))
  <2> HIDE DEF inScope
  <2> QED
    BY <1>7, RollupsSum
<1>11. NamesAreDistinct => Credited(answer) = Cardinality(credited)
  BY <1>1, <1>2, <1>9 DEF Credited
<1>12. ASSUME NamesAreDistinct
       PROVE  Credited(answer) <= Figure(answer.totals.tokens)
  <2>1. Measured(inScope) \in SUBSET work /\ IsFiniteSet(Measured(inScope))
    BY UnitsFinite
  <2> DEFINE whole == Measured(inScope)
  <2>2. credited \in SUBSET whole
    BY <1>9, <1>12
  <2> HIDE DEF credited, whole
  <2>3. Cardinality(credited) <= Cardinality(whole)
    BY <2>1, <2>2, FS_Subset DEF whole
  <2> QED
    BY <1>1, <1>10, <1>11, <1>12, <2>3 DEF whole
<1>13. /\ TokensIn(answer.weekly) = Figure(answer.totals.tokens)
       /\ SessionsIn(answer.weekly) = answer.totals.sessions
  <2> HIDE DEF inScope
  <2> QED
    BY <1>1, <1>7, WeeksAddUp
<1>14. Cardinality(inScope) + Cardinality(others) + Cardinality(hookless) = Cardinality(input.sessions)
  <2>1. /\ input.sessions = (inScope \cup others) \cup hookless
        /\ inScope \cap others = {} /\ (inScope \cup others) \cap hookless = {}
    BY AttributionAssumption
  <2>2. IsFiniteSet(inScope) /\ IsFiniteSet(others) /\ IsFiniteSet(hookless)
    BY <1>7, FS_Subset
  <2> HIDE DEF inScope, others, hookless
  <2>3. Cardinality(inScope \cup others) = Cardinality(inScope) + Cardinality(others) - Cardinality({})
    <3>1. Cardinality(inScope \cup others) =
              Cardinality(inScope) + Cardinality(others) - Cardinality(inScope \cap others)
      BY <2>2, FS_Union
    <3> QED
      BY <2>1, <3>1, Zenon
  <2>4. IsFiniteSet(inScope \cup others)
    BY <2>2, FS_Union
  <2>5. Cardinality(input.sessions) =
            Cardinality(inScope \cup others) + Cardinality(hookless) - Cardinality({})
    <3> DEFINE both == inScope \cup others
    <3>1. Cardinality(both \cup hookless) =
              Cardinality(both) + Cardinality(hookless) - Cardinality(both \cap hookless)
      <4> HIDE DEF both
      <4> QED
        BY <2>2, <2>4, FS_Union DEF both
    <3> QED
      BY <2>1, <3>1, Zenon
  <2>6. Cardinality({}) = 0 /\ Cardinality(inScope) \in Nat /\ Cardinality(others) \in Nat
        /\ Cardinality(hookless) \in Nat
    BY <2>2, FS_EmptySet, FS_CardinalityType
  <2> QED
    BY <2>3, <2>5, <2>6
<1>15. ASSUME range = ALL_TIME, NamesAreDistinct, Divisible
       PROVE  Credited(answer) = Figure(answer.totals.tokens)
  <2>1. /\ input.sessions = Everything.sessions /\ input.splits = Everything.splits
    <3>1. /\ \A s \in Everything.sessions : overlaps(s, range)
          /\ \A x \in Everything.splits : overlaps(x, range)
      BY <1>15 DEF overlaps, ALL_TIME
    <3>2. \A x \in Everything.splits : \E s \in Everything.sessions : s.session = x.session
      <4>1. \A s : Rollup(s).session = s
        BY DEF Rollup
      <4>2. \A x \in Everything.splits : x.session \in Sessions /\ Of(x.session) # {}
        BY SplitIs
      <4>3. \A s \in Sessions : Of(s) # {} => Rollup(s) \in Everything.sessions
        BY DEF Everything
      <4> QED
        BY <4>1, <4>2, <4>3
    <3> QED
      BY <3>1, <3>2, <1>4 DEF filterTelemetryInput, input
  <2>2. \A s \in inScope : /\ s.session \in Sessions /\ Of(s.session) # {} /\ kind[s.session] = "window"
                            /\ Divided(s.session) = Cardinality(Of(s.session))
                            /\ Cardinality({l \in links : l.session = s.session}) <= 1
    <3>1. \A s \in Everything.sessions : s.session \in Sessions
      <4>1. \A s : Rollup(s).session = s
        BY DEF Rollup
      <4>2. \A r \in Everything.sessions : \E s \in Sessions : r = Rollup(s)
        BY DEF Everything
      <4> QED
        BY <4>1, <4>2
    <3> QED
      BY <1>7, <1>15, <3>1, RollupIs DEF Divisible
  <2>3. ASSUME NEW s \in inScope, names[s.session] # {}
        PROVE  \E k \in keys : names[s.session] = {k}
    <3> DEFINE said == {l \in links : l.session = s.session}
    <3>1. names[s.session] \subseteq {l.pr : l \in said} \cap keys
      <4>1. names[s.session] = named(all, input, Repos, s.session)
        BY DEF names
      <4> QED
        BY <4>1, <1>4 DEF named, keys
    <3>2. PICK k \in names[s.session] : TRUE
      BY <2>3
    <3>3. PICK l \in said : l.pr = k
      BY <3>1, <3>2
    <3>4. IsFiniteSet(said)
      BY FS_Subset DEF WorkDiffers
    <3>5. said = {l}
      <4>1. Cardinality(said) <= 1
        BY <2>2
      <4> HIDE DEF said
      <4>2. Cardinality(said) = 0 \/ Cardinality(said) = 1
        BY <3>4, <4>1, FS_CardinalityType
      <4>3. \E m : said = {m}
        BY <3>3, <3>4, <4>2, FS_EmptySet, FS_Singleton
      <4> QED
        BY <3>3, <4>3
    <3> HIDE DEF said
    <3> QED
      BY <3>1, <3>2, <3>3, <3>5
  <2>4. \A k \in keys : ~Ambiguous(j, k)
    <3>1. \A s \in scoped : names[s] = {} \/ \E k : names[s] = {k}
      BY <2>3
    <3>2. \A s \in scoped : ~ (Cardinality(names[s]) > 1)
      <4>1. Cardinality({}) = 0 /\ \A k : Cardinality({k}) = 1
        BY FS_EmptySet, FS_Singleton
      <4> TAKE s \in scoped
      <4>2. names[s] = {} => Cardinality(names[s]) = 0
        BY <4>1
      <4>3. (\E k : names[s] = {k}) => Cardinality(names[s]) = 1
        BY <4>1, Zenon
      <4>4. names[s] = {} \/ \E k : names[s] = {k}
        BY <3>1, Zenon
      <4> DEFINE n == Cardinality(names[s])
      <4>5. n = 0 \/ n = 1
        BY <4>2, <4>3, <4>4, Zenon
      <4> HIDE DEF n
      <4>6. ~ (n > 1)
        BY <4>5
      <4> QED
        BY <4>6 DEF n
    <3>3. several = {}
      BY <3>2
    <3> QED
      BY <1>same, <3>3 DEF Ambiguous
  <2>5. \A k \in keys : \A x \in matched(k) : x.tokens # None
    <3>1. ASSUME NEW x \in splits PROVE x.tokens # None
      <4>1. PICK s \in inScope : s.session = x.session
        BY <1>8
      <4> QED
        BY <1>7, <2>2, <4>1, SplitIs
    <3> QED
      BY <1>same, <3>1 DEF MatchedTo
  <2>6. \A k \in keys : linked(k) \cup matched(k) # {} => Share(j, k) \subseteq credited
    BY <1>9, <1>15, <2>4, <2>5 DEF Credits
  <2>7. Measured(inScope) \subseteq credited
    <3> SUFFICES ASSUME NEW s \in inScope, NEW w \in Units(s), s.tokens # None PROVE w \in credited
      BY DEF Measured
    <3>1. CASE names[s.session] # {}
      <4>1. PICK k \in keys : names[s.session] = {k}
        BY <2>3, <3>1
      <4>2. s \in linked(k)
        BY <1>same, <4>1 DEF LinkedTo
      <4>3. w \in Share(j, k)
        BY <4>2 DEF Measured, Share
      <4> HIDE DEF credited, linked
      <4> QED
        BY <2>6, <4>2, <4>3
    <3>2. CASE names[s.session] = {}
      <4>1. w \in Of(s.session)
        BY <1>7, RollupIs
      <4>2. PICK p \in Held(s.session) : /\ w \in Units(Split(s.session, p))
                                         /\ Split(s.session, p) \in Everything.splits
        BY <1>15, <2>2, <4>1, DividedIsAll
      <4> DEFINE x == Split(s.session, p)
      <4>3. x.session = s.session
        BY DEF Split
      <4> HIDE DEF x
      <4>4. x \in splits /\ x \in Everything.splits
        BY <1>5, <2>1, <3>2, <4>2, <4>3 DEF x
      <4>5. x.tokens # None
        BY <2>2, <4>3, <4>4, SplitIs
      <4>6. CASE owners[x] = None
        <5>1. x \in MatchedTo(j, None)
          BY <1>same, <4>4, <4>6 DEF MatchedTo
        <5> QED
          BY <4>2, <4>5, <5>1 DEF Measured, Credits, x
      <4>7. CASE owners[x] # None
        <5>1. owners[x] \in keys
          <6>1. owners[x] = owner(all, x)
            BY <4>4 DEF owners
          <6>2. \E i \in DOMAIN all : owner(all, x) = prKey(all[i])
            BY <1>6, <4>7, <6>1, OwnerOf
          <6> QED
            BY <6>1, <6>2 DEF keys
        <5>2. x \in matched(owners[x])
          BY <1>same, <4>4 DEF MatchedTo
        <5>3. w \in Share(j, owners[x])
          BY <4>2, <4>5, <5>2 DEF Measured, Share, x
        <5> HIDE DEF credited, matched
        <5> QED
          BY <2>6, <5>1, <5>2, <5>3
      <4> QED
        BY <4>6, <4>7
    <3> QED
      BY <3>1, <3>2
  <2>8. credited = Measured(inScope)
    <3> HIDE DEF credited
    <3> QED
      BY <1>9, <1>15, <2>7
  <2> HIDE DEF credited
  <2> QED
    BY <1>1, <1>10, <1>11, <1>15, <2>8
<1> QED
  BY <1>1, <1>3, <1>12, <1>13, <1>14, <1>15 DEF input

-----------------------------------------------------------------------------
(* The figures of compute.  A column of figures is a set of bars, one at   *)
(* each position and as long as the figure, and its sum is their number.   *)

\* A sum is a fold over the positions.
LEMMA SumGoes ==
  ASSUME NEW f, \E i : Adds(i, f, DOMAIN f)
  PROVE  \E i : Adds(i, f, DOMAIN f) /\ SumFunction(f) = i[DOMAIN f]
<1> DEFINE Goes(i) == i = [s \in SUBSET DOMAIN f |->
               IF s = {} THEN 0 ELSE f[Some(s)] + i[s \ {Some(s)}]]
           fold == CHOOSE i : Goes(i)
<1>1. SumFunction(f) = fold[DOMAIN f]
  BY DEF SumFunction, SumFunctionOnSet, FoldFunctionOnSet, MapThenFoldSet, Some
<1>2. \A i : Adds(i, f, DOMAIN f) <=> Goes(i)
  BY DEF Adds
<1>3. Goes(fold)
  <2> HIDE DEF Goes
  <2> QED
    BY <1>2
<1> HIDE DEF fold
<1> QED
  BY <1>1, <1>2, <1>3

\* The sum of a column whose figures are the sizes of sets that share no member.
LEMMA SizesSum ==
  ASSUME NEW D, IsFiniteSet(D), NEW f, DOMAIN f = D, NEW F, NEW W, IsFiniteSet(W),
         \A x \in D : F[x] \subseteq W /\ f[x] = Cardinality(F[x]),
         \A x, y \in D : x # y => F[x] \cap F[y] = {}
  PROVE  SumFunction(f) = Cardinality(UNION {F[x] : x \in D})
<1>1. /\ \E i : Adds(i, f, D)
      /\ \A i : Adds(i, f, D) => i[D] = Cardinality(UNION {F[x] : x \in D})
  BY SumIsSize
<1>2. \E i : Adds(i, f, D) /\ SumFunction(f) = i[D]
  BY <1>1, SumGoes
<1> QED
  BY <1>1, <1>2

\* Finitely many positions have finitely many values ...
LEMMA ImageFinite ==
  ASSUME NEW g, IsFiniteSet(DOMAIN g)
  PROVE  IsFiniteSet({g[x] : x \in DOMAIN g})
<1> DEFINE T == {g[x] : x \in DOMAIN g}
           h == [x \in DOMAIN g |-> g[x]]
<1>1. h \in Surjection(DOMAIN g, T)
  BY DEF Surjection
<1> QED
  BY <1>1, FS_Surjection

\* ... and finite sets at them have a finite union.
LEMMA UnionFinite ==
  ASSUME NEW g, IsFiniteSet(DOMAIN g), \A x \in DOMAIN g : IsFiniteSet(g[x])
  PROVE  IsFiniteSet(UNION {g[x] : x \in DOMAIN g})
BY ImageFinite, FS_UNION

\* A figure of a list as a bar at its position: the sum is the size of the bars.
Bar(f, x) == {x} \X (1 .. f[x])
Bars(f) == UNION {Bar(f, x) : x \in DOMAIN f}

\* A column of figures.
Figured(f) == IsFiniteSet(DOMAIN f) /\ \A x \in DOMAIN f : f[x] \in Nat

\* A bar is as long as its figure ...
LEMMA BarIs ==
  ASSUME NEW f, NEW x, f[x] \in Nat
  PROVE  IsFiniteSet(Bar(f, x)) /\ Cardinality(Bar(f, x)) = f[x]
<1>1. IsFiniteSet({x}) /\ Cardinality({x}) = 1
  BY FS_Singleton
<1>2. IsFiniteSet(1 .. f[x]) /\ Cardinality(1 .. f[x]) = f[x]
  BY FS_Interval
<1>3. /\ IsFiniteSet({x} \X (1 .. f[x]))
      /\ Cardinality({x} \X (1 .. f[x])) = Cardinality({x}) * Cardinality(1 .. f[x])
  BY <1>1, <1>2, FS_Product
<1>4. Cardinality({x} \X (1 .. f[x])) = f[x]
  BY <1>1, <1>2, <1>3
<1> QED
  BY <1>3, <1>4 DEF Bar

\* ... and the bars together have as many members as the figures add up to.
LEMMA BarsSum ==
  ASSUME NEW f, Figured(f)
  PROVE  IsFiniteSet(Bars(f)) /\ SumFunction(f) = Cardinality(Bars(f))
<1> DEFINE F == [x \in DOMAIN f |-> Bar(f, x)]
<1>1. IsFiniteSet(DOMAIN f) /\ \A x \in DOMAIN f : f[x] \in Nat
  BY DEF Figured
<1>2. \A x \in DOMAIN f : IsFiniteSet(Bar(f, x)) /\ Cardinality(Bar(f, x)) = f[x]
  BY <1>1, BarIs
<1>3. IsFiniteSet(Bars(f)) /\ Bars(f) = UNION {F[x] : x \in DOMAIN f}
  <2>1. Bars(f) = UNION {F[x] : x \in DOMAIN F}
    BY DEF Bars
  <2>2. IsFiniteSet(DOMAIN F) /\ \A x \in DOMAIN F : IsFiniteSet(F[x])
    BY <1>1, <1>2
  <2> HIDE DEF F
  <2>3. IsFiniteSet(UNION {F[x] : x \in DOMAIN F})
    BY <2>2, UnionFinite
  <2> USE DEF F
  <2> QED
    BY <2>1, <2>3
<1>4. \A x \in DOMAIN f : F[x] \subseteq Bars(f) /\ f[x] = Cardinality(F[x])
  BY <1>2 DEF Bars
<1>5. \A x, y \in DOMAIN f : x # y => F[x] \cap F[y] = {}
  BY DEF Bar
<1> HIDE DEF F
<1> QED
  BY <1>1, <1>3, <1>4, <1>5, SizesSum

\* What is nowhere more does not add up to more.
LEMMA SumMonotone ==
  ASSUME NEW f, NEW g, Figured(f), Figured(g), DOMAIN f = DOMAIN g,
         \A x \in DOMAIN f : f[x] <= g[x]
  PROVE  SumFunction(f) <= SumFunction(g)
<1>1. Bars(f) \in SUBSET Bars(g)
  <2>1. ASSUME NEW x \in DOMAIN f
        PROVE  Bar(f, x) \subseteq Bar(g, x)
    <3>1. f[x] \in Nat /\ g[x] \in Nat /\ f[x] <= g[x]
      BY DEF Figured
    <3>2. 1 .. f[x] \subseteq 1 .. g[x]
      BY <3>1
    <3> QED
      BY <3>2 DEF Bar
  <2> QED
    BY <2>1 DEF Bars
<1>2. IsFiniteSet(Bars(g)) /\ SumFunction(f) = Cardinality(Bars(f)) /\ SumFunction(g) = Cardinality(Bars(g))
  BY BarsSum
<1> QED
  BY <1>1, <1>2, FS_Subset

\* A bar of the sum is one of the first column and, above it, one of the second.
LEMMA SumAdds ==
  ASSUME NEW f, NEW g, NEW h, Figured(f), Figured(g), DOMAIN g = DOMAIN f, DOMAIN h = DOMAIN f,
         \A x \in DOMAIN f : h[x] = f[x] + g[x]
  PROVE  SumFunction(h) = SumFunction(f) + SumFunction(g)
<1> DEFINE above(x) == {x} \X (f[x] + 1 .. f[x] + g[x])
           A == [x \in DOMAIN g |-> above(x)]
           V == UNION {A[x] : x \in DOMAIN g}
<1>1. /\ IsFiniteSet(DOMAIN f)
      /\ \A x \in DOMAIN f : f[x] \in Nat /\ g[x] \in Nat /\ h[x] \in Nat /\ h[x] = f[x] + g[x]
  BY DEF Figured
<1>2. Figured(h)
  BY <1>1 DEF Figured
<1>3. /\ IsFiniteSet(Bars(h)) /\ SumFunction(h) = Cardinality(Bars(h))
      /\ IsFiniteSet(Bars(f)) /\ SumFunction(f) = Cardinality(Bars(f))
  BY <1>2, BarsSum
<1>4. \A x \in DOMAIN f : Bar(h, x) = Bar(f, x) \cup above(x) /\ Bar(f, x) \cap above(x) = {}
  <2> TAKE x \in DOMAIN f
  <2>1. 1 .. h[x] = (1 .. f[x]) \cup (f[x] + 1 .. f[x] + g[x])
    BY <1>1
  <2>2. (1 .. f[x]) \cap (f[x] + 1 .. f[x] + g[x]) = {}
    BY <1>1
  <2> QED
    BY <2>1, <2>2 DEF Bar
<1>5. \A x \in DOMAIN g : g[x] = Cardinality(A[x])
  <2> TAKE x \in DOMAIN g
  <2>1. f[x] \in Nat /\ g[x] \in Nat
    BY <1>1
  <2>2. IsFiniteSet({x}) /\ Cardinality({x}) = 1
    BY FS_Singleton
  <2>3. /\ IsFiniteSet(f[x] + 1 .. f[x] + g[x])
        /\ Cardinality(f[x] + 1 .. f[x] + g[x]) = g[x]
    <3> DEFINE a == f[x] + 1
               b == f[x] + g[x]
    <3>1. a \in Int /\ b \in Int /\ (IF a > b THEN 0 ELSE b - a + 1) = g[x]
      BY <2>1
    <3> HIDE DEF a, b
    <3>2. IsFiniteSet(a .. b) /\ Cardinality(a .. b) = IF a > b THEN 0 ELSE b - a + 1
      BY <3>1, FS_Interval
    <3> USE DEF a, b
    <3> QED
      BY <3>1, <3>2
  <2>4. Cardinality(above(x)) = Cardinality({x}) * Cardinality(f[x] + 1 .. f[x] + g[x])
    BY <2>2, <2>3, FS_Product
  <2>5. Cardinality(above(x)) = g[x]
    BY <2>1, <2>2, <2>3, <2>4
  <2> QED
    BY <2>5
<1>6. \A x \in DOMAIN g : A[x] \subseteq Bars(h)
  BY <1>4 DEF Bars
<1>7. \A x, y \in DOMAIN g : x # y => A[x] \cap A[y] = {}
  OBVIOUS
<1>8. Bars(h) = Bars(f) \cup V /\ Bars(f) \cap V = {}
  <2>1. Bars(h) = Bars(f) \cup V
    <3> HIDE DEF above
    <3> QED
      BY <1>4 DEF Bars
  <2>2. \A x, y \in DOMAIN f : Bar(f, x) \cap above(y) = {}
    <3>1. \A x, y \in DOMAIN f : x # y => Bar(f, x) \cap above(y) = {}
      BY DEF Bar
    <3> HIDE DEF above
    <3> QED
      BY <1>4, <3>1
  <2>3. Bars(f) \cap V = {}
    <3> HIDE DEF above
    <3> QED
      BY <2>2 DEF Bars
  <2> QED
    BY <2>1, <2>3
<1>9. SumFunction(g) = Cardinality(V)
  <2> HIDE DEF A
  <2> QED
    BY <1>1, <1>3, <1>5, <1>6, <1>7, SizesSum
<1> HIDE DEF V
<1>10. IsFiniteSet(V) /\ Cardinality(Bars(f) \cup V) = Cardinality(Bars(f)) + Cardinality(V) - Cardinality(Bars(f) \cap V)
  <2>1. V \in SUBSET Bars(h)
    BY <1>8
  <2>2. IsFiniteSet(V)
    BY <1>3, <2>1, FS_Subset
  <2> QED
    BY <1>3, <2>2, FS_Union
<1>11. Cardinality(Bars(f)) \in Nat /\ Cardinality(V) \in Nat
  BY <1>3, <1>10, FS_CardinalityType
<1>12. Cardinality(Bars(f) \cap V) = 0
  BY <1>8, FS_EmptySet
<1>13. Cardinality(Bars(h)) = Cardinality(Bars(f) \cup V)
  BY <1>8, Zenon
<1> QED
  BY <1>3, <1>9, <1>10, <1>11, <1>12, <1>13

\* Adding up by a key and then over the keys is adding up: every position has one key that is in the
\* table, and a bar of the table is a bar of the group at that key.
LEMMA SumByKey ==
  ASSUME NEW f, Figured(f), NEW key, NEW g, IsFiniteSet(DOMAIN g),
         \A x \in DOMAIN f : key[x] \in DOMAIN g,
         \A k \in DOMAIN g : g[k] = SumFunction([x \in {y \in DOMAIN f : key[y] = k} |-> f[x]])
  PROVE  SumFunction(g) = SumFunction(f)
<1> DEFINE part(k) == [x \in {y \in DOMAIN f : key[y] = k} |-> f[x]]
           F == [k \in DOMAIN g |-> Bars(part(k))]
<1>1. IsFiniteSet(Bars(f)) /\ SumFunction(f) = Cardinality(Bars(f))
  BY BarsSum
<1>2. ASSUME NEW k \in DOMAIN g
      PROVE  /\ g[k] = Cardinality(F[k])
             /\ F[k] = UNION {Bar(f, x) : x \in {y \in DOMAIN f : key[y] = k}}
  <2>1. DOMAIN part(k) \in SUBSET DOMAIN f
    OBVIOUS
  <2>2. Figured(part(k))
    <3>1. IsFiniteSet(DOMAIN f) /\ \A x \in DOMAIN f : f[x] \in Nat
      BY DEF Figured
    <3>2. IsFiniteSet(DOMAIN part(k))
      BY <2>1, <3>1, FS_Subset
    <3> QED
      BY <3>1, <3>2 DEF Figured
  <2>3. SumFunction(part(k)) = Cardinality(Bars(part(k)))
    <3> HIDE DEF part
    <3> QED
      BY <2>2, BarsSum
  <2>4. g[k] = SumFunction(part(k))
    OBVIOUS
  <2>5. Bars(part(k)) = UNION {Bar(f, x) : x \in {y \in DOMAIN f : key[y] = k}}
    BY DEF Bars, Bar
  <2> QED
    BY <2>3, <2>4, <2>5
<1>3. \A k \in DOMAIN g : F[k] \subseteq Bars(f) /\ g[k] = Cardinality(F[k])
  <2> HIDE DEF F
  <2> QED
    BY <1>2 DEF Bars
<1>4. \A j, k \in DOMAIN g : j # k => F[j] \cap F[k] = {}
  <2> HIDE DEF F
  <2> QED
    BY <1>2 DEF Bar
<1>5. UNION {F[k] : k \in DOMAIN g} = Bars(f)
  <2> HIDE DEF F
  <2> QED
    BY <1>2 DEF Bars
<1> HIDE DEF F
<1>6. SumFunction(g) = Cardinality(UNION {F[k] : k \in DOMAIN g})
  BY <1>1, <1>3, <1>4, SizesSum
<1> QED
  BY <1>1, <1>5, <1>6

\* The same of counting: every position is counted at its key and nowhere else.
LEMMA CountByKey ==
  ASSUME NEW D, IsFiniteSet(D), NEW key, NEW g, IsFiniteSet(DOMAIN g),
         \A x \in D : key[x] \in DOMAIN g,
         \A k \in DOMAIN g : g[k] = Cardinality({x \in D : key[x] = k})
  PROVE  SumFunction(g) = Cardinality(D)
<1> DEFINE F == [k \in DOMAIN g |-> {x \in D : key[x] = k}]
<1>1. \A k \in DOMAIN g : F[k] \subseteq D /\ g[k] = Cardinality(F[k])
  OBVIOUS
<1>2. \A j, k \in DOMAIN g : j # k => F[j] \cap F[k] = {}
  OBVIOUS
<1>3. UNION {F[k] : k \in DOMAIN g} = D
  OBVIOUS
<1> HIDE DEF F
<1>4. SumFunction(g) = Cardinality(UNION {F[k] : k \in DOMAIN g})
  BY <1>1, <1>2, SizesSum
<1> QED
  BY <1>3, <1>4

-----------------------------------------------------------------------------
(* The least and the greatest of finitely many integers; percentiles.      *)

\* A finite set of integers is bounded below ...
LEMMA FiniteMin ==
  ASSUME NEW S \in SUBSET Int, IsFiniteSet(S), S # {}
  PROVE  Min(S) \in S /\ \A x \in S : Min(S) <= x
<1> DEFINE Least(T) == \E m \in T : \A x \in T : m <= x
           Wrong == {n \in Nat : \E T \in SUBSET S : T # {} /\ Cardinality(T) = n /\ ~Least(T)}
<1>1. SUFFICES Least(S)
  BY DEF Min
<1>2. SUFFICES ASSUME ~Least(S) PROVE FALSE
  OBVIOUS
<1>3. \A T \in SUBSET S : IsFiniteSet(T) /\ Cardinality(T) \in Nat
  BY FS_Subset, FS_CardinalityType
<1>4. Wrong \in SUBSET Nat /\ Cardinality(S) \in Wrong
  BY <1>2, <1>3
<1>5. Min(Wrong) \in Wrong /\ \A n \in Wrong : Min(Wrong) <= n
  <2> HIDE DEF Wrong
  <2> QED
    BY <1>4, MinOf
<1>6. PICK T \in SUBSET S : T # {} /\ Cardinality(T) = Min(Wrong) /\ ~Least(T)
  BY <1>5
<1>7. PICK x \in T : TRUE
  BY <1>6
<1> DEFINE R == T \ {x}
<1>8. /\ R \in SUBSET S /\ Cardinality(R) = Cardinality(T) - 1
      /\ Cardinality(T) \in Nat /\ Cardinality(R) \in Nat
  BY <1>3, <1>6, <1>7, FS_RemoveElement
<1>9. R # {} => Least(R)
  <2>1. Cardinality(R) \notin Wrong
    <3> HIDE DEF Wrong, R
    <3> QED
      BY <1>5, <1>6, <1>8
  <2> QED
    BY <1>8, <2>1
<1>10. Least(T)
  <2>1. CASE R = {}
    <3>1. \A y \in T : y = x /\ x <= y
      BY <1>6, <1>7, <2>1
    <3> QED
      BY <1>7, <3>1
  <2>2. CASE R # {}
    <3>1. PICK m \in R : \A y \in R : m <= y
      BY <1>9, <2>2
    <3>2. m \in Int /\ x \in Int /\ m \in T
      BY <1>6, <1>7, <3>1
    <3>3. \A y \in T : y \in Int /\ (y = x \/ m <= y)
      BY <1>6, <3>1
    <3>4. CASE m <= x
      BY <3>2, <3>3, <3>4
    <3>5. CASE x <= m
      BY <1>7, <3>2, <3>3, <3>5
    <3> QED
      BY <3>2, <3>4, <3>5
  <2> QED
    BY <2>1, <2>2
<1> QED
  BY <1>6, <1>10

\* ... and above.
LEMMA FiniteMax ==
  ASSUME NEW S \in SUBSET Int, IsFiniteSet(S), S # {}
  PROVE  Max(S) \in S /\ \A x \in S : x <= Max(S)
<1> DEFINE g == [x \in S |-> 0 - x]
           T == {g[x] : x \in DOMAIN g}
<1>1. T \in SUBSET Int /\ T # {}
  <2>1. \A x \in S : g[x] \in Int
    OBVIOUS
  <2>2. DOMAIN g = S
    OBVIOUS
  <2> HIDE DEF g
  <2> QED
    BY <2>1, <2>2
<1>2. IsFiniteSet(T)
  <2>1. IsFiniteSet(DOMAIN g)
    OBVIOUS
  <2> HIDE DEF g
  <2> QED
    BY <2>1, ImageFinite
<1>3. Min(T) \in T /\ \A y \in T : Min(T) <= y
  <2> HIDE DEF T
  <2> QED
    BY <1>1, <1>2, FiniteMin
<1>4. PICK m \in S : Min(T) = 0 - m
  BY <1>3
<1>5. \A x \in S : 0 - m <= 0 - x
  BY <1>3, <1>4
<1>6. \A x \in S : x <= m
  BY <1>5
<1> QED
  BY <1>6 DEF Max

\* Of n values, the k-th of them in their order for every k from 1 to n.
LEMMA SortedIs ==
  ASSUME NEW values, IsFiniteSet(DOMAIN values), \A i \in DOMAIN values : values[i] \in Int,
         NEW k \in 1 .. Size(values)
  PROVE  LET below(v) == {i \in DOMAIN values : values[i] <= v}
             S == {v \in Range(values) : Cardinality(below(v)) >= k}
         IN  S \in SUBSET Int /\ sorted(values, k) \in S /\ \A v \in S : sorted(values, k) <= v
<1> DEFINE D == DOMAIN values
           below(v) == {i \in D : values[i] <= v}
           S == {v \in Range(values) : Cardinality(below(v)) >= k}
<1>1. Size(values) = Cardinality(D) /\ Cardinality(D) \in Nat
  BY FS_CardinalityType DEF Size
<1>2. Range(values) = {values[i] : i \in D} /\ Range(values) \in SUBSET Int
  BY DEF Range
<1>3. IsFiniteSet(Range(values))
  BY <1>2, ImageFinite
<1>4. D # {}
  BY <1>1, FS_EmptySet
<1>5. PICK top \in Range(values) : \A v \in Range(values) : v <= top
  <2>1. Range(values) # {}
    BY <1>2, <1>4
  <2> QED
    BY <1>2, <1>3, <2>1, FiniteMax
<1>6. below(top) = D
  BY <1>2, <1>5
<1>7. top \in S
  <2> HIDE DEF below, D
  <2> QED
    BY <1>1, <1>5, <1>6
<1>8. IsFiniteSet(S) /\ S \in SUBSET Int
  <2>1. S \in SUBSET Range(values)
    OBVIOUS
  <2> HIDE DEF S
  <2> QED
    BY <1>2, <1>3, <2>1, FS_Subset
<1>9. sorted(values, k) = Min(S)
  BY DEF sorted
<1>10. Min(S) \in S /\ \A v \in S : Min(S) <= v
  <2> HIDE DEF S
  <2> QED
    BY <1>7, <1>8, FiniteMin
<1> HIDE DEF S
<1>11. S \in SUBSET Int /\ sorted(values, k) \in S /\ \A v \in S : sorted(values, k) <= v
  BY <1>8, <1>9, <1>10
<1> QED
  BY <1>11 DEF S

\* They are in order.
LEMMA SortedOrder ==
  ASSUME NEW values, IsFiniteSet(DOMAIN values), \A i \in DOMAIN values : values[i] \in Int,
         NEW j \in 1 .. Size(values), NEW k \in j .. Size(values)
  PROVE  sorted(values, j) \in Int /\ sorted(values, k) \in Int /\ sorted(values, j) <= sorted(values, k)
<1> DEFINE below(v) == {i \in DOMAIN values : values[i] <= v}
           S(n) == {v \in Range(values) : Cardinality(below(v)) >= n}
<1>1. Size(values) \in Nat
  BY FS_CardinalityType DEF Size
<1>2. k \in 1 .. Size(values)
  BY <1>1
<1>3. S(j) \in SUBSET Int /\ sorted(values, j) \in S(j) /\ \A v \in S(j) : sorted(values, j) <= v
  BY SortedIs
<1>4. S(k) \in SUBSET Int /\ sorted(values, k) \in S(k)
  BY <1>2, SortedIs
<1>5. \A v : Cardinality(below(v)) \in Nat
  <2> TAKE v
  <2>1. below(v) \in SUBSET DOMAIN values
    OBVIOUS
  <2> QED
    BY <2>1, FS_Subset, FS_CardinalityType
<1> HIDE DEF below
<1>6. S(k) \subseteq S(j)
  BY <1>1, <1>5
<1> QED
  BY <1>3, <1>4, <1>6

\* The one product of two variables that is needed.
LEMMA ProductGrows ==
  ASSUME NEW x \in Nat, NEW y \in Nat, NEW u \in Nat, NEW v \in Nat, x <= y, u <= v
  PROVE  x * u <= y * v
<1>1. x * u <= y * u
  OBVIOUS
<1>2. y * u <= y * v
  OBVIOUS
<1>3. x * u \in Int /\ y * u \in Int /\ y * v \in Int
  OBVIOUS
<1> QED
  BY <1>1, <1>2, <1>3

\* Half way and nine tenths of the way through the values.
LEMMA PercentilesOrdered ==
  ASSUME NEW values, IsFiniteSet(DOMAIN values), \A i \in DOMAIN values : values[i] \in Int, DOMAIN values # {}
  PROVE  percentile(values, 50) <= percentile(values, 90)
<1> DEFINE n == Size(values)
           r == 50 * (n - 1)
           q == 90 * (n - 1)
           low == sorted(values, 1 + r \div 100)
           high == sorted(values, 1 + (r + 99) \div 100)
           Low == sorted(values, 1 + q \div 100)
           High == sorted(values, 1 + (q + 99) \div 100)
<1>1. n \in Nat /\ n >= 1
  BY FS_CardinalityType, FS_EmptySet DEF Size
<1>2. /\ percentile(values, 50) = 100 * low + (high - low) * (r % 100)
      /\ percentile(values, 90) = 100 * Low + (High - Low) * (q % 100)
  BY DEF percentile
<1>3. /\ 1 + r \div 100 \in 1 .. n /\ 1 + (r + 99) \div 100 \in (1 + r \div 100) .. n
      /\ 1 + q \div 100 \in (1 + r \div 100) .. n /\ 1 + (q + 99) \div 100 \in (1 + q \div 100) .. n
      /\ 1 + (q + 99) \div 100 \in (1 + (r + 99) \div 100) .. n
      /\ r % 100 \in 0 .. 99 /\ q % 100 \in 0 .. 99
      /\ r \div 100 = q \div 100 => r % 100 <= q % 100
      /\ r \div 100 # q \div 100 => 1 + q \div 100 \in (1 + (r + 99) \div 100) .. n
  <2> HIDE DEF n
  <2> QED
    BY <1>1
<1> HIDE DEF r, q
<1>4. ASSUME NEW j, NEW k, j \in 1 .. n, k \in j .. n
      PROVE  sorted(values, j) \in Int /\ sorted(values, k) \in Int /\ sorted(values, j) <= sorted(values, k)
  BY <1>4, SortedOrder
<1>5. {1 + (r + 99) \div 100, 1 + q \div 100} \subseteq 1 .. n
  <2> HIDE DEF n
  <2> QED
    BY <1>1, <1>3
<1>6. low \in Int /\ high \in Int /\ low <= high
  BY <1>3, <1>4
<1>7. Low \in Int /\ High \in Int /\ Low <= High
  BY <1>3, <1>4, <1>5
<1>8. CASE r \div 100 = q \div 100
  <2>1. low = Low
    BY <1>8
  <2>2. high <= High
    BY <1>3, <1>4, <1>5
  <2>3. high - low \in Nat /\ High - Low \in Nat /\ high - low <= High - Low
    BY <1>6, <1>7, <2>1, <2>2
  <2>4. (high - low) * (r % 100) <= (High - Low) * (q % 100)
    <3> HIDE DEF n, low, high, Low, High
    <3> QED
      BY <1>3, <1>8, <2>3, ProductGrows
  <2>5. (high - low) * (r % 100) \in Int /\ (High - Low) * (q % 100) \in Int
    <3> HIDE DEF n, low, high, Low, High
    <3> QED
      BY <1>3, <2>3
  <2> HIDE DEF low, high, Low, High
  <2> QED
    BY <1>2, <1>6, <2>1, <2>4, <2>5
<1>9. CASE r \div 100 # q \div 100
  <2>1. high <= Low
    BY <1>3, <1>4, <1>5, <1>9
  <2>2. high - low \in Nat /\ High - Low \in Nat
    <3> HIDE DEF low, high, Low, High
    <3> QED
      BY <1>6, <1>7
  <2>3. (high - low) * (r % 100) <= (high - low) * 100
    <3> HIDE DEF n, low, high, Low, High
    <3> QED
      BY <1>3, <2>2, ProductGrows
  <2>4. (High - Low) * (q % 100) \in Nat /\ (high - low) * (r % 100) \in Int
    <3> HIDE DEF n, low, high, Low, High
    <3> QED
      BY <1>3, <2>2
  <2> HIDE DEF low, high, Low, High
  <2> QED
    BY <1>2, <1>6, <1>7, <2>1, <2>3, <2>4
<1> QED
  BY <1>8, <1>9

-----------------------------------------------------------------------------
(* One pull request.                                                       *)

\* The first of some reviews is Null only if there are none.
LEMMA EarliestIs ==
  ASSUME NEW reviews, IsFiniteSet(reviews), \A r \in reviews : r.at \in Nat
  PROVE  /\ reviews = {} <=> Earliest(reviews) = Null
         /\ reviews # {} => Earliest(reviews) \in {r.at : r \in reviews}
         /\ \A r \in reviews : Earliest(reviews) <= r.at
<1>1. Null \notin Int
  BY MetricsAssumption
<1>2. CASE reviews = {}
  BY <1>2 DEF Earliest
<1>3. CASE reviews # {}
  <2> DEFINE S == {r.at : r \in reviews}
  <2>1. S \in SUBSET Nat /\ S # {}
    BY <1>3
  <2>2. Earliest(reviews) = Min(S)
    BY <1>3 DEF Earliest
  <2>3. Min(S) \in S /\ \A x \in S : Min(S) <= x
    <3> HIDE DEF S
    <3> QED
      BY <2>1, MinOf
  <2>4. Earliest(reviews) \in S /\ Earliest(reviews) # Null
    <3> HIDE DEF S
    <3>1. \A x \in S : x \in Int
      BY ONLY <2>1
    <3>2. Min(S) \in S
      BY <2>3
    <3> QED
      BY <1>1, <2>2, <3>1, <3>2, Zenon
  <2>5. \A r \in reviews : r.at \in S
    OBVIOUS
  <2>6. \A r \in reviews : Earliest(reviews) <= r.at
    <3> HIDE DEF S
    <3> QED
      BY <2>2, <2>3, <2>5
  <2> QED
    BY <1>3, <2>4, <2>6
<1> QED
  BY <1>2, <1>3

\* Two sets that share no member.
LEMMA TwoParts ==
  ASSUME NEW A, IsFiniteSet(A), NEW B, IsFiniteSet(B), A \cap B = {}
  PROVE  /\ Cardinality(A \cup B) = Cardinality(A) + Cardinality(B)
         /\ Cardinality(A \cup B) \in Nat /\ Cardinality(A) \in Nat /\ Cardinality(B) \in Nat
<1>1. /\ IsFiniteSet(A \cup B)
      /\ Cardinality(A \cup B) = Cardinality(A) + Cardinality(B) - Cardinality(A \cap B)
  BY FS_Union
<1>2. Cardinality(A \cap B) = 0
  BY FS_EmptySet
<1>3. Cardinality(A \cup B) \in Nat /\ Cardinality(A) \in Nat /\ Cardinality(B) \in Nat
  BY <1>1, FS_CardinalityType
<1> QED
  BY <1>1, <1>2, <1>3

\* The threads of a pull request, by the class of who opened them and by their state.
ThreadsSplit(threads, fetched) ==
    /\ {threads.total, threads.bot, threads.human, threads.resolved, threads.unresolvedOutdated,
        threads.unresolvedLive} \subseteq Nat
    /\ Cardinality(fetched) = threads.bot + threads.human
    /\ Cardinality(fetched) = threads.resolved + threads.unresolvedOutdated + threads.unresolvedLive
    /\ Cardinality(fetched) <= threads.total => threads.resolved <= threads.total

\* Whoever opened a thread is a bot or is not; a thread is resolved, outdated or live.
LEMMA ThreadStatsIs ==
  ASSUME NEW pr, CanonicalPr(pr)
  PROVE  ThreadsSplit(threadStats(pr), pr.threads)
<1> DEFINE T == pr.threads
           bot == {t \in T : isBot(t.author)}
           human == {t \in T : ~isBot(t.author)}
           resolved == {t \in T : t.resolved}
           open == {t \in T : ~t.resolved}
           outdated == {t \in T : ~t.resolved /\ t.outdated}
           live == {t \in T : ~t.resolved /\ ~t.outdated}
<1>1. IsFiniteSet(T) /\ pr.threadCount \in Nat
  BY DEF CanonicalPr
<1>2. threadStats(pr) = [total |-> pr.threadCount, bot |-> Cardinality(bot), human |-> Cardinality(human),
          resolved |-> Cardinality(resolved), unresolvedOutdated |-> Cardinality(outdated),
          unresolvedLive |-> Cardinality(live)]
  BY DEF threadStats
<1>3. /\ T = bot \cup human /\ bot \cap human = {}
      /\ T = resolved \cup open /\ resolved \cap open = {}
      /\ open = outdated \cup live /\ outdated \cap live = {}
  OBVIOUS
<1>4. /\ IsFiniteSet(bot) /\ IsFiniteSet(human) /\ IsFiniteSet(resolved)
      /\ IsFiniteSet(open) /\ IsFiniteSet(outdated) /\ IsFiniteSet(live)
  <2>1. /\ bot \in SUBSET T /\ human \in SUBSET T /\ resolved \in SUBSET T
        /\ open \in SUBSET T /\ outdated \in SUBSET T /\ live \in SUBSET T
    OBVIOUS
  <2> HIDE DEF bot, human, resolved, open, outdated, live
  <2> QED
    BY <1>1, <2>1, FS_Subset
<1> HIDE DEF bot, human, resolved, open, outdated, live, T
<1>5. /\ Cardinality(bot \cup human) = Cardinality(bot) + Cardinality(human)
      /\ Cardinality(bot) \in Nat /\ Cardinality(human) \in Nat
  BY <1>3, <1>4, TwoParts
<1>6. /\ Cardinality(resolved \cup open) = Cardinality(resolved) + Cardinality(open)
      /\ Cardinality(resolved) \in Nat /\ Cardinality(open) \in Nat
  BY <1>3, <1>4, TwoParts
<1>7. /\ Cardinality(outdated \cup live) = Cardinality(outdated) + Cardinality(live)
      /\ Cardinality(outdated) \in Nat /\ Cardinality(live) \in Nat
  BY <1>3, <1>4, TwoParts
<1>8. /\ Cardinality(T) = Cardinality(bot) + Cardinality(human)
      /\ Cardinality(T) = Cardinality(resolved) + Cardinality(open)
      /\ Cardinality(open) = Cardinality(outdated) + Cardinality(live)
  BY <1>3, <1>5, <1>6, <1>7, Zenon
<1>9. Cardinality(resolved) <= Cardinality(T) /\ Cardinality(T) = Cardinality(pr.threads)
  BY <1>1, <1>6, <1>8 DEF T
<1> QED
  BY <1>1, <1>2, <1>5, <1>6, <1>7, <1>8, <1>9 DEF ThreadsSplit

\* What derive makes of a pull request.
HumanAfterAny(d) ==
    /\ d.firstHumanReviewAt # Null => d.firstReviewAt # Null /\ d.firstReviewAt <= d.firstHumanReviewAt
    /\ d.commitsAfterHumanReview \in Nat /\ d.commitsAfterAnyReview \in Nat
    /\ d.commitsAfterHumanReview <= d.commitsAfterAnyReview

Derived(d) ==
    /\ d.merged \in Nat \cup {Null} /\ d.commitCount \in Nat
    /\ d.merged # Null => d.cycle \in Int
    /\ IsFiniteSet(d.threadsOf) /\ ThreadsSplit(d.threads, d.threadsOf)
    /\ IsFiniteSet(d.reviews)
    /\ HumanAfterAny(d)

\* Reviews by people are reviews, and the later mark leaves the fewer commits after it.
LEMMA HumanReviewsAreReviews ==
  ASSUME NEW pr, CanonicalPr(pr)
  PROVE  HumanAfterAny(derive(pr))
<1> DEFINE any == timeline(pr)
           people == {r \in any : ~isBot(r.author)}
           after(mark) == IF mark = Null THEN 0 ELSE Cardinality({c \in pr.commits : c > mark})
           first == Earliest(any)
           human == Earliest(people)
           d == derive(pr)
<1>1. /\ d.firstReviewAt = first /\ d.firstHumanReviewAt = human
      /\ d.commitsAfterAnyReview = after(first) /\ d.commitsAfterHumanReview = after(human)
  BY DEF derive, firstHumanReview
<1>2. IsFiniteSet(any) /\ IsFiniteSet(people) /\ people \subseteq any /\ \A r \in any : r.at \in Nat
  <2>1. IsFiniteSet(pr.reviews) /\ \A r \in pr.reviews : r.at \in Nat \cup {Null}
    BY DEF CanonicalPr
  <2>2. any \in SUBSET pr.reviews /\ people \in SUBSET pr.reviews /\ people \subseteq any
    BY DEF timeline
  <2>3. \A r \in any : r.at \in Nat
    BY <2>1 DEF timeline
  <2>4. IsFiniteSet(any) /\ IsFiniteSet(people)
    BY <2>1, <2>2, FS_Subset
  <2> QED
    BY <2>2, <2>3, <2>4
<1>3. /\ any = {} <=> first = Null
      /\ any # {} => first \in {r.at : r \in any}
      /\ \A r \in any : first <= r.at
  BY <1>2, EarliestIs
<1>4. /\ people = {} <=> human = Null
      /\ people # {} => human \in {r.at : r \in people}
  <2>1. \A r \in people : r.at \in Nat
    BY <1>2
  <2> HIDE DEF people
  <2> QED
    BY <1>2, <2>1, EarliestIs
<1>5. human # Null => first # Null /\ first \in Nat /\ human \in Nat /\ first <= human
  <2> HIDE DEF first, human, any, people
  <2> QED
    BY <1>2, <1>3, <1>4
<1>6. \A mark : after(mark) \in Nat
  <2> TAKE mark
  <2>1. {c \in pr.commits : c > mark} \in SUBSET pr.commits /\ IsFiniteSet(pr.commits)
    BY DEF CanonicalPr
  <2>2. Cardinality({c \in pr.commits : c > mark}) \in Nat
    BY <2>1, FS_Subset, FS_CardinalityType
  <2> QED
    BY <2>2
<1>7. after(human) <= after(first)
  <2>1. CASE human = Null
    <3>1. after(human) = 0 /\ after(first) \in Nat
      BY <1>6, <2>1
    <3> HIDE DEF after
    <3> QED
      BY <3>1
  <2>2. CASE human # Null
    <3> DEFINE A == {c \in pr.commits : c > human}
               B == {c \in pr.commits : c > first}
    <3>1. IsFiniteSet(pr.commits) /\ pr.commits \subseteq Nat
      BY DEF CanonicalPr
    <3>2. A \in SUBSET B /\ B \in SUBSET pr.commits
      <4> HIDE DEF first, human
      <4> QED
        BY <1>5, <2>2, <3>1
    <3>3. Cardinality(A) <= Cardinality(B)
      <4> HIDE DEF A, B
      <4> QED
        BY <3>1, <3>2, FS_Subset
    <3>4. after(human) = Cardinality(A) /\ after(first) = Cardinality(B)
      BY <1>5, <2>2
    <3> QED
      BY <3>3, <3>4
  <2> QED
    BY <2>1, <2>2
<1> HIDE DEF first, human, after, d
<1> QED
  BY <1>1, <1>5, <1>6, <1>7 DEF HumanAfterAny, d

\* So every pull request that the provider can describe is derived.
LEMMA DeriveMakes ==
  ASSUME NEW pr, CanonicalPr(pr)
  PROVE  /\ Derived(derive(pr)) /\ derive(pr).merged = pr.merged /\ derive(pr).base = pr.base
         /\ derive(pr).threadsOf = pr.threads /\ derive(pr).threads.total = pr.threadCount
<1> DEFINE d == derive(pr)
<1>1. /\ d.merged = pr.merged /\ d.base = pr.base /\ d.commitCount = pr.commitCount
      /\ d.cycle = Since(pr.created, pr.merged) /\ d.threadsOf = pr.threads /\ d.threads = threadStats(pr)
      /\ threadStats(pr).total = pr.threadCount
  BY DEF derive, threadStats
<1>2. /\ pr.merged \in Nat \cup {Null} /\ pr.created \in Nat /\ pr.commitCount \in Nat
      /\ IsFiniteSet(pr.threads) /\ IsFiniteSet(pr.reviews)
  BY DEF CanonicalPr
<1>3. pr.merged # Null => Since(pr.created, pr.merged) \in Int
  BY <1>2, MetricsAssumption DEF Since
<1>4. ThreadsSplit(threadStats(pr), pr.threads) /\ HumanAfterAny(d)
  BY ThreadStatsIs, HumanReviewsAreReviews
<1>5. IsFiniteSet(d.reviews)
  <2> DEFINE keys == {t.review : t \in pr.threads} \ {Null}
             g == [r \in pr.reviews |->
                      [id |-> r.key, author |-> r.author,
                       bodyOnly |-> IF reviewLinkage THEN r.key \notin keys ELSE Null]]
  <2>1. d.reviews = {g[r] : r \in DOMAIN g}
    BY DEF derive
  <2>2. IsFiniteSet(DOMAIN g)
    BY <1>2
  <2> HIDE DEF g, d
  <2> QED
    BY <2>1, <2>2, ImageFinite
<1> HIDE DEF d
<1> QED
  BY <1>1, <1>2, <1>3, <1>4, <1>5 DEF Derived, d

-----------------------------------------------------------------------------
(* The tables of the pull requests that were merged.                       *)

\* What was merged of a list, by position.
MergedList(m) ==
    /\ IsFiniteSet(DOMAIN m)
    /\ \A i \in DOMAIN m : Derived(m[i]) /\ m[i].merged \in Nat

\* Every week from the first merge to the last has a row, and no other has.
LEMMA WeeksSpan ==
  ASSUME NEW m, MergedList(m), NEW today
  PROVE  LET W == weeklyMerges(m, today) IN
         /\ IsFiniteSet(DOMAIN W) /\ \A i \in DOMAIN m : weekOf(m[i].merged) \in DOMAIN W
         /\ Cardinality(DOMAIN W) = IF DOMAIN m = {} THEN 0 ELSE 1 + Max(DOMAIN W) - Min(DOMAIN W)
<1> DEFINE D == DOMAIN m
           W == weeklyMerges(m, today)
           week == [i \in D |-> weekOf(m[i].merged)]
           weeks == {week[i] : i \in DOMAIN week}
           a == Min(weeks)
           b == Max(weeks)
<1>1. DOMAIN W = IF weeks = {} THEN {} ELSE a .. b
  BY DEF weeklyMerges
<1>2. IsFiniteSet(D) /\ \A i \in D : week[i] \in Int
  <2>1. WeekDays \in Nat \ {0}
    BY MetricsAssumption
  <2> QED
    BY <2>1 DEF MergedList, weekOf
<1>3. IsFiniteSet(weeks)
  <2>1. IsFiniteSet(DOMAIN week)
    BY <1>2
  <2> HIDE DEF week
  <2> QED
    BY <2>1, ImageFinite
<1>4. weeks \in SUBSET Int /\ (weeks = {} <=> D = {}) /\ \A i \in D : week[i] \in weeks
  <2>1. DOMAIN week = D
    OBVIOUS
  <2> HIDE DEF week, D
  <2> QED
    BY <1>2, <2>1
<1>5. CASE D = {}
  BY <1>1, <1>4, <1>5, FS_EmptySet
<1>6. CASE D # {}
  <2>1. /\ a \in weeks /\ (\A x \in weeks : a <= x)
        /\ b \in weeks /\ (\A x \in weeks : x <= b)
    <3> HIDE DEF weeks
    <3> QED
      BY <1>3, <1>4, <1>6, FiniteMin, FiniteMax
  <2> HIDE DEF weeks, a, b
  <2>2. a \in Int /\ b \in Int /\ a <= b /\ DOMAIN W = a .. b
    BY <1>1, <1>4, <1>6, <2>1
  <2>3. IsFiniteSet(a .. b) /\ Cardinality(a .. b) = b - a + 1
    BY <2>2, FS_Interval
  <2>4. Min(a .. b) = a /\ Max(a .. b) = b
    <3>1. a .. b \in SUBSET Int /\ a .. b # {} /\ a \in a .. b /\ b \in a .. b
      BY <2>2
    <3>2. /\ Min(a .. b) \in a .. b /\ Min(a .. b) <= a
          /\ Max(a .. b) \in a .. b /\ b <= Max(a .. b)
      BY <2>3, <3>1, FiniteMin, FiniteMax
    <3> QED
      BY <2>2, <3>2
  <2>5. \A i \in D : week[i] \in a .. b
    BY <1>2, <1>4, <2>1, <2>2
  <2>6. Cardinality(DOMAIN W) = 1 + Max(DOMAIN W) - Min(DOMAIN W)
    BY <2>2, <2>3, <2>4
  <2> HIDE DEF W
  <2>7. \A i \in D : weekOf(m[i].merged) \in DOMAIN W
    BY <2>2, <2>5
  <2> QED
    BY <1>6, <2>2, <2>3, <2>6, <2>7 DEF W
<1> QED
  BY <1>5, <1>6

\* The week of a merge is its key in the table of the weeks.
LEMMA MergesByWeek ==
  ASSUME NEW m, MergedList(m), NEW today
  PROVE  LET W == weeklyMerges(m, today) IN
         /\ Column(W, LAMBDA w : w.merges) = Size(m)
         /\ Column(W, LAMBDA w : w.resolved) = threadTotals(m).resolved
<1> DEFINE D == DOMAIN m
           W == weeklyMerges(m, today)
           K == DOMAIN W
           key == [i \in D |-> weekOf(m[i].merged)]
           merges == [w \in K |-> W[w].merges]
           settled == [w \in K |-> W[w].resolved]
           f == [i \in D |-> m[i].threads.resolved]
           part(w) == [i \in {j \in DOMAIN f : key[j] = w} |-> f[i]]
<1>1. IsFiniteSet(D) /\ IsFiniteSet(K) /\ \A i \in D : key[i] \in K
  <2>1. IsFiniteSet(D)
    BY DEF MergedList
  <2> HIDE DEF W
  <2> QED
    BY <2>1, WeeksSpan DEF W
<1>2. \A w \in K : merges[w] = Cardinality({i \in D : key[i] = w})
  <2> TAKE w \in K
  <2>1. W[w].merges = Cardinality({i \in D : weekOf(m[i].merged) = w})
    BY DEF weeklyMerges, Those, RestrictValues, Restrict, Size, Column, Each
  <2>2. {i \in D : weekOf(m[i].merged) = w} = {i \in D : key[i] = w}
    OBVIOUS
  <2> HIDE DEF W, key
  <2> QED
    BY <2>1, <2>2
<1>3. \A w \in K : settled[w] = SumFunction(part(w))
  <2> TAKE w \in K
  <2>1. W[w].resolved = SumFunction([i \in {j \in D : weekOf(m[j].merged) = w} |-> m[i].threads.resolved])
    BY DEF weeklyMerges, Those, RestrictValues, Restrict, Size, Column, Each
  <2>2. [i \in {j \in D : weekOf(m[j].merged) = w} |-> m[i].threads.resolved] = part(w)
    OBVIOUS
  <2> HIDE DEF W, part
  <2> QED
    BY <2>1, <2>2
<1>4. Figured(f)
  BY <1>1 DEF MergedList, Derived, ThreadsSplit, Figured
<1>5. SumFunction(merges) = Size(m)
  <2>1. DOMAIN merges = K
    OBVIOUS
  <2> HIDE DEF merges, key, K
  <2> QED
    BY <1>1, <1>2, <2>1, CountByKey DEF Size
<1>6. SumFunction(settled) = SumFunction(f)
  <2>1. DOMAIN settled = K /\ DOMAIN f = D
    OBVIOUS
  <2> HIDE DEF settled, key, f, K
  <2> QED
    BY <1>1, <1>3, <1>4, <2>1, SumByKey
<1>7. threadTotals(m).resolved = SumFunction(f)
  BY DEF threadTotals, Column, Each
<1>8. Column(W, LAMBDA w : w.merges) = SumFunction(merges) /\ Column(W, LAMBDA w : w.resolved) = SumFunction(settled)
  BY DEF Column, Each
<1> HIDE DEF merges, settled, f
<1> QED
  BY <1>5, <1>6, <1>7, <1>8

\* The author is the key in the table of the authors.
LEMMA AuthorsAddUp ==
  ASSUME NEW m, MergedList(m)
  PROVE  /\ Column(authorTable(m), LAMBDA a : a.merged) = Size(m)
         /\ Column(authorTable(m), LAMBDA a : a.threadsReceived) = threadTotals(m).total
<1> DEFINE D == DOMAIN m
           A == authorTable(m)
           K == DOMAIN A
           key == [i \in D |-> m[i].author]
           merged == [n \in K |-> A[n].merged]
           received == [n \in K |-> A[n].threadsReceived]
           f == [i \in D |-> m[i].threads.total]
           part(n) == [i \in {j \in DOMAIN f : key[j] = n} |-> f[i]]
<1>1. IsFiniteSet(D) /\ IsFiniteSet(K) /\ \A i \in D : key[i] \in K
  <2>1. IsFiniteSet(D) /\ DOMAIN key = D
    BY DEF MergedList
  <2>2. K = {key[i] : i \in DOMAIN key}
    BY DEF authorTable
  <2> HIDE DEF key, K
  <2> QED
    BY <2>1, <2>2, ImageFinite
<1>2. \A n \in K : merged[n] = Cardinality({i \in D : key[i] = n})
  <2> TAKE n \in K
  <2>1. A[n].merged = Cardinality({i \in D : m[i].author = n})
    BY DEF authorTable, Those, RestrictValues, Restrict, Size, Column, Each, Count
  <2>2. {i \in D : m[i].author = n} = {i \in D : key[i] = n}
    OBVIOUS
  <2> HIDE DEF A, key
  <2> QED
    BY <2>1, <2>2
<1>3. \A n \in K : received[n] = SumFunction(part(n))
  <2> TAKE n \in K
  <2>1. A[n].threadsReceived = SumFunction([i \in {j \in D : m[j].author = n} |-> m[i].threads.total])
    BY DEF authorTable, Those, RestrictValues, Restrict, Size, Column, Each, Count
  <2>2. [i \in {j \in D : m[j].author = n} |-> m[i].threads.total] = part(n)
    OBVIOUS
  <2> HIDE DEF A, part
  <2> QED
    BY <2>1, <2>2
<1>4. Figured(f)
  BY <1>1 DEF MergedList, Derived, ThreadsSplit, Figured
<1>5. SumFunction(merged) = Size(m)
  <2>1. DOMAIN merged = K
    OBVIOUS
  <2> HIDE DEF merged, key, K
  <2> QED
    BY <1>1, <1>2, <2>1, CountByKey DEF Size
<1>6. SumFunction(received) = SumFunction(f)
  <2>1. DOMAIN received = K /\ DOMAIN f = D
    OBVIOUS
  <2> HIDE DEF received, key, f, K
  <2> QED
    BY <1>1, <1>3, <1>4, <2>1, SumByKey
<1>7. threadTotals(m).total = SumFunction(f)
  BY DEF threadTotals, Column, Each
<1>8. Column(A, LAMBDA a : a.merged) = SumFunction(merged) /\ Column(A, LAMBDA a : a.threadsReceived) = SumFunction(received)
  BY DEF Column, Each
<1> HIDE DEF merged, received, f
<1> QED
  BY <1>5, <1>6, <1>7, <1>8

\* Every size has a bucket, the last if no other.
LEMMA BucketIs ==
  ASSUME NEW size
  PROVE  sizeBucket(size) \in DOMAIN SizeBounds
<1> DEFINE above == {b \in DOMAIN SizeBounds : size < SizeBounds[b]}
<1>1. /\ Len(SizeBounds) \in Nat /\ DOMAIN SizeBounds = 1 .. Len(SizeBounds)
      /\ Len(SizeBounds) \in DOMAIN SizeBounds
  <2>1. SizeBounds \in Seq(Nat) /\ SizeBounds # <<>>
    BY MetricsAssumption
  <2> QED
    BY <2>1
<1>2. above # {} => Min(above) \in above
  <2>1. above \in SUBSET Nat
    BY <1>1
  <2> HIDE DEF above
  <2> QED
    BY <2>1, MinOf
<1> QED
  BY <1>1, <1>2 DEF sizeBucket

\* The bucket of the size is the key in one histogram ...
LEMMA SizesAddUp ==
  ASSUME NEW m, MergedList(m)
  PROVE  Column(sizeHistogram(m), LAMBDA b : b) = Size(m)
<1> DEFINE D == DOMAIN m
           K == DOMAIN SizeBounds
           key == [i \in D |-> sizeBucket(m[i].size)]
           g == [b \in K |-> Cardinality({i \in D : key[i] = b})]
<1>1. IsFiniteSet(D) /\ IsFiniteSet(K) /\ \A i \in D : key[i] \in K
  <2>1. IsFiniteSet(D) /\ SizeBounds \in Seq(Nat)
    BY MetricsAssumption DEF MergedList
  <2>2. K = 1 .. Len(SizeBounds) /\ Len(SizeBounds) \in Nat
    BY <2>1
  <2>3. IsFiniteSet(K)
    BY <2>2, FS_Interval
  <2> QED
    BY <2>1, <2>3, BucketIs
<1>2. Column(sizeHistogram(m), LAMBDA b : b) = SumFunction(g)
  <2>1. sizeHistogram(m) = [b \in K |-> Cardinality({i \in D : sizeBucket(m[i].size) = b})]
    BY DEF sizeHistogram, Count, Size, Those, RestrictValues, Restrict
  <2>2. \A b \in K : {i \in D : sizeBucket(m[i].size) = b} = {i \in D : key[i] = b}
    OBVIOUS
  <2>3. sizeHistogram(m) = g
    BY <2>1, <2>2
  <2>4. Column(sizeHistogram(m), LAMBDA b : b) = SumFunction([b \in DOMAIN sizeHistogram(m) |-> sizeHistogram(m)[b]])
    BY DEF Column, Each
  <2>5. [b \in DOMAIN g |-> g[b]] = g
    OBVIOUS
  <2> HIDE DEF g
  <2> QED
    BY <2>3, <2>4, <2>5
<1>3. DOMAIN g = K /\ \A b \in K : g[b] = Cardinality({i \in D : key[i] = b})
  OBVIOUS
<1> HIDE DEF g, key, K
<1> QED
  BY <1>1, <1>2, <1>3, CountByKey DEF Size

\* ... and the number of commits, up to ten, in the other.
LEMMA CommitsAddUp ==
  ASSUME NEW m, MergedList(m)
  PROVE  Column(commitsHistogram(m), LAMBDA c : c) = Size(m)
<1> DEFINE D == DOMAIN m
           key == [i \in D |-> Min({m[i].commitCount, 10})]
           K == {key[i] : i \in DOMAIN key}
           g == [n \in K |-> Cardinality({i \in D : key[i] = n})]
<1>1. IsFiniteSet(D) /\ DOMAIN key = D
  BY DEF MergedList
<1>2. IsFiniteSet(K) /\ \A i \in D : key[i] \in K
  <2>1. IsFiniteSet(K)
    <3> HIDE DEF key
    <3> QED
      BY <1>1, ImageFinite
  <2> QED
    BY <2>1
<1>3. Column(commitsHistogram(m), LAMBDA c : c) = SumFunction(g)
  <2>1. commitsHistogram(m) = [n \in {Min({m[i].commitCount, 10}) : i \in D} |->
                                  Cardinality({i \in D : Min({m[i].commitCount, 10}) = n})]
    BY DEF commitsHistogram, Count, Size, Those, RestrictValues, Restrict
  <2>2. \A n \in K : {i \in D : Min({m[i].commitCount, 10}) = n} = {i \in D : key[i] = n}
    OBVIOUS
  <2>3. K = {Min({m[i].commitCount, 10}) : i \in D}
    OBVIOUS
  <2>4. commitsHistogram(m) = g
    <3> HIDE DEF key, K
    <3> QED
      BY <2>1, <2>2, <2>3
  <2>5. Column(commitsHistogram(m), LAMBDA c : c) =
            SumFunction([n \in DOMAIN commitsHistogram(m) |-> commitsHistogram(m)[n]])
    BY DEF Column, Each
  <2>6. [n \in DOMAIN g |-> g[n]] = g
    OBVIOUS
  <2> HIDE DEF g
  <2> QED
    BY <2>4, <2>5, <2>6
<1>4. DOMAIN g = K /\ \A n \in K : g[n] = Cardinality({i \in D : key[i] = n})
  OBVIOUS
<1> HIDE DEF g, key, K
<1> QED
  BY <1>1, <1>2, <1>3, <1>4, CountByKey DEF Size

\* The threads that were fetched of each pull request.
Fetched(m) == [i \in DOMAIN m |-> Cardinality(m[i].threadsOf)]

\* Column by column, the classes and the states of the threads share out what was fetched.
LEMMA ThreadsAddUp ==
  ASSUME NEW m, MergedList(m)
  PROVE  LET t == threadTotals(m) IN
         /\ {t.total, t.bot, t.human, t.resolved, t.unresolvedOutdated, t.unresolvedLive} \subseteq Nat
         /\ SumFunction(Fetched(m)) = t.bot + t.human
         /\ SumFunction(Fetched(m)) = t.resolved + t.unresolvedOutdated + t.unresolvedLive
         /\ (\A i \in DOMAIN m : Cardinality(m[i].threadsOf) <= m[i].threads.total) => t.resolved <= t.total
<1> DEFINE D == DOMAIN m
           total == [i \in D |-> m[i].threads.total]
           bot == [i \in D |-> m[i].threads.bot]
           human == [i \in D |-> m[i].threads.human]
           resolved == [i \in D |-> m[i].threads.resolved]
           outdated == [i \in D |-> m[i].threads.unresolvedOutdated]
           live == [i \in D |-> m[i].threads.unresolvedLive]
           open == [i \in D |-> outdated[i] + live[i]]
           t == threadTotals(m)
<1>1. /\ t.total = SumFunction(total) /\ t.bot = SumFunction(bot) /\ t.human = SumFunction(human)
      /\ t.resolved = SumFunction(resolved) /\ t.unresolvedOutdated = SumFunction(outdated)
      /\ t.unresolvedLive = SumFunction(live)
  BY DEF threadTotals, Column, Each
<1>2. IsFiniteSet(D) /\ \A i \in D : ThreadsSplit(m[i].threads, m[i].threadsOf)
  BY DEF MergedList, Derived
<1>3. /\ Figured(total) /\ Figured(bot) /\ Figured(human) /\ Figured(resolved)
      /\ Figured(outdated) /\ Figured(live) /\ Figured(open)
  BY <1>2 DEF Figured, ThreadsSplit
<1>4. \A i \in D : /\ Fetched(m)[i] = bot[i] + human[i] /\ Fetched(m)[i] = resolved[i] + open[i]
                   /\ open[i] = outdated[i] + live[i]
                   /\ Cardinality(m[i].threadsOf) <= m[i].threads.total => resolved[i] <= total[i]
  BY <1>2 DEF ThreadsSplit, Fetched
<1>5. /\ DOMAIN Fetched(m) = D /\ DOMAIN total = D /\ DOMAIN bot = D /\ DOMAIN human = D
      /\ DOMAIN resolved = D /\ DOMAIN outdated = D /\ DOMAIN live = D /\ DOMAIN open = D
  BY DEF Fetched
<1> HIDE DEF total, bot, human, resolved, outdated, live, open, D, t
<1>6. SumFunction(Fetched(m)) = SumFunction(bot) + SumFunction(human)
  BY <1>3, <1>4, <1>5, SumAdds
<1>7. SumFunction(Fetched(m)) = SumFunction(resolved) + SumFunction(open)
  BY <1>3, <1>4, <1>5, SumAdds
<1>8. SumFunction(open) = SumFunction(outdated) + SumFunction(live)
  BY <1>3, <1>4, <1>5, SumAdds
<1>9. (\A i \in D : Cardinality(m[i].threadsOf) <= m[i].threads.total) =>
          SumFunction(resolved) <= SumFunction(total)
  BY <1>3, <1>4, <1>5, SumMonotone
<1>10. \A f : Figured(f) => SumFunction(f) \in Nat
  BY BarsSum, FS_CardinalityType
<1> QED
  BY <1>1, <1>3, <1>6, <1>7, <1>8, <1>9, <1>10 DEF t, D

\* Each member with its position: as many.
LEMMA TaggedSize ==
  ASSUME NEW i, NEW S, IsFiniteSet(S)
  PROVE  IsFiniteSet({i} \X S) /\ Cardinality({i} \X S) = Cardinality(S)
<1>1. IsFiniteSet({i}) /\ Cardinality({i}) = 1 /\ Cardinality(S) \in Nat
  BY FS_Singleton, FS_CardinalityType
<1>2. IsFiniteSet({i} \X S) /\ Cardinality({i} \X S) = Cardinality({i}) * Cardinality(S)
  BY <1>1, FS_Product
<1> QED
  BY <1>1, <1>2

\* The threads of a list, each at the position of its pull request.
ThreadsAt(m) == UNION {{i} \X m[i].threadsOf : i \in DOMAIN m}

\* They are as many as the figures say.
LEMMA ThreadsAtSize ==
  ASSUME NEW m, MergedList(m)
  PROVE  IsFiniteSet(ThreadsAt(m)) /\ SumFunction(Fetched(m)) = Cardinality(ThreadsAt(m))
<1> DEFINE F == [i \in DOMAIN m |-> {i} \X m[i].threadsOf]
<1>1. IsFiniteSet(DOMAIN m) /\ \A i \in DOMAIN m : IsFiniteSet(m[i].threadsOf)
  BY DEF MergedList, Derived
<1>2. \A i \in DOMAIN m : IsFiniteSet(F[i]) /\ Fetched(m)[i] = Cardinality(F[i])
  BY <1>1, TaggedSize DEF Fetched
<1>3. DOMAIN F = DOMAIN m /\ DOMAIN Fetched(m) = DOMAIN m
  BY DEF Fetched
<1>4. ThreadsAt(m) = UNION {F[i] : i \in DOMAIN F}
  BY DEF ThreadsAt
<1>5. \A i, j \in DOMAIN m : i # j => F[i] \cap F[j] = {}
  OBVIOUS
<1> HIDE DEF F
<1>6. IsFiniteSet(ThreadsAt(m))
  BY <1>1, <1>2, <1>3, <1>4, UnionFinite
<1>7. \A i \in DOMAIN m : F[i] \subseteq ThreadsAt(m)
  BY <1>3, <1>4
<1>8. SumFunction(Fetched(m)) = Cardinality(UNION {F[i] : i \in DOMAIN m})
  <2> DEFINE D == DOMAIN m
             f == Fetched(m)
             W == ThreadsAt(m)
  <2>1. IsFiniteSet(D) /\ DOMAIN f = D /\ IsFiniteSet(W)
    BY <1>1, <1>3, <1>6
  <2>2. \A i \in D : F[i] \subseteq W /\ f[i] = Cardinality(F[i])
    BY <1>2, <1>7
  <2>3. \A i, j \in D : i # j => F[i] \cap F[j] = {}
    BY <1>5
  <2> HIDE DEF D, f, W
  <2>4. SumFunction(f) = Cardinality(UNION {F[i] : i \in D})
    BY ONLY <2>1, <2>2, <2>3, SizesSum
  <2> QED
    BY <2>4 DEF D, f
<1> QED
  BY <1>3, <1>4, <1>6, <1>8

\* Whoever opened a thread has a row.
LEMMA NamesFinite ==
  ASSUME NEW m, MergedList(m)
  PROVE  LET K == DOMAIN reviewerTable(m) IN
         IsFiniteSet(K) /\ \A i \in DOMAIN m : \A t \in m[i].threadsOf : t.author \in K
<1> DEFINE names(pr) == {t.author : t \in pr.threadsOf} \cup {r.author : r \in pr.reviews}
           g == [i \in DOMAIN m |-> names(m[i])]
           K == DOMAIN reviewerTable(m)
<1>1. K = UNION {g[i] : i \in DOMAIN g}
  BY DEF reviewerTable
<1>2. IsFiniteSet(DOMAIN g)
  BY DEF MergedList
<1>3. \A i \in DOMAIN g : IsFiniteSet(g[i])
  <2> TAKE i \in DOMAIN g
  <2> DEFINE threads == [t \in m[i].threadsOf |-> t.author]
             reviews == [r \in m[i].reviews |-> r.author]
  <2>1. IsFiniteSet(DOMAIN threads) /\ IsFiniteSet(DOMAIN reviews)
    BY DEF MergedList, Derived
  <2>2. g[i] = {threads[t] : t \in DOMAIN threads} \cup {reviews[r] : r \in DOMAIN reviews}
    OBVIOUS
  <2> HIDE DEF threads, reviews
  <2>3. IsFiniteSet({threads[t] : t \in DOMAIN threads}) /\ IsFiniteSet({reviews[r] : r \in DOMAIN reviews})
    BY <2>1, ImageFinite
  <2> HIDE DEF g
  <2> QED
    BY <2>2, <2>3, FS_Union
<1>4. \A i \in DOMAIN m : \A t \in m[i].threadsOf : t.author \in g[i] /\ i \in DOMAIN g
  OBVIOUS
<1> HIDE DEF g, K
<1>5. IsFiniteSet(K)
  BY <1>1, <1>2, <1>3, UnionFinite
<1> QED
  BY <1>1, <1>4, <1>5 DEF K

\* Every thread is in the row of whoever opened it, once.
LEMMA ReviewersAddUp ==
  ASSUME NEW m, MergedList(m)
  PROVE  Column(reviewerTable(m), LAMBDA r : r.threads) = SumFunction(Fetched(m))
<1> DEFINE D == DOMAIN m
           R == reviewerTable(m)
           K == DOMAIN R
           g == [n \in K |-> R[n].threads]
           by(n) == [i \in D |-> Cardinality(threadsBy(m[i], n))]
           at(n) == [i \in D |-> {i} \X threadsBy(m[i], n)]
           F == [n \in K |-> UNION {at(n)[i] : i \in D}]
<1>1. IsFiniteSet(D) /\ \A i \in D : IsFiniteSet(m[i].threadsOf)
  BY DEF MergedList, Derived
<1>2. IsFiniteSet(K) /\ \A i \in D : \A t \in m[i].threadsOf : t.author \in K
  BY NamesFinite
<1>3. IsFiniteSet(ThreadsAt(m)) /\ SumFunction(Fetched(m)) = Cardinality(ThreadsAt(m))
  BY ThreadsAtSize
<1>4. \A n \in K : g[n] = SumFunction(by(n))
  <2> TAKE n \in K
  <2>1. R[n].threads = SumFunction([i \in D |-> Cardinality(threadsBy(m[i], n))])
    BY DEF reviewerTable, reviewer, Column, Each
  <2> QED
    BY <2>1
<1>5. ASSUME NEW n \in K
      PROVE  SumFunction(by(n)) = Cardinality(F[n])
  <2>1. \A i \in D : IsFiniteSet(threadsBy(m[i], n))
    <3>1. \A i \in D : threadsBy(m[i], n) \in SUBSET m[i].threadsOf
      BY DEF threadsBy
    <3> QED
      BY <1>1, <3>1, FS_Subset
  <2>2. \A i \in D : at(n)[i] \subseteq ThreadsAt(m) /\ by(n)[i] = Cardinality(at(n)[i])
    <3>1. \A i \in D : at(n)[i] \subseteq ThreadsAt(m)
      BY DEF threadsBy, ThreadsAt
    <3>2. \A i \in D : Cardinality({i} \X threadsBy(m[i], n)) = Cardinality(threadsBy(m[i], n))
      BY <2>1, TaggedSize
    <3>3. \A i \in D : by(n)[i] = Cardinality(at(n)[i])
      BY <3>2
    <3> QED
      BY <3>1, <3>3
  <2>3. \A i, j \in D : i # j => at(n)[i] \cap at(n)[j] = {}
    OBVIOUS
  <2>4. F[n] = UNION {at(n)[i] : i \in D}
    OBVIOUS
  <2> DEFINE f == by(n)
             H == at(n)
             W == ThreadsAt(m)
  <2>5. IsFiniteSet(D) /\ DOMAIN f = D /\ IsFiniteSet(W)
    BY <1>1, <1>3
  <2>6. \A i \in D : H[i] \subseteq W /\ f[i] = Cardinality(H[i])
    BY <2>2
  <2>7. \A i, j \in D : i # j => H[i] \cap H[j] = {}
    BY <2>3
  <2> HIDE DEF D, f, H, W, F
  <2>8. SumFunction(f) = Cardinality(UNION {H[i] : i \in D})
    BY ONLY <2>5, <2>6, <2>7, SizesSum
  <2> QED
    BY <2>4, <2>8 DEF f, H
<1>6. \A n \in K : F[n] = {x \in ThreadsAt(m) : x[2].author = n}
  BY DEF ThreadsAt, threadsBy
<1>7. UNION {F[n] : n \in K} = ThreadsAt(m)
  <2>1. \A x \in ThreadsAt(m) : x[2].author \in K
    BY <1>2 DEF ThreadsAt
  <2> HIDE DEF F, K
  <2> QED
    BY <1>6, <2>1
<1>8. \A n, k \in K : n # k => F[n] \cap F[k] = {}
  <2> HIDE DEF F, K
  <2> QED
    BY <1>6
<1>9. DOMAIN g = K /\ \A n \in K : F[n] \subseteq ThreadsAt(m) /\ g[n] = Cardinality(F[n])
  BY <1>4, <1>5, <1>6
<1>10. Column(R, LAMBDA r : r.threads) = SumFunction(g)
  BY DEF Column, Each
<1> HIDE DEF F, g, K
<1>11. SumFunction(g) = Cardinality(UNION {F[n] : n \in K})
  BY <1>2, <1>3, <1>8, <1>9, SizesSum
<1> QED
  BY <1>3, <1>7, <1>10, <1>11

\* Every merge has a cycle.
LEMMA CyclesOrdered ==
  ASSUME NEW m, MergedList(m), DOMAIN m # {}
  PROVE  cycleTimes(m).p50 <= cycleTimes(m).p90
<1> DEFINE cycles == [i \in DOMAIN m |-> m[i].cycle]
<1>1. cycleTimes(m).p50 = percentile(cycles, 50) /\ cycleTimes(m).p90 = percentile(cycles, 90)
  BY DEF cycleTimes, Each, Figures, Those, RestrictValues, Restrict
<1>2. IsFiniteSet(DOMAIN cycles) /\ DOMAIN cycles # {} /\ \A i \in DOMAIN cycles : cycles[i] \in Int
  BY MetricsAssumption DEF MergedList, Derived
<1> HIDE DEF cycles
<1> QED
  BY <1>1, <1>2, PercentilesOrdered

\* What had a review by a person had a review, and if it had commits after the one it had them after the other.
LEMMA ReworkOrdered ==
  ASSUME NEW m, MergedList(m)
  PROVE  rework(m).human.prs <= rework(m).any.prs /\ rework(m).human.after <= rework(m).any.after
<1> DEFINE D == DOMAIN m
           human == {i \in D : m[i].firstHumanReviewAt # Null}
           any == {i \in D : m[i].firstReviewAt # Null}
           humanAfter == {i \in human : m[i].commitsAfterHumanReview > 0}
           anyAfter == {i \in any : m[i].commitsAfterAnyReview > 0}
<1>1. IsFiniteSet(D) /\ \A i \in D : HumanAfterAny(m[i])
  BY DEF MergedList, Derived
<1>2. human \in SUBSET any /\ humanAfter \in SUBSET anyAfter /\ any \in SUBSET D /\ anyAfter \in SUBSET D
  BY <1>1 DEF HumanAfterAny
<1>3. /\ rework(m).human.prs = Cardinality(human) /\ rework(m).any.prs = Cardinality(any)
      /\ rework(m).human.after = Cardinality(humanAfter) /\ rework(m).any.after = Cardinality(anyAfter)
  BY DEF rework, reworked, withHumanReview, withAnyReview, Those, RestrictValues, Restrict, Each, Count, Size
<1> HIDE DEF human, any, humanAfter, anyAfter
<1>4. IsFiniteSet(any) /\ IsFiniteSet(anyAfter)
  BY <1>1, <1>2, FS_Subset
<1>5. Cardinality(human) <= Cardinality(any) /\ Cardinality(humanAfter) <= Cardinality(anyAfter)
  BY <1>2, <1>4, FS_Subset
<1> QED
  BY <1>3, <1>5

\* The list that the tables are of: what was merged to the branch, as derive makes it.
LEMMA MergedOf ==
  ASSUME NEW list \in Lists
  PROVE  LET m == mergedTo(Each(list, derive), Base) IN
         /\ MergedList(m) /\ DOMAIN m = {i \in DOMAIN list : list[i].merged # Null /\ list[i].base = Base}
         /\ \A i \in DOMAIN m : m[i].threadsOf = list[i].threads /\ m[i].threads.total = list[i].threadCount
<1> DEFINE all == [i \in DOMAIN list |-> derive(list[i])]
           at == {i \in DOMAIN list : all[i].merged # Null /\ all[i].base = Base}
           m == [i \in at |-> all[i]]
<1>1. mergedTo(Each(list, derive), Base) = m
  BY DEF mergedTo, Those, RestrictValues, Restrict, Each
<1>2. IsFiniteSet(DOMAIN list) /\ \A i \in DOMAIN list : CanonicalPr(list[i])
  <2>1. list \in Seq(Pulls) /\ \A pr \in Pulls : CanonicalPr(pr)
    BY MetricsAssumption
  <2>2. DOMAIN list = 1 .. Len(list) /\ Len(list) \in Nat /\ \A i \in DOMAIN list : list[i] \in Pulls
    BY <2>1
  <2>3. IsFiniteSet(DOMAIN list)
    BY <2>2, FS_Interval
  <2> QED
    BY <2>1, <2>2, <2>3
<1>3. \A i \in DOMAIN list :
          /\ Derived(all[i]) /\ all[i].merged = list[i].merged /\ all[i].base = list[i].base
          /\ all[i].threadsOf = list[i].threads /\ all[i].threads.total = list[i].threadCount
  BY <1>2, DeriveMakes
<1> HIDE DEF all
<1>4. at = {i \in DOMAIN list : list[i].merged # Null /\ list[i].base = Base}
  BY <1>3
<1>5. IsFiniteSet(DOMAIN m)
  <2>1. at \in SUBSET DOMAIN list
    OBVIOUS
  <2> QED
    BY <1>2, <2>1, FS_Subset
<1>6. \A i \in at : Derived(all[i]) /\ all[i].merged \in Nat
  BY <1>3 DEF Derived
<1>7. MergedList(m)
  BY <1>5, <1>6 DEF MergedList
<1>8. DOMAIN m = at
  OBVIOUS
<1>9. \A i \in DOMAIN m : m[i].threadsOf = list[i].threads /\ m[i].threads.total = list[i].threadCount
  BY <1>3
<1> HIDE DEF m, at
<1> QED
  BY <1>1, <1>4, <1>7, <1>8, <1>9

\* compute gives each table of that list.
LEMMA ComputeIs ==
  ASSUME NEW all, NEW base, NEW today
  PROVE  LET stats == compute(all, base, today)
             merged == mergedTo(all, base)
         IN  /\ stats.counts.mergedToBase = Size(merged)
             /\ stats.threads = threadTotals(merged)
             /\ stats.weekly = weeklyMerges(merged, today)
             /\ stats.cycle = cycleTimes(merged)
             /\ stats.rework = rework(merged)
             /\ stats.size = sizeHistogram(merged)
             /\ stats.commits = commitsHistogram(merged)
             /\ stats.reviewers = reviewerTable(merged)
             /\ stats.authors = authorTable(merged)
BY DEF compute, Count, Each, Those, RestrictValues, Restrict

\* Every table of compute counts what the others do.
LEMMA TheTablesAgree == TablesAgree
<1> SUFFICES ASSUME NEW list \in Lists
             PROVE  LET stats == compute(Each(list, derive), Base, Now)
                        n == stats.counts.mergedToBase
                        threads == stats.threads
                        fetched == threads.bot + threads.human
                    IN /\ n = Cardinality({i \in DOMAIN list : list[i].merged # Null /\ list[i].base = Base})
                       /\ n = Column(stats.weekly, LAMBDA w : w.merges)
                       /\ n = Column(stats.authors, LAMBDA a : a.merged)
                       /\ n = Column(stats.size, LAMBDA b : b) /\ n = Column(stats.commits, LAMBDA c : c)
                       /\ fetched = threads.resolved + threads.unresolvedOutdated + threads.unresolvedLive
                       /\ fetched = Column(stats.reviewers, LAMBDA r : r.threads)
                       /\ threads.total = Column(stats.authors, LAMBDA a : a.threadsReceived)
                       /\ threads.resolved = Column(stats.weekly, LAMBDA w : w.resolved)
                       /\ (\A i \in DOMAIN list : CountsItsThreads(list[i])) =>
                              threads.resolved <= threads.total
                       /\ Cardinality(DOMAIN stats.weekly) =
                              IF n = 0 THEN 0 ELSE 1 + Max(DOMAIN stats.weekly) - Min(DOMAIN stats.weekly)
                       /\ n > 0 => stats.cycle.p50 <= stats.cycle.p90
  BY DEF TablesAgree
<1> DEFINE all == Each(list, derive)
           m == mergedTo(all, Base)
           t == threadTotals(m)
           W == weeklyMerges(m, Now)
           stats == compute(all, Base, Now)
<1>1. /\ stats.counts.mergedToBase = Size(m) /\ stats.threads = t /\ stats.weekly = W
      /\ stats.cycle = cycleTimes(m) /\ stats.size = sizeHistogram(m)
      /\ stats.commits = commitsHistogram(m) /\ stats.reviewers = reviewerTable(m)
      /\ stats.authors = authorTable(m)
  <2> HIDE DEF all
  <2> QED
    BY ComputeIs
<1>2. /\ MergedList(m) /\ DOMAIN m = {i \in DOMAIN list : list[i].merged # Null /\ list[i].base = Base}
      /\ \A i \in DOMAIN m : m[i].threadsOf = list[i].threads /\ m[i].threads.total = list[i].threadCount
  BY MergedOf
<1> HIDE DEF all, m
<1>3. /\ Column(W, LAMBDA w : w.merges) = Size(m) /\ Column(W, LAMBDA w : w.resolved) = t.resolved
  BY <1>2, MergesByWeek
<1>4. Cardinality(DOMAIN W) = IF DOMAIN m = {} THEN 0 ELSE 1 + Max(DOMAIN W) - Min(DOMAIN W)
  BY <1>2, WeeksSpan
<1>5. /\ Column(authorTable(m), LAMBDA a : a.merged) = Size(m)
      /\ Column(authorTable(m), LAMBDA a : a.threadsReceived) = t.total
  BY <1>2, AuthorsAddUp
<1>6. /\ Column(sizeHistogram(m), LAMBDA b : b) = Size(m)
      /\ Column(commitsHistogram(m), LAMBDA c : c) = Size(m)
  BY <1>2, SizesAddUp, CommitsAddUp
<1>7. /\ SumFunction(Fetched(m)) = t.bot + t.human
      /\ SumFunction(Fetched(m)) = t.resolved + t.unresolvedOutdated + t.unresolvedLive
      /\ (\A i \in DOMAIN list : CountsItsThreads(list[i])) => t.resolved <= t.total
  BY <1>2, ThreadsAddUp DEF CountsItsThreads
<1>8. Column(reviewerTable(m), LAMBDA r : r.threads) = SumFunction(Fetched(m))
  BY <1>2, ReviewersAddUp
<1>9. DOMAIN m # {} => cycleTimes(m).p50 <= cycleTimes(m).p90
  BY <1>2, CyclesOrdered
<1>10. Size(m) = Cardinality(DOMAIN m) /\ Size(m) \in Nat /\ (Size(m) = 0 <=> DOMAIN m = {})
  BY <1>2, FS_CardinalityType, FS_EmptySet DEF Size, MergedList
<1> HIDE DEF t, W, stats
<1> QED
  BY <1>1, <1>2, <1>3, <1>4, <1>5, <1>6, <1>7, <1>8, <1>9, <1>10 DEF all, stats

\* What derive and compute say of reviews by people is part of what they say of all.
LEMMA HumanIsPart == HumanIsPartOfAny
<1>1. ASSUME NEW pr \in Pulls
      PROVE  HumanAfterAny(derive(pr))
  BY MetricsAssumption, HumanReviewsAreReviews
<1>2. ASSUME NEW list \in Lists
      PROVE  LET after == compute(Each(list, derive), Base, Now).rework
             IN after.human.prs <= after.any.prs /\ after.human.after <= after.any.after
  <2> DEFINE all == Each(list, derive)
  <2>1. MergedList(mergedTo(all, Base))
    BY MergedOf
  <2> HIDE DEF all
  <2>2. compute(all, Base, Now).rework = rework(mergedTo(all, Base))
    BY ComputeIs
  <2>3. LET after == compute(all, Base, Now).rework
        IN after.human.prs <= after.any.prs /\ after.human.after <= after.any.after
    BY <2>1, <2>2, ReworkOrdered
  <2> QED
    BY <2>3 DEF all
<1> QED
  BY <1>1, <1>2 DEF HumanIsPartOfAny, HumanAfterAny

-----------------------------------------------------------------------------
(* Theorems.                                                               *)

\* Looking at the last days only never moves work to another pull request than all of the time would,
\* unless that one was closed without a merge, for any pull requests, sessions and ranges: the owner
\* is left in the list, because it was not merged before the work, and nothing that is left comes
\* before it (range.ts filterPrs, telemetry.ts owner).
THEOREM RangesKeepTheOwner == Spec => []RangeNeverReassigns
<1>1. ASSUME WorldInv, NEW back \in 0..now, NEW x \in Everything.splits,
             OwnerIn(ALL_TIME, x) # None, x.from >= now - back
      PROVE  \/ StateOf(OwnerIn(ALL_TIME, x)) = "closed"
             \/ OwnerIn(resolveRange(back), x) = OwnerIn(ALL_TIME, x)
  <2> DEFINE range == resolveRange(back)
             left == filterPrs(prs, range)
             kept == {i \in DOMAIN prs : inRange(prs[i], range)}
  <2>1. filterPrs(prs, ALL_TIME) = prs
    <3>1. \A i \in DOMAIN prs : inRange(prs[i], ALL_TIME)
      BY DEF inRange, ALL_TIME, within
    <3>2. prs = [i \in DOMAIN prs |-> prs[i]]
      <4>1. prs \in Seq(Prs)
        BY <1>1 DEF WorldInv, PrsOK
      <4>2. prs \in [1..Len(prs) -> Prs]
        BY <4>1
      <4> QED
        BY <4>2
    <3> QED
      BY <3>1, <3>2 DEF filterPrs, Restrict
  <2>2. PICK i \in DOMAIN prs : Owns(prs, x, i)
    BY <1>1, <2>1, PrsListed, OwnerOf DEF OwnerIn
  <2>3. OwnerIn(ALL_TIME, x) = prKey(prs[i])
    BY <1>1, <2>1, <2>2, PrsListed, OwnerOf DEF OwnerIn
  <2>4. CASE prs[i].state = "closed"
    <3>1. \A j \in DOMAIN prs : prKey(prs[j]) = prKey(prs[i]) => j = i
      BY <1>1, KeysDiffer
    <3>2. (CHOOSE j \in DOMAIN prs : prKey(prs[j]) = prKey(prs[i])) = i
      BY <3>1
    <3> QED
      BY <2>3, <2>4, <3>2 DEF StateOf
  <2>5. CASE prs[i].state # "closed"
    <3>1. /\ x.from \in Nat /\ now \in Nat /\ back \in Nat
          /\ closesAt(prs[i]) \in Nat /\ closesAt(prs[i]) >= x.from
      <4>1. PICK s, p : p \in Held(s) /\ x = Split(s, p)
        BY DEF Everything
      <4> QED
        BY <1>1, <2>2, <4>1, StartsOf, PrsListed DEF Split, Owns, Takes
    <3>2. range.from = now - back /\ range.to = now + 1 /\ range.from \in Int
      BY <3>1 DEF resolveRange
    <3>3. i \in kept
      <4>1. PrsOK /\ i \in 1..Len(prs)
        BY <1>1, PrsListed DEF WorldInv
      <4>2. /\ prs[i] \in Prs /\ prs[i].created \in Nat /\ prs[i].created <= now
            /\ prs[i].merged # None => prs[i].merged \in Nat /\ prs[i].merged <= now
            /\ prs[i].state = "merged" <=> prs[i].merged # None
        BY <4>1, PrsTyped DEF PrsOK
      <4> HIDE DEF range
      <4>3. CASE prs[i].merged # None
        <5>1. closesAt(prs[i]) = prs[i].merged
          BY <4>3 DEF closesAt
        <5>2. within(prs[i].merged, range)
          BY <1>1, <3>1, <3>2, <4>2, <4>3, <5>1 DEF within
        <5> QED
          BY <4>3, <5>2 DEF inRange
      <4>4. CASE prs[i].merged = None
        <5>1. prs[i].state = "open"
          BY <2>5, <4>2, <4>4 DEF Prs
        <5>2. prs[i].created < range.to
          BY <3>1, <3>2, <4>2
        <5> QED
          BY <4>4, <5>1, <5>2 DEF inRange
      <4> QED
        BY <4>3, <4>4
    <3> HIDE DEF range
    <3>4. /\ DOMAIN left = kept /\ kept \subseteq DOMAIN prs
          /\ \A j \in kept : left[j] = prs[j]
      BY DEF filterPrs, Restrict
    <3>5. Listed(left) /\ Takes(left, x) \subseteq Takes(prs, x)
      BY <1>1, <3>4, PrsListed DEF Listed, Takes
    <3>6. Owns(left, x, i)
      BY <2>2, <3>3, <3>4, <3>5 DEF Owns, Takes
    <3>7. owner(left, x) = prKey(prs[i])
      BY <3>3, <3>4, <3>5, <3>6, OwnerOf
    <3> QED
      BY <2>3, <3>7 DEF OwnerIn, range
  <2> QED
    BY <2>4, <2>5
<1>2. WorldInv => RangeNeverReassigns
  BY <1>1 DEF RangeNeverReassigns
<1> QED
  BY <1>2, WorldInvariant, PTL

\* What a session does later moves nothing it has begun.
LEMMA StartsStay ==
  ASSUME WorldInv, NEW s, NEW p, p \in Held(s), [Next]_vars
  PROVE  Starts(s, p)' = Starts(s, p)
<1> DEFINE ats == {w.at : w \in {x \in Of(s) : x.place = p}}
<1>1. CASE UNCHANGED work
  BY <1>1 DEF Starts, Of
<1>2. ASSUME NEW t \in Sessions, NEW q \in Places, Work(t, q)
      PROVE  Starts(s, p)' = Starts(s, p)
  <2>1. work' = work \cup {[session |-> t, place |-> q, at |-> now + 1]}
    BY <1>2 DEF Work
  <2>2. ats \subseteq ats' /\ ats' \subseteq ats \cup {now + 1}
    BY <2>1 DEF Of
  <2>3. Starts(s, p) = Min(ats) /\ Starts(s, p)' = Min(ats')
    BY DEF Starts
  <2>4. now \in Nat /\ \A a \in ats : a \in Nat /\ a <= now
    BY PrsListed DEF WorldInv, WorkOK, Of
  <2>5. Starts(s, p) \in ats
    BY StartsOf
  <2> DEFINE m == Min(ats)
             n == Min(ats')
             new == ats'
  <2> HIDE DEF ats
  <2>6. m \in ats /\ \A a \in ats : m <= a
    BY <2>4, <2>5, MinOf
  <2>7. n \in new /\ \A a \in new : n <= a
    <3>1. new \in SUBSET Nat /\ new # {}
      BY <2>2, <2>4, <2>5
    <3> HIDE DEF new
    <3> QED
      BY <3>1, MinOf DEF new
  <2>8. m \in Nat /\ n \in Nat /\ m <= now
    BY <2>2, <2>4, <2>6, <2>7
  <2>9. m \in new /\ (n = now + 1 \/ n \in ats)
    BY <2>2, <2>6, <2>7
  <2> HIDE DEF m, n, new
  <2>10. n <= m /\ m <= n
    BY <2>4, <2>6, <2>7, <2>8, <2>9
  <2>11. m = n
    BY <2>8, <2>10
  <2> QED
    BY <2>3, <2>11 DEF m, n
<1> QED
  BY <1>1, <1>2 DEF Next, Open, Merge, Close, vars

\* The pull request that a split belongs to, if it is merged, stays in front of all others.
LEMMA MergedStays ==
  ASSUME WorldInv, [Next]_vars, NEW x, NEW y, x.place = y.place, x.from = y.from, x.from \in Nat,
         NEW i \in DOMAIN prs, prs[i].state = "merged", Owns(prs, x, i)
  PROVE  owner(prs', y) = owner(prs, x)
<1>1. WorldInv'
  BY NextWorld
<1>2. Listed(prs) /\ DOMAIN prs = 1..Len(prs) /\ Listed(prs') /\ DOMAIN prs' = 1..Len(prs')
  <2>1. prs' \in Seq(Prs)
    BY <1>1 DEF WorldInv, PrsOK
  <2>2. DOMAIN prs' = 1..Len(prs') /\ Len(prs') \in Nat /\ \A j \in 1..Len(prs') : prs'[j] \in Prs
    BY <2>1
  <2>3. \A pr \in Prs : closesAt(pr) \in Nat
    BY AttributionAssumption DEF Prs, Times, closesAt, Forever
  <2> QED
    BY <2>2, <2>3, PrsListed DEF Listed
<1>3. /\ \A j \in 1..Len(prs) : closesAt(prs[j]) \in Nat
      /\ \A j \in 1..Len(prs') : closesAt(prs'[j]) \in Nat
      /\ now \in Nat /\ Forever \in Nat /\ now < Forever
  BY <1>2, PrsListed DEF Listed
<1>4. /\ prs[i].merged # None /\ closesAt(prs[i]) = prs[i].merged
      /\ prs[i].merged <= now /\ prs[i].merged \in Nat
  BY <1>2, PrsListed, PrsTyped DEF WorldInv, PrsOK
<1>5. /\ i \in 1..Len(prs) /\ prs[i].place = x.place /\ closesAt(prs[i]) >= x.from
      /\ \A j \in 1..Len(prs) : prs[j].place = x.place /\ closesAt(prs[j]) >= x.from =>
             /\ closesAt(prs[i]) <= closesAt(prs[j])
             /\ closesAt(prs[i]) = closesAt(prs[j]) => i <= j
  BY <1>2 DEF Owns, Takes
<1>6. owner(prs, x) = prKey(prs[i])
  BY <1>2, OwnerOf
<1>7. ASSUME NEW k \in 1..Len(prs'), prKey(prs'[k]) = prKey(prs[i]), Owns(prs', y, k)
      PROVE  owner(prs', y) = owner(prs, x)
  BY <1>2, <1>6, <1>7, OwnerOf
<1>8. CASE UNCHANGED prs
  <2>1. Owns(prs', y, i)
    BY <1>8 DEF Owns, Takes
  <2> QED
    BY <1>2, <1>7, <1>8, <2>1
<1>9. ASSUME NEW p \in Places, NEW by \in Sessions \cup {None}, Open(p, by)
      PROVE  owner(prs', y) = owner(prs, x)
  <2> DEFINE pr == [place |-> p, number |-> NextNumber(p[1]), created |-> now', state |-> "open",
                    merged |-> None]
  <2>1. prs' = <<pr>> \o prs /\ pr.merged = None /\ PrsOK
    BY <1>9 DEF Open, WorldInv
  <2> HIDE DEF pr
  <2>2. /\ Len(prs') = Len(prs) + 1 /\ prs'[1] = pr
        /\ \A j \in 1..Len(prs) : prs'[j + 1] = prs[j]
        /\ \A j \in 1..Len(prs') : j # 1 => j - 1 \in 1..Len(prs) /\ prs'[j] = prs[j - 1]
    BY <2>1, OnePrepended
  <2>3. i + 1 \in 1..Len(prs') /\ prs'[i + 1] = prs[i]
    BY <1>5, <2>1, <2>2, PrsTyped
  <2>4. closesAt(prs'[1]) = Forever
    BY <2>1, <2>2 DEF closesAt
  <2>5. ASSUME NEW j \in 1..Len(prs'), prs'[j].place = y.place, closesAt(prs'[j]) >= y.from
        PROVE  /\ closesAt(prs[i]) <= closesAt(prs'[j])
               /\ closesAt(prs[i]) = closesAt(prs'[j]) => i + 1 <= j
    <3>1. CASE j = 1
      BY <1>3, <1>4, <2>4, <3>1
    <3>2. CASE j # 1
      <4>1. j - 1 \in 1..Len(prs) /\ prs'[j] = prs[j - 1]
        BY <2>2, <3>2
      <4> QED
        BY <1>5, <2>5, <4>1
    <3> QED
      BY <3>1, <3>2
  <2>6. Owns(prs', y, i + 1)
    BY <1>2, <1>5, <2>3, <2>5 DEF Owns, Takes
  <2> QED
    BY <1>7, <2>3, <2>6
<1>10. ASSUME NEW k \in DOMAIN prs, NEW pr, prs' = [prs EXCEPT ![k] = pr],
              pr.place = prs[k].place, pr.number = prs[k].number,
              pr.merged = prs[k].merged \/ (k # i /\ pr.merged = now /\ prs[i].merged # now)
       PROVE  owner(prs', y) = owner(prs, x)
  <2>1. /\ Len(prs') = Len(prs) /\ prs'[k] = pr
        /\ \A j \in 1..Len(prs) : j # k => prs'[j] = prs[j]
    BY <1>10, SettledPrs DEF WorldInv
  <2>2. prKey(prs'[i]) = prKey(prs[i]) /\ prs'[i].place = prs[i].place
    BY <1>5, <1>10, <2>1 DEF prKey
  <2>3. closesAt(prs'[i]) = closesAt(prs[i])
    BY <1>5, <1>10, <2>1 DEF closesAt
  <2>4. ASSUME NEW j \in 1..Len(prs'), prs'[j].place = y.place, closesAt(prs'[j]) >= y.from
        PROVE  /\ closesAt(prs[i]) <= closesAt(prs'[j])
               /\ closesAt(prs[i]) = closesAt(prs'[j]) => i <= j
    <3>1. j \in 1..Len(prs) /\ prs[j].place = prs'[j].place
      BY <1>10, <2>1
    <3>2. CASE closesAt(prs'[j]) = closesAt(prs[j])
      BY <1>5, <2>4, <3>1, <3>2
    <3>3. CASE closesAt(prs'[j]) # closesAt(prs[j])
      <4>1. j = k /\ pr.merged # prs[k].merged
        BY <2>1, <3>1, <3>3 DEF closesAt
      <4>2. closesAt(prs'[j]) = now /\ prs[i].merged # now
        <5>1. now # None
          BY <1>3, AttributionAssumption
        <5> QED
          BY <1>10, <2>1, <4>1, <5>1 DEF closesAt
      <4> QED
        BY <1>3, <1>4, <4>2
    <3> QED
      BY <3>2, <3>3
  <2>5. Owns(prs', y, i)
    BY <1>2, <1>5, <2>1, <2>2, <2>3, <2>4 DEF Owns, Takes
  <2> QED
    BY <1>5, <1>7, <2>1, <2>2, <2>5
<1>11. ASSUME NEW k \in DOMAIN prs, Merge(k) PROVE owner(prs', y) = owner(prs, x)
  <2> DEFINE pr == [prs[k] EXCEPT !.state = "merged", !.merged = now]
  <2>1. prs' = [prs EXCEPT ![k] = pr] /\ k # i /\ prs[i].merged # now
    BY <1>11 DEF Merge
  <2>2. pr.place = prs[k].place /\ pr.number = prs[k].number /\ pr.merged = now
    BY <1>2, PrsTyped DEF WorldInv, Prs
  <2> HIDE DEF pr
  <2> QED
    BY <1>10, <2>1, <2>2
<1>12. ASSUME NEW k \in DOMAIN prs, Close(k) PROVE owner(prs', y) = owner(prs, x)
  <2> DEFINE pr == [prs[k] EXCEPT !.state = "closed"]
  <2>1. prs' = [prs EXCEPT ![k] = pr]
    BY <1>12 DEF Close
  <2>2. pr.place = prs[k].place /\ pr.number = prs[k].number /\ pr.merged = prs[k].merged
    BY <1>2, PrsTyped DEF WorldInv, Prs
  <2> HIDE DEF pr
  <2> QED
    BY <1>10, <2>1, <2>2
<1> QED
  BY <1>8, <1>9, <1>11, <1>12 DEF Next, Work, vars

\* Work that went into a merged pull request stays there, whatever its branch is used for later, for
\* any pull requests and sessions: one that is opened closes after all that are merged, and one
\* that is merged, after those that were (telemetry.ts attribute, "An open PR is still accepting
\* work, so it sorts last").
THEOREM MergedKeepTheirWork == Spec => MergedKeepsItsWork
<1>1. ASSUME WorldInv, [Next]_vars, NEW s \in Sessions, NEW p \in Places, p \in Held(s),
             NEW i \in DOMAIN prs, prs[i].state = "merged", prKey(prs[i]) = Credit(s, p)
      PROVE  Credit(s, p)' = Credit(s, p)
  <2> DEFINE x == [place |-> p, from |-> Starts(s, p)]
             y == [place |-> p, from |-> Starts(s, p)']
  <2>1. x.place = p /\ y.place = p /\ x.from = Starts(s, p) /\ y.from = Starts(s, p)'
    OBVIOUS
  <2>2. x.from = y.from /\ x.from \in Nat
    BY <1>1, <2>1, StartsStay, StartsOf
  <2>3. Credit(s, p) = owner(prs, x) /\ Credit(s, p)' = owner(prs', y)
    BY DEF Credit
  <2> HIDE DEF x, y
  <2>4. Listed(prs)
    BY <1>1, PrsListed
  <2>5. Credit(s, p) # None
    BY <1>1, AttributionAssumption, PrsTyped DEF prKey, WorldInv, Prs
  <2>6. PICK j \in DOMAIN prs : Owns(prs, x, j) /\ owner(prs, x) = prKey(prs[j])
    BY <2>3, <2>4, <2>5, OwnerOf
  <2>7. j = i
    BY <1>1, <2>3, <2>6, KeysDiffer
  <2> QED
    BY <1>1, <2>1, <2>2, <2>3, <2>6, <2>7, MergedStays
<1>2. WorldInv /\ [Next]_vars =>
          \A s \in Sessions, p \in Places :
              (p \in Held(s)
                  /\ \E i \in DOMAIN prs : prs[i].state = "merged" /\ prKey(prs[i]) = Credit(s, p))
                  => Credit(s, p)' = Credit(s, p)
  BY <1>1
<1> QED
  BY <1>2, WorldInvariant, PTL DEF Spec, MergedKeepsItsWork

\* The work of a session is credited once, for any pull requests, sessions, repositories and ranges:
\* a session that is linked is not matched by its branches, its branches share no work, and a split
\* has one owner or none (telemetry.ts attribute); the weeks share out the sessions (weeklySeries).
\* Where every session can be divided, whatever it did is in a row or among what matched none.  The
\* rows are those of answers in which no session held branches of one name in two repositories.
THEOREM CreditAddsUp == Spec => []AddsUp
<1>1. WorldInv /\ WorkDiffers => AddsUp
  BY AnswerAddsUp DEF AddsUp
<1> QED
  BY <1>1, DiffersInvariant, PTL

\* Every merged pull request and every thread is counted once in every table, and what is said of
\* reviews by people is part of what is said of all, for any lists of pull requests that the provider
\* can describe, any authors, bots, bounds of the sizes and length of a week: each table groups one
\* list by a key, and adding up over the keys is adding up over the list (metrics.ts compute, derive).
THEOREM TheFiguresAgree == Spec => []FiguresAgree
<1>1. FiguresAgree
  BY TheTablesAgree, HumanIsPart DEF FiguresAgree
<1> QED
  BY <1>1, PTL

=============================================================================
