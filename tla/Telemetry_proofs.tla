--------------------------- MODULE Telemetry_proofs ---------------------------
(***************************************************************************)
(* Theorems of Telemetry, for any sessions, places, series and bounds:     *)
(* every unit of work counts once, and is credited to one branch.          *)
(*                                                                         *)
(* A sum of figures is the size of a set of pairs, one for each of what a  *)
(* figure counts (Pile, Units), so that the views add up what the sets     *)
(* hold together.  Of a session that exports increments, the rows and what *)
(* is yet to be collected are its work (DeltaInv), whether the rows are in *)
(* the table or on their way to it; of one that exports running totals,    *)
(* each counts work since its start_time, and no two start_times overlap   *)
(* (EpochInv); the rows of the backfill are each session's work up to some *)
(* moment, whichever chunk was the last (ImportInv).  A row of             *)
(* session_branch begins when the session was there (BranchInv), so that   *)
(* no two begin at one moment.                                             *)
(***************************************************************************)
EXTENDS Telemetry, FiniteSetTheorems, WellFoundedInduction, TLAPS

-----------------------------------------------------------------------------
(* The least and the greatest of some numbers.                             *)

LEMMA MinOf ==
  ASSUME NEW S \in SUBSET Nat, S # {}
  PROVE  Min(S) \in S /\ \A x \in S : Min(S) <= x
<1>1. PICK m \in S : \A x \in S : ~ (<<x, m>> \in OpToRel(<, Nat))
  BY WFMin, NatLessThanWellFounded, Zenon
<1>2. \A x \in S : m <= x
  <2> TAKE x \in S
  <2>1. m \in Nat /\ x \in Nat
    OBVIOUS
  <2>2. ~ (x < m)
    BY <1>1, <2>1, Zenon DEF OpToRel
  <2> QED
    BY <2>1, <2>2
<1> QED
  BY <1>2 DEF Min

LEMMA MaxOf ==
  ASSUME NEW S \in SUBSET Nat, S # {}, NEW n \in Nat, \A x \in S : x <= n
  PROVE  Max(S) \in S /\ \A x \in S : x <= Max(S)
<1> DEFINE T == {n - x : x \in S}
<1>1. T \in SUBSET Nat /\ T # {}
  <2>1. \A x \in S : n - x \in Nat
    OBVIOUS
  <2> QED
    BY <2>1
<1>2. Min(T) \in T /\ \A y \in T : Min(T) <= y
  <2> HIDE DEF T
  <2> QED
    BY <1>1, MinOf
<1>3. PICK m \in S : Min(T) = n - m
  BY <1>2
<1>4. \A x \in S : n - m <= n - x
  BY <1>2, <1>3
<1>5. \A x \in S : x <= m
  BY <1>4
<1> QED
  BY <1>5 DEF Max

-----------------------------------------------------------------------------
(* Sums.                                                                   *)

Some(s) == CHOOSE x \in s : TRUE

\* What a fold over S asks of the function that it goes by.
Adds(i, f, S) == i = [s \in SUBSET S |-> IF s = {} THEN 0 ELSE f[Some(s)] + i[s \ {Some(s)}]]

\* If the terms of a sum are the sizes of sets no two of which share a member, then it is the size of
\* their union.  The sizes are what the fold asks of its function, and no other function has that of it:
\* of the sets that it would give another sum, a smallest would be without one of its members.
LEMMA SumIsSize ==
  ASSUME NEW S, IsFiniteSet(S), NEW f, NEW F, NEW W, IsFiniteSet(W),
         \A x \in S : F[x] \subseteq W /\ f[x] = Cardinality(F[x]),
         \A x, y \in S : x # y => F[x] \cap F[y] = {}
  PROVE  /\ \E i : Adds(i, f, S)
         /\ \A i : Adds(i, f, S) => i[S] = Cardinality(UNION {F[x] : x \in S})
<1> DEFINE U(s) == UNION {F[x] : x \in s}
           sizes == [s \in SUBSET S |-> Cardinality(U(s))]
<1>1. \A s \in SUBSET S : s # {} => Some(s) \in s
  BY DEF Some
<1>2. ASSUME NEW s \in SUBSET S, NEW x \in s
      PROVE  Cardinality(U(s)) = f[x] + Cardinality(U(s \ {x}))
  <2>1. U(s) = F[x] \cup U(s \ {x}) /\ F[x] \cap U(s \ {x}) = {}
    OBVIOUS
  <2>2. IsFiniteSet(F[x]) /\ IsFiniteSet(U(s \ {x}))
    <3>1. F[x] \in SUBSET W /\ U(s \ {x}) \in SUBSET W
      OBVIOUS
    <3> HIDE DEF U
    <3> QED
      BY <3>1, FS_Subset
  <2> HIDE DEF U
  <2>3. Cardinality(U(s)) = Cardinality(F[x]) + Cardinality(U(s \ {x})) - Cardinality({})
    <3>1. Cardinality(F[x] \cup U(s \ {x})) =
              Cardinality(F[x]) + Cardinality(U(s \ {x})) - Cardinality(F[x] \cap U(s \ {x}))
      BY <2>2, FS_Union
    <3> QED
      BY <2>1, <3>1, Zenon
  <2>4. Cardinality(F[x]) \in Nat /\ Cardinality(U(s \ {x})) \in Nat
    BY <2>2, FS_CardinalityType
  <2>5. f[x] = Cardinality(F[x]) /\ Cardinality({}) = 0
    BY FS_EmptySet
  <2> QED
    BY <2>3, <2>4, <2>5
<1>3. Cardinality(U({})) = 0
  <2>1. U({}) = {}
    OBVIOUS
  <2> HIDE DEF U
  <2> QED
    BY <2>1, FS_EmptySet
<1>4. Adds(sizes, f, S)
  <2> HIDE DEF U
  <2>1. ASSUME NEW s \in SUBSET S
        PROVE  sizes[s] = IF s = {} THEN 0 ELSE f[Some(s)] + sizes[s \ {Some(s)}]
    BY <1>1, <1>2, <1>3
  <2> QED
    BY <2>1 DEF Adds
<1>5. ASSUME NEW i, Adds(i, f, S), NEW s \in SUBSET S
      PROVE  i[s] = Cardinality(U(s))
  <2> DEFINE Wrong == {n \in Nat : \E t \in SUBSET S : Cardinality(t) = n /\ i[t] # Cardinality(U(t))}
  <2> HIDE DEF U
  <2> SUFFICES ASSUME i[s] # Cardinality(U(s)) PROVE FALSE
    OBVIOUS
  <2>1. \A t \in SUBSET S : IsFiniteSet(t) /\ Cardinality(t) \in Nat
    BY FS_Subset, FS_CardinalityType
  <2>2. Wrong \in SUBSET Nat /\ Cardinality(s) \in Wrong
    BY <2>1
  <2>3. Min(Wrong) \in Wrong /\ \A n \in Wrong : Min(Wrong) <= n
    <3> HIDE DEF Wrong
    <3> QED
      BY <2>2, MinOf
  <2>4. PICK t \in SUBSET S : Cardinality(t) = Min(Wrong) /\ i[t] # Cardinality(U(t))
    BY <2>3
  <2>5. \A r \in SUBSET S : i[r] = IF r = {} THEN 0 ELSE f[Some(r)] + i[r \ {Some(r)}]
    BY <1>5 DEF Adds
  <2>6. t # {} /\ Some(t) \in t
    BY <1>1, <1>3, <2>4, <2>5
  <2> DEFINE v == t \ {Some(t)}
             n == f[Some(t)]
  <2>7. /\ v \in SUBSET S /\ Cardinality(v) = Cardinality(t) - 1
        /\ Cardinality(t) \in Nat /\ Cardinality(v) \in Nat
    BY <2>1, <2>6, FS_RemoveElement
  <2>8. i[v] = Cardinality(U(v))
    <3>1. Cardinality(v) \notin Wrong
      <4> HIDE DEF Wrong, v
      <4> QED
        BY <2>3, <2>4, <2>7
    <3> QED
      BY <2>7, <3>1
  <2>9. i[t] = n + i[v]
    BY <2>5, <2>6
  <2>10. Cardinality(U(t)) = n + Cardinality(U(v))
    BY <1>2, <2>6
  <2> HIDE DEF v, n
  <2> QED
    BY <2>4, <2>8, <2>9, <2>10
<1> QED
  <2>1. S \in SUBSET S
    OBVIOUS
  <2> QED
    BY <1>4, <1>5, <2>1, Zenon

\* As many pairs for each member of S as f gives it.
Pile(S, f) == {u \in S \X Nat : u[2] \in 1..f[u[1]]}

LEMMA ImageIsFinite ==
  ASSUME NEW S, IsFiniteSet(S), NEW f, DOMAIN f = S, f = [x \in S |-> f[x]]
  PROVE  IsFiniteSet({f[x] : x \in S})
<1> DEFINE T == {f[x] : x \in S}
<1>1. f \in Surjection(S, T)
  BY DEF Surjection
<1> QED
  BY <1>1, FS_Surjection

LEMMA PileIsSum ==
  ASSUME NEW S, IsFiniteSet(S), NEW f \in [S -> Nat]
  PROVE  /\ IsFiniteSet(Pile(S, f)) /\ Cardinality(Pile(S, f)) \in Nat
         /\ \E i : Adds(i, f, S)
         /\ \A i : Adds(i, f, S) => i[S] = Cardinality(Pile(S, f))
<1> DEFINE F == [x \in S |-> {x} \X (1..f[x])]
           P == Pile(S, f)
<1>1. ASSUME NEW x \in S
      PROVE  IsFiniteSet(F[x]) /\ f[x] = Cardinality(F[x])
  <2>1. f[x] \in Nat
    OBVIOUS
  <2> DEFINE n == f[x]
             N == 1..n
  <2> HIDE DEF n
  <2>2. n \in Nat /\ IsFiniteSet(N) /\ Cardinality(N) = n
    BY <2>1, FS_Interval DEF n
  <2>3. IsFiniteSet({x}) /\ Cardinality({x}) = 1
    BY FS_Singleton
  <2> HIDE DEF N
  <2>4. IsFiniteSet({x} \X N) /\ Cardinality({x} \X N) = Cardinality({x}) * Cardinality(N)
    BY <2>2, <2>3, FS_Product
  <2>5. Cardinality({x} \X N) = n
    BY <2>2, <2>3, <2>4
  <2>6. F[x] = {x} \X N
    BY DEF n, N
  <2> QED
    BY <2>4, <2>5, <2>6 DEF n
<1>2. UNION {F[x] : x \in S} = P
  BY DEF Pile
<1>3. IsFiniteSet(P)
  <2>1. IsFiniteSet({F[x] : x \in S})
    <3> HIDE DEF F
    <3>1. DOMAIN F = S /\ F = [x \in S |-> F[x]]
      BY DEF F
    <3> QED
      BY <3>1, ImageIsFinite
  <2>2. \A T \in {F[x] : x \in S} : IsFiniteSet(T)
    BY <1>1
  <2> HIDE DEF F, P
  <2> QED
    BY <1>2, <2>1, <2>2, FS_UNION
<1>4. \A x \in S : F[x] \subseteq P /\ f[x] = Cardinality(F[x])
  <2> HIDE DEF F, P
  <2> QED
    BY <1>1, <1>2
<1>5. \A x, y \in S : x # y => F[x] \cap F[y] = {}
  OBVIOUS
<1> HIDE DEF F, P
<1>6. /\ \E i : Adds(i, f, S)
      /\ \A i : Adds(i, f, S) => i[S] = Cardinality(UNION {F[x] : x \in S})
  BY <1>3, <1>4, <1>5, SumIsSize
<1>7. Cardinality(P) \in Nat
  BY <1>3, FS_CardinalityType
<1> QED
  BY <1>2, <1>3, <1>6, <1>7 DEF P

-----------------------------------------------------------------------------
(* Each sum of the views is what its fold makes of it.                     *)

Values(rs) == [r \in rs |-> r.value]

LEMMA ValueAdds ==
  ASSUME NEW S, \E i : Adds(i, Values(S), S)
  PROVE  \E i : Adds(i, Values(S), S) /\ Value(S) = i[S]
<1> DEFINE f == Values(S)
           Goes(i) == i = [s \in SUBSET S |->
               IF s = {} THEN 0 ELSE Some(s).value + i[s \ {Some(s)}]]
           fold == CHOOSE i : Goes(i)
<1>1. Value(S) = fold[S]
  BY DEF Value, MapThenSumSet, MapThenFoldSet, Some
<1>2. \A s \in SUBSET S : s # {} => f[Some(s)] = Some(s).value
  BY DEF Some, Values
<1>3. \A i : Adds(i, f, S) <=> Goes(i)
  BY <1>2 DEF Adds
<1>4. \E i : Goes(i)
  BY <1>3
<1>5. Goes(fold)
  <2> HIDE DEF Goes
  <2> QED
    BY <1>4
<1> HIDE DEF fold
<1> QED
  BY <1>1, <1>3, <1>5

LEMMA HeldAdds ==
  ASSUME NEW s, \E i : Adds(i, exporter[s].unsent, Models)
  PROVE  \E i : Adds(i, exporter[s].unsent, Models) /\ Held(s) = i[Models]
<1> DEFINE f == exporter[s].unsent
           Goes(i) == i = [t \in SUBSET Models |->
               IF t = {} THEN 0 ELSE exporter[s].unsent[Some(t)] + i[t \ {Some(t)}]]
           fold == CHOOSE i : Goes(i)
<1>1. Held(s) = fold[Models]
  BY DEF Held, MapThenSumSet, MapThenFoldSet, Some
<1>2. \A i : Adds(i, f, Models) <=> Goes(i)
  BY DEF Adds
<1>3. \E i : Goes(i)
  BY <1>2
<1>4. Goes(fold)
  <2> HIDE DEF Goes
  <2> QED
    BY <1>3
<1> HIDE DEF fold
<1> QED
  BY <1>1, <1>2, <1>4

\* The last of the running totals of each start_time.
Started(rs, t) == {r \in rs : r.start = t}
Last(rs, t) == Max({r.value : r \in Started(rs, t)})
Lasts(rs) == [t \in {r.start : r \in rs} |-> Last(rs, t)]
LastsSum(rs) == MapThenSumSet(LAMBDA t : Max({r.value : r \in {x \in rs : x.start = t}}), {r.start : r \in rs})
Deltas(s) == {r \in Points(s) : r.temporality # "cumulative"}

LEMMA TotalIs ==
  ASSUME NEW s
  PROVE  session_field_total(s) = Value(Deltas(s)) + LastsSum(Points(s) \ Deltas(s))
BY DEF session_field_total, Deltas, LastsSum

LEMMA LastsAdd ==
  ASSUME NEW rs, \E i : Adds(i, Lasts(rs), DOMAIN Lasts(rs))
  PROVE  \E i : Adds(i, Lasts(rs), DOMAIN Lasts(rs)) /\ LastsSum(rs) = i[DOMAIN Lasts(rs)]
<1> DEFINE S == {r.start : r \in rs}
           f == Lasts(rs)
           Goes(i) == i = [t \in SUBSET S |->
               IF t = {} THEN 0 ELSE Last(rs, Some(t)) + i[t \ {Some(t)}]]
           fold == CHOOSE i : Goes(i)
<1>1. LastsSum(rs) = fold[S]
  BY DEF LastsSum, MapThenSumSet, MapThenFoldSet, Some, Last, Started
<1>2. DOMAIN f = S /\ \A t \in SUBSET S : t # {} => f[Some(t)] = Last(rs, Some(t))
  BY DEF Some, Lasts
<1>3. \A i : Adds(i, f, S) <=> Goes(i)
  <2> HIDE DEF f
  <2> QED
    BY <1>2 DEF Adds
<1>4. \E i : Goes(i)
  BY <1>2, <1>3
<1>5. Goes(fold)
  <2> HIDE DEF Goes
  <2> QED
    BY <1>4
<1> HIDE DEF fold, f, S
<1> QED
  BY <1>1, <1>2, <1>3, <1>5 DEF f

-----------------------------------------------------------------------------
(* The invariant.                                                          *)

\* The rows of the exporters: those of the table and those on their way to it.
Measured == {r \in metric_point : r.source = "otel"} \cup (UNION {flattenMetrics(body) : body \in outbox})
Counted(s) == {r \in Measured : r.session = s /\ r.field = "tokens_input"}

Units(rs) == Pile(rs, Values(rs))
Unsent(s) == Pile(Models, exporter[s].unsent)

Records == [session : Sessions, type : {"assistant", "user", "pr-link"}, at : 1..now, place : Places]
Exporters == [kind : {"off", "delta", "cumulative"}, start : 0..now,
              unsent : [Models -> Nat], running : [Models -> Nat]]
SpanRows == [session : Sessions, place : Places, first : 0..now, last : 0..now]
LinkRows == [session : Sessions, repo : {Repo(p) : p \in Places}]
Imports == [on : BOOLEAN, todo : SUBSET Records, left : SUBSET SpanRows, links : SUBSET LinkRows]

TypeInv ==
    /\ now \in Nat /\ now <= MaxTime
    /\ place \in [Sessions -> Places \cup {None}]
    /\ exporter \in [Sessions -> Exporters]
    /\ transcript \in SUBSET Records /\ IsFiniteSet(transcript)
    /\ IsFiniteSet(metric_point) /\ IsFiniteSet(Measured)
    /\ session_branch \in SUBSET SpanRows /\ IsFiniteSet(session_branch)
    /\ hooks \in SUBSET [session : Sessions, place : Places, at : 0..now]
    /\ import \in Imports

\* One record that says where a session was to a moment.
WorkInv == \A r, q \in Located(transcript) : r.at = q.at => r = q

\* A row of an exporter: two of one key are the same row, for what was measured is collected at
\* most once in a moment.
RowOK(r) ==
    /\ r.source = "otel" /\ r.session \in Sessions /\ Exports(r.session)
    /\ r.temporality = exporter[r.session].kind
    /\ r.field = canonicalField(r.metric)
    /\ r.value \in Nat /\ r.time \in 0..now
    /\ exporter[r.session].unsent # Zero => r.time < now

MeasuredInv ==
    /\ \A s \in Sessions : exporter[s].unsent # Zero => Exports(s)
    /\ \A r \in Measured : RowOK(r)
    /\ \A r, q \in Measured : DedupKey(r) = DedupKey(q) => r = q
    /\ \A r \in metric_point : r.source \in {"otel", "transcript"}

\* Of a session that exports increments, the rows and what is yet to be collected are its work.
DeltaInv ==
    \A s \in Sessions : Increments(s) =>
        Cardinality(Units(Counted(s))) + Cardinality(Unsent(s)) = Cardinality(Done(s))

\* A running total counts work done since the start_time, and no more than there was by the time of the
\* row; no two start_times overlap.
Within(s, n, a, b) ==
    \E U \in SUBSET Done(s) : n = Cardinality(U) /\ \A u \in U : a < u.at /\ u.at <= b

EpochInv ==
    \A s \in Sessions : exporter[s].kind = "cumulative" =>
        /\ \A m \in Models : Within(s, exporter[s].running[m], exporter[s].start, now)
        /\ \A r \in Counted(s) :
               /\ r.start \in Nat /\ Within(s, r.value, r.start, r.time)
               /\ r.start <= exporter[s].start
               /\ r.start < exporter[s].start => r.time <= exporter[s].start
        /\ \A r, q \in Counted(s) : r.start < q.start => r.time <= q.start

\* The rows of the backfill are those of each session's work up to some moment, and what it has still
\* to write of a session comes after what is written.
ImportedUpTo(s, t) ==
    {r \in metric_point : r.source = "transcript" /\ r.session = s} =
        {Imported(x) : x \in {y \in Done(s) : y.at <= t}}

ImportInv ==
    /\ \A s \in Sessions : \E t \in 0..now : ImportedUpTo(s, t)
    /\ \A r \in metric_point : r.source = "transcript" => r.session \in Sessions
    /\ import.todo \in SUBSET Worked(transcript)
    /\ \A y \in import.todo, x \in Worked(transcript) :
           x.session = y.session /\ x.at < y.at => x \in import.todo \/ Imported(x) \in metric_point

\* Session s was at place p at the moment t: no record of its own came between.
Seen(s) == {r \in Located(transcript) : r.session = s}
HeldAt(s, p, t) ==
    \E w \in Seen(s) : w.place = p /\ w.at <= t /\ \A v \in Seen(s) : v.at <= t => v.at <= w.at

\* What a span says of its first moment is so, and there is one row to a session and place.
BranchInv ==
    /\ \A r \in session_branch : HeldAt(r.session, r.place, r.first)
    /\ \A r, q \in session_branch : r.session = q.session /\ r.place = q.place => r = q
    /\ \A h \in hooks : HeldAt(h.session, h.place, h.at)
    /\ \A p \in import.left : HeldAt(p.session, p.place, p.first)
    /\ \A s \in Sessions : place[s] # None => HeldAt(s, place[s], now)

IInv ==
    /\ TypeInv /\ WorkInv /\ MeasuredInv /\ DeltaInv /\ EpochInv /\ ImportInv /\ BranchInv

-----------------------------------------------------------------------------
(* The invariant holds at first.                                           *)

LEMMA NoUnits == Cardinality({}) = 0 /\ Units({}) = {} /\ Pile(Models, Zero) = {}
<1>1. Units({}) = {}
  BY DEF Units, Pile
<1>2. Pile(Models, Zero) = {}
  BY DEF Pile, Zero
<1> QED
  BY <1>1, <1>2, FS_EmptySet

LEMMA InitInv == Init => IInv
<1> SUFFICES ASSUME Init PROVE IInv
  OBVIOUS
<1>1. Measured = {} /\ metric_point = {} /\ \A s : Done(s) = {} /\ Counted(s) = {}
  BY DEF Init, Measured, Counted, Done, Worked
<1>2. IsFiniteSet({})
  BY FS_EmptySet
<1>3. TypeInv
  <2>1. Zero \in [Models -> Nat]
    BY DEF Zero
  <2>2. exporter \in [Sessions -> Exporters]
    BY <2>1 DEF Init, Exporters
  <2> QED
    BY <1>1, <1>2, <2>2, TelemetryAssumption DEF TypeInv, Init, Idle, Imports
<1>4. WorkInv /\ MeasuredInv /\ BranchInv
  BY <1>1 DEF Init, WorkInv, Located, MeasuredInv, BranchInv, Idle, Exports
<1>5. ASSUME NEW s \in Sessions
      PROVE  Cardinality(Units(Counted(s))) + Cardinality(Unsent(s)) = Cardinality(Done(s))
  <2>1. exporter[s].unsent = Zero
    BY DEF Init
  <2>2. Unsent(s) = {}
    BY <2>1, NoUnits DEF Unsent
  <2>3. Units(Counted(s)) = {} /\ Done(s) = {}
    BY <1>1, NoUnits
  <2>4. Cardinality({}) = 0
    BY NoUnits
  <2> QED
    BY <2>2, <2>3, <2>4
<1>6. DeltaInv
  BY <1>5 DEF DeltaInv
<1>7. EpochInv
  <2>1. ASSUME NEW s \in Sessions, NEW m \in Models
        PROVE  Within(s, exporter[s].running[m], exporter[s].start, now)
    <3>1. exporter[s].running[m] = 0
      BY DEF Init, Zero
    <3>2. Cardinality({}) = 0 /\ {} \in SUBSET Done(s)
      BY NoUnits
    <3> QED
      BY <3>1, <3>2 DEF Within
  <2> QED
    BY <1>1, <2>1 DEF EpochInv
<1>8. ImportInv
  <2>1. \A s : ImportedUpTo(s, 0)
    BY <1>1 DEF ImportedUpTo
  <2>2. import.todo = {}
    BY DEF Init, Idle
  <2> QED
    BY <1>1, <1>3, <2>1, <2>2 DEF ImportInv, TypeInv
<1> QED
  BY <1>3, <1>4, <1>6, <1>7, <1>8 DEF IInv

-----------------------------------------------------------------------------
(* A tick of work.                                                         *)

Unit(s, p, t) == [session |-> s, type |-> "assistant", at |-> t, place |-> p]

LEMMA WorkAdds ==
  ASSUME IInv, NEW s \in Sessions, NEW p \in Places, NEW m \in Models, Work(s, p, m)
  PROVE  LET w == Unit(s, p, now') IN
         /\ now \in Nat /\ now' = now + 1
         /\ Worked(transcript)' = Worked(transcript) \cup {w}
         /\ Done(s)' = Done(s) \cup {w}
         /\ \A x : x # s => Done(x)' = Done(x)
         /\ \A x, v : v \in Done(x) => v \in Records /\ v.at \in Nat /\ v.at <= now
         /\ w \notin Worked(transcript) /\ \A x : w \notin Done(x)
         /\ Located(transcript)' = Located(transcript) \cup {w}
         /\ transcript' \in SUBSET Records' /\ IsFiniteSet(transcript')
<1> DEFINE w == Unit(s, p, now')
           link == [session |-> s, type |-> "pr-link", at |-> now', place |-> p]
           types == {"assistant"} \cup IF now' \in OpensAt THEN {"pr-link"} ELSE {}
           new == {[session |-> s, type |-> type, at |-> now', place |-> p] : type \in types}
<1>1. now \in Nat /\ now' = now + 1 /\ transcript' = transcript \cup new
  BY DEF IInv, TypeInv, Work
<1>2. new = {w} \/ new = {w, link}
  BY DEF Unit
<1>3. w.type = "assistant" /\ link.type = "pr-link" /\ w.session = s /\ w.at = now + 1
  BY <1>1 DEF Unit
<1>4. \A r \in transcript : r \in Records /\ r.at \in Nat /\ r.at <= now
  BY <1>1 DEF IInv, TypeInv, Records
<1>5. /\ Worked(transcript)' = Worked(transcript) \cup {w}
      /\ Located(transcript)' = Located(transcript) \cup {w}
  <2> HIDE DEF new, w, link
  <2> QED
    BY <1>1, <1>2, <1>3 DEF Worked, Located
<1>6. Done(s)' = Done(s) \cup {w} /\ \A x : x # s => Done(x)' = Done(x)
  <2> HIDE DEF new, w, link
  <2> QED
    BY <1>3, <1>5 DEF Done
<1>7. \A x, v : v \in Done(x) => v \in Records /\ v.at \in Nat /\ v.at <= now
  BY <1>4 DEF Done, Worked
<1>8. w \notin transcript
  <2> HIDE DEF w
  <2> QED
    BY <1>1, <1>3, <1>4
<1>9. w \notin Worked(transcript) /\ \A x : w \notin Done(x)
  BY <1>8 DEF Done, Worked
<1>10. transcript' \in SUBSET Records'
  <2>1. w \in Records' /\ link \in Records'
    BY <1>1 DEF Records, Unit
  <2>2. \A r \in Records : r \in Records'
    BY <1>1 DEF Records
  <2> HIDE DEF new, w, link
  <2> QED
    BY <1>1, <1>2, <1>4, <2>1, <2>2
<1>11. IsFiniteSet(transcript')
  <2>1. IsFiniteSet(transcript)
    BY DEF IInv, TypeInv
  <2>2. IsFiniteSet(transcript \cup {w})
    <3> HIDE DEF w
    <3> QED
      BY <2>1, FS_AddElement
  <2>3. IsFiniteSet((transcript \cup {w}) \cup {link})
    <3> HIDE DEF w, link
    <3> QED
      BY <2>2, FS_AddElement
  <2>4. transcript' = transcript \cup {w} \/ transcript' = (transcript \cup {w}) \cup {link}
    <3> HIDE DEF new, w, link
    <3> QED
      BY <1>1, <1>2
  <2> HIDE DEF new, w, link
  <2> QED
    BY <2>2, <2>3, <2>4
<1> HIDE DEF new, w, link
<1> QED
  BY <1>1, <1>5, <1>6, <1>7, <1>9, <1>10, <1>11 DEF w

LEMMA WorkMeasures ==
  ASSUME IInv, NEW s \in Sessions, NEW p \in Places, NEW m \in Models, Work(s, p, m)
  PROVE  /\ exporter' \in [Sessions -> Exporters']
         /\ \A x \in Sessions : x # s => exporter'[x] = exporter[x]
         /\ exporter'[s].kind = exporter[s].kind /\ exporter'[s].start = exporter[s].start
         /\ exporter'[s].unsent =
                IF Exports(s) THEN [exporter[s].unsent EXCEPT ![m] = @ + 1] ELSE exporter[s].unsent
         /\ exporter'[s].running =
                IF exporter[s].kind = "cumulative"
                THEN [exporter[s].running EXCEPT ![m] = @ + 1] ELSE exporter[s].running
<1>1. now \in Nat /\ now' = now + 1
  BY DEF IInv, TypeInv, Work
<1>2. exporter \in [Sessions -> Exporters]
  BY DEF IInv, TypeInv
<1>3. \A x \in Sessions : exporter[x] \in Exporters /\ exporter[x] \in Exporters'
  BY <1>1, <1>2 DEF Exporters
<1> DEFINE e == exporter[s]
           un == [e.unsent EXCEPT ![m] = IF Exports(s) THEN @ + 1 ELSE @]
           ru == [e.running EXCEPT ![m] = IF Exports(s) /\ ~Increments(s) THEN @ + 1 ELSE @]
<1>4. exporter' = [exporter EXCEPT ![s] = [e EXCEPT !.unsent = un, !.running = ru]]
  BY <1>2, <1>3 DEF Work, Exporters
<1>5. e.unsent \in [Models -> Nat] /\ e.running \in [Models -> Nat] /\ e.kind \in {"off", "delta", "cumulative"}
  BY <1>3 DEF Exporters
<1>6. un \in [Models -> Nat] /\ ru \in [Models -> Nat]
  BY <1>5
<1>7. /\ un = IF Exports(s) THEN [e.unsent EXCEPT ![m] = @ + 1] ELSE e.unsent
      /\ ru = IF e.kind = "cumulative" THEN [e.running EXCEPT ![m] = @ + 1] ELSE e.running
  BY <1>5 DEF Exports, Increments
<1> HIDE DEF un, ru
<1>8. [e EXCEPT !.unsent = un, !.running = ru] \in Exporters'
  BY <1>3, <1>6 DEF Exporters
<1>9. /\ exporter'[s] = [e EXCEPT !.unsent = un, !.running = ru]
      /\ \A x \in Sessions : x # s => exporter'[x] = exporter[x]
      /\ exporter' \in [Sessions -> Exporters']
  BY <1>2, <1>3, <1>4, <1>8
<1>10. exporter'[s].unsent = un /\ exporter'[s].running = ru /\ exporter'[s].kind = e.kind /\ exporter'[s].start = e.start
  BY <1>3, <1>9 DEF Exporters
<1> QED
  BY <1>7, <1>9, <1>10

\* One more for one of them.
LEMMA PileGrows ==
  ASSUME NEW S, IsFiniteSet(S), NEW f \in [S -> Nat], NEW m \in S
  PROVE  Cardinality(Pile(S, [f EXCEPT ![m] = @ + 1])) = Cardinality(Pile(S, f)) + 1
<1> DEFINE g == [f EXCEPT ![m] = @ + 1]
           u == <<m, f[m] + 1>>
<1>1. Pile(S, g) = Pile(S, f) \cup {u} /\ u \notin Pile(S, f)
  BY DEF Pile
<1>2. IsFiniteSet(Pile(S, f)) /\ Cardinality(Pile(S, f)) \in Nat
  BY PileIsSum
<1> HIDE DEF g, u
<1>3. Cardinality(Pile(S, f) \cup {u}) = Cardinality(Pile(S, f)) + 1
  BY <1>1, <1>2, FS_AddElement
<1> QED
  BY <1>1, <1>3 DEF g

LEMMA DoneFinite ==
  ASSUME TypeInv
  PROVE  /\ IsFiniteSet(Worked(transcript))
         /\ \A s : /\ IsFiniteSet(Done(s)) /\ Cardinality(Done(s)) \in Nat
                   /\ \A U \in SUBSET Done(s) : IsFiniteSet(U) /\ Cardinality(U) \in Nat
<1>1. \A s : Done(s) \in SUBSET transcript
  BY DEF Done, Worked
<1>2. Worked(transcript) \in SUBSET transcript
  BY DEF Worked
<1>3. \A T \in SUBSET transcript : IsFiniteSet(T) /\ Cardinality(T) \in Nat
  BY FS_Subset, FS_CardinalityType DEF TypeInv
<1> QED
  BY <1>1, <1>2, <1>3

LEMMA CountedFinite ==
  ASSUME TypeInv, MeasuredInv, NEW rs \in SUBSET Measured
  PROVE  /\ IsFiniteSet(rs) /\ Values(rs) \in [rs -> Nat]
         /\ IsFiniteSet(Units(rs)) /\ Cardinality(Units(rs)) \in Nat
<1>1. IsFiniteSet(rs)
  BY FS_Subset DEF TypeInv
<1>2. Values(rs) \in [rs -> Nat]
  BY DEF MeasuredInv, RowOK, Values
<1> QED
  BY <1>1, <1>2, PileIsSum DEF Units

\* What holds of a set of work holds of a larger, and of later bounds.
LEMMA WithinGrows ==
  ASSUME NEW s, NEW n, NEW a, NEW b \in Nat, NEW c \in Nat, b <= c, Within(s, n, a, b),
         Done(s) \in SUBSET Done(s)', \A u \in Done(s) : u.at \in Nat
  PROVE  \E U \in SUBSET Done(s)' : n = Cardinality(U) /\ \A u \in U : a < u.at /\ u.at <= c
<1>1. PICK U \in SUBSET Done(s) : n = Cardinality(U) /\ \A u \in U : a < u.at /\ u.at <= b
  BY DEF Within
<1>2. \A u \in U : a < u.at /\ u.at <= c
  BY <1>1
<1> QED
  BY <1>1, <1>2

\* Where the sessions were before does not change, and one of them is at a place now.
LEMMA TickKeeps ==
  ASSUME IInv, NEW s \in Sessions, NEW p \in Places, NEW w, now' = now + 1,
         w.at = now + 1, w.session = s, w.place = p,
         Located(transcript)' = Located(transcript) \cup {w}, place' = [place EXCEPT ![s] = p],
         UNCHANGED <<hooks, session_branch, import>>
  PROVE  WorkInv' /\ BranchInv'
<1>1. /\ TypeInv /\ WorkInv /\ BranchInv /\ now \in Nat
      /\ \A v \in Located(transcript) : v.at \in Nat /\ v.at <= now
  BY DEF IInv, TypeInv, Located, Records
<1>2. /\ Seen(s)' = Seen(s) \cup {w} /\ \A x : x # s => Seen(x)' = Seen(x)
      /\ \A x : \A v \in Seen(x) : v.at \in Nat /\ v.at <= now
  BY <1>1 DEF Seen
<1>3. WorkInv'
  BY <1>1 DEF WorkInv
<1>4. BranchInv'
  <2>1. ASSUME NEW x, NEW o, NEW t \in 0..now, HeldAt(x, o, t)
        PROVE  HeldAt(x, o, t)'
    <3>1. PICK v \in Seen(x) : v.place = o /\ v.at <= t /\ \A u \in Seen(x) : u.at <= t => u.at <= v.at
      BY <2>1 DEF HeldAt
    <3>2. \A u \in Seen(x)' : u.at <= t => u.at <= v.at
      BY <1>1, <1>2, <3>1
    <3>3. v \in Seen(x)'
      BY <1>2
    <3> QED
      BY <3>1, <3>2, <3>3 DEF HeldAt
  <2>2. ASSUME NEW x \in Sessions, place'[x] # None
        PROVE  HeldAt(x, place[x], now)'
    <3>1. CASE x = s
      <4>1. place'[x] = p /\ w \in Seen(x)' /\ \A u \in Seen(x)' : u.at <= w.at
        BY <1>1, <1>2, <3>1 DEF TypeInv
      <4> QED
        BY <1>1, <1>2, <4>1 DEF HeldAt
    <3>2. CASE x # s
      <4>1. place'[x] = place[x]
        BY <1>1, <3>2 DEF TypeInv
      <4>2. HeldAt(x, place[x], now)
        BY <1>1, <2>2, <4>1 DEF BranchInv
      <4>3. PICK v \in Seen(x) : v.place = place[x] /\ v.at <= now /\ \A u \in Seen(x) : u.at <= now => u.at <= v.at
        BY <4>2 DEF HeldAt
      <4>4. \A u \in Seen(x) : u.at <= v.at /\ v.at <= now'
        BY <1>1, <1>2, <4>3
      <4> QED
        BY <1>1, <1>2, <3>2, <4>1, <4>3, <4>4 DEF HeldAt
    <3> QED
      BY <3>1, <3>2
  <2>3. \A r \in session_branch : r.first \in 0..now /\ HeldAt(r.session, r.place, r.first)
    BY <1>1 DEF BranchInv, TypeInv, SpanRows
  <2>4. \A h \in hooks : h.at \in 0..now /\ HeldAt(h.session, h.place, h.at)
    BY <1>1 DEF BranchInv, TypeInv
  <2>5. \A q \in import.left : q.first \in 0..now /\ HeldAt(q.session, q.place, q.first)
    BY <1>1 DEF BranchInv, TypeInv, Imports, SpanRows
  <2>6. \A r \in session_branch : HeldAt(r.session, r.place, r.first)'
    BY <2>1, <2>3
  <2>7. \A h \in hooks : HeldAt(h.session, h.place, h.at)'
    BY <2>1, <2>4
  <2>8. \A q \in import.left : HeldAt(q.session, q.place, q.first)'
    BY <2>1, <2>5
  <2> QED
    BY <1>1, <2>2, <2>6, <2>7, <2>8 DEF BranchInv
<1> QED
  BY <1>3, <1>4

LEMMA WorkKeeps ==
  ASSUME IInv, NEW s \in Sessions, NEW p \in Places, NEW m \in Models, Work(s, p, m)
  PROVE  IInv'
<1> DEFINE w == Unit(s, p, now')
<1>1. /\ now \in Nat /\ now' = now + 1
      /\ Worked(transcript)' = Worked(transcript) \cup {w}
      /\ Done(s)' = Done(s) \cup {w}
      /\ \A x : x # s => Done(x)' = Done(x)
      /\ \A x, v : v \in Done(x) => v \in Records /\ v.at \in Nat /\ v.at <= now
      /\ w \notin Worked(transcript) /\ \A x : w \notin Done(x)
      /\ Located(transcript)' = Located(transcript) \cup {w}
      /\ transcript' \in SUBSET Records' /\ IsFiniteSet(transcript')
  BY WorkAdds
<1>2. w.at = now + 1 /\ w.session = s /\ w.place = p /\ w.type = "assistant"
  BY <1>1 DEF Unit
<1> HIDE DEF w
<1>3. /\ exporter' \in [Sessions -> Exporters']
      /\ \A x \in Sessions : x # s => exporter'[x] = exporter[x]
      /\ exporter'[s].kind = exporter[s].kind /\ exporter'[s].start = exporter[s].start
      /\ exporter'[s].unsent =
             IF Exports(s) THEN [exporter[s].unsent EXCEPT ![m] = @ + 1] ELSE exporter[s].unsent
      /\ exporter'[s].running =
             IF exporter[s].kind = "cumulative"
             THEN [exporter[s].running EXCEPT ![m] = @ + 1] ELSE exporter[s].running
  BY WorkMeasures
<1>4. /\ UNCHANGED <<outbox, hooks, metric_point, session_branch, session_pr, import>>
      /\ place' = [place EXCEPT ![s] = p]
  BY DEF Work, tableVars
<1>5. Measured' = Measured /\ \A x : Counted(x)' = Counted(x)
  BY <1>4 DEF Measured, Counted
<1>6. /\ TypeInv /\ WorkInv /\ MeasuredInv /\ DeltaInv /\ EpochInv /\ ImportInv /\ BranchInv
      /\ \A x \in Sessions : exporter[x] \in Exporters
  BY DEF IInv, TypeInv
<1>7. TypeInv'
  <2>1. place' \in [Sessions -> Places \cup {None}]
    BY <1>4, <1>6 DEF TypeInv
  <2>2. \A r \in SpanRows : r \in SpanRows'
    BY <1>1 DEF SpanRows
  <2>3. hooks' \in SUBSET [session : Sessions, place : Places, at : 0..now']
    BY <1>1, <1>4, <1>6 DEF TypeInv
  <2>4. import' \in Imports'
    <3>1. \A r \in Records : r \in Records'
      BY <1>1 DEF Records
    <3> QED
      BY <1>4, <1>6, <2>2, <3>1 DEF TypeInv, Imports, LinkRows
  <2>5. now' <= MaxTime
    BY <1>1, TelemetryAssumption DEF Work
  <2> QED
    BY <1>1, <1>3, <1>4, <1>5, <1>6, <2>1, <2>2, <2>3, <2>4, <2>5 DEF TypeInv
<1>8. WorkInv' /\ BranchInv'
  BY <1>1, <1>2, <1>4, TickKeeps
<1>9. MeasuredInv'
  <2>1. \A x \in Sessions : exporter'[x].kind = exporter[x].kind
    BY <1>3
  <2>2. ASSUME NEW r \in Measured PROVE RowOK(r)'
    <3>1. RowOK(r)
      BY <1>6 DEF MeasuredInv
    <3>2. r.session \in Sessions /\ r.time \in Nat /\ r.time <= now
      BY <1>1, <3>1 DEF RowOK
    <3>3. r.time < now' /\ r.time \in 0..now'
      BY <1>1, <3>2
    <3> QED
      BY <2>1, <3>1, <3>2, <3>3 DEF RowOK, Exports
  <2>3. \A x \in Sessions : exporter'[x].unsent # Zero => Exports(x)'
    BY <1>3, <1>6 DEF MeasuredInv, Exports
  <2> QED
    BY <1>4, <1>5, <1>6, <2>2, <2>3 DEF MeasuredInv, Zero
<1>10. DeltaInv'
  <2>1. ASSUME NEW x \in Sessions, Increments(x)'
        PROVE  Cardinality(Units(Counted(x)')) + Cardinality(Unsent(x)') = Cardinality(Done(x)')
    <3>1. Increments(x)
      BY <1>3, <2>1 DEF Increments
    <3>2. Cardinality(Units(Counted(x))) + Cardinality(Unsent(x)) = Cardinality(Done(x))
      BY <1>6, <3>1 DEF DeltaInv
    <3>3. CASE x # s
      <4>1. Unsent(x)' = Unsent(x) /\ Done(x)' = Done(x)
        BY <1>1, <1>3, <3>3 DEF Unsent
      <4> QED
        BY <1>5, <3>2, <4>1
    <3>4. CASE x = s
      <4>1. exporter[s].unsent \in [Models -> Nat]
        BY <1>6 DEF Exporters
      <4>2. Unsent(s)' = Pile(Models, [exporter[s].unsent EXCEPT ![m] = @ + 1])
        BY <1>3, <3>1, <3>4 DEF Unsent, Exports, Increments
      <4>3. Cardinality(Unsent(s)') = Cardinality(Unsent(s)) + 1
        BY <4>1, <4>2, PileGrows, TelemetryAssumption DEF Unsent
      <4>4. Cardinality(Done(s)') = Cardinality(Done(s)) + 1
        BY <1>1, <1>6, DoneFinite, FS_AddElement
      <4>5. /\ Cardinality(Unsent(s)) \in Nat /\ Cardinality(Done(s)) \in Nat
            /\ Cardinality(Units(Counted(s))) \in Nat
        <5>1. Counted(s) \in SUBSET Measured
          BY DEF Counted
        <5> QED
          BY <1>6, <4>1, <5>1, PileIsSum, DoneFinite, CountedFinite, TelemetryAssumption DEF Unsent
      <4> QED
        BY <1>5, <3>2, <3>4, <4>3, <4>4, <4>5
    <3> QED
      BY <3>3, <3>4
  <2> QED
    BY <2>1 DEF DeltaInv, Units
<1>11. EpochInv'
  <2>1. ASSUME NEW x \in Sessions, exporter'[x].kind = "cumulative"
        PROVE  /\ \A o \in Models : Within(x, exporter[x].running[o], exporter[x].start, now)'
               /\ \A r \in Counted(x) :
                      /\ r.start \in Nat /\ Within(x, r.value, r.start, r.time)'
                      /\ r.start <= exporter'[x].start
                      /\ r.start < exporter'[x].start => r.time <= exporter'[x].start
               /\ \A r, q \in Counted(x) : r.start < q.start => r.time <= q.start
    <3>1. /\ exporter[x].kind = "cumulative" /\ exporter'[x].start = exporter[x].start
          /\ exporter[x].start \in Nat /\ exporter[x].start <= now
          /\ exporter[x].running \in [Models -> Nat]
      BY <1>1, <1>3, <1>6, <2>1 DEF Exporters
    <3>2. /\ \A o \in Models : Within(x, exporter[x].running[o], exporter[x].start, now)
          /\ \A r \in Counted(x) :
                 /\ r.start \in Nat /\ Within(x, r.value, r.start, r.time)
                 /\ r.start <= exporter[x].start
                 /\ r.start < exporter[x].start => r.time <= exporter[x].start
          /\ \A r, q \in Counted(x) : r.start < q.start => r.time <= q.start
      BY <1>6, <3>1 DEF EpochInv
    <3>3. Done(x) \in SUBSET Done(x)' /\ \A u \in Done(x) : u.at \in Nat
      BY <1>1
    <3>4. ASSUME NEW r \in Counted(x) PROVE Within(x, r.value, r.start, r.time)'
      <4>1. r.time \in Nat
        BY <1>6 DEF MeasuredInv, RowOK, Counted
      <4>2. \E U \in SUBSET Done(x)' : r.value = Cardinality(U) /\ \A u \in U : r.start < u.at /\ u.at <= r.time
        BY <3>2, <3>3, <4>1, WithinGrows
      <4> QED
        BY <4>2 DEF Within
    <3>5. ASSUME NEW o \in Models PROVE Within(x, exporter[x].running[o], exporter[x].start, now)'
      <4>1. CASE x = s /\ o = m
        <5>1. exporter'[x].running[o] = exporter[x].running[o] + 1
          BY <1>3, <3>1, <4>1
        <5>2. PICK U \in SUBSET Done(x) :
                  /\ exporter[x].running[o] = Cardinality(U)
                  /\ \A u \in U : exporter[x].start < u.at /\ u.at <= now
          BY <3>2 DEF Within
        <5>3. IsFiniteSet(U) /\ w \notin U
          BY <1>1, <1>6, DoneFinite
        <5>4. Cardinality(U \cup {w}) = Cardinality(U) + 1
          BY <5>3, FS_AddElement
        <5>5. U \cup {w} \in SUBSET Done(x)'
          BY <1>1, <4>1
        <5>6. \A u \in U \cup {w} : exporter[x].start < u.at /\ u.at <= now'
          BY <1>1, <1>2, <3>1, <3>3, <5>2
        <5>7. exporter'[x].running[o] = Cardinality(U \cup {w})
          BY <5>1, <5>2, <5>4
        <5> QED
          BY <3>1, <5>5, <5>6, <5>7 DEF Within
      <4>2. CASE ~ (x = s /\ o = m)
        <5>1. exporter'[x].running[o] = exporter[x].running[o]
          BY <1>3, <3>1, <4>2
        <5>2. now' \in Nat /\ now <= now'
          BY <1>1
        <5>3. \E U \in SUBSET Done(x)' :
                  /\ exporter[x].running[o] = Cardinality(U)
                  /\ \A u \in U : exporter[x].start < u.at /\ u.at <= now'
          BY <1>1, <3>2, <3>3, <5>2, WithinGrows
        <5> QED
          BY <3>1, <5>1, <5>3 DEF Within
      <4> QED
        BY <4>1, <4>2
    <3> QED
      BY <3>1, <3>2, <3>4, <3>5
  <2> QED
    BY <1>5, <2>1 DEF EpochInv
<1>12. ImportInv'
  <2>1. ASSUME NEW x \in Sessions
        PROVE  \E t \in 0..now' : ImportedUpTo(x, t)'
    <3>1. PICK t \in 0..now : ImportedUpTo(x, t)
      BY <1>6 DEF ImportInv
    <3>2. {y \in Done(x)' : y.at <= t} = {y \in Done(x) : y.at <= t}
      BY <1>1, <1>2
    <3>3. ImportedUpTo(x, t)'
      BY <1>4, <3>1, <3>2 DEF ImportedUpTo, Imported
    <3> QED
      BY <1>1, <3>3
  <2>2. \A y \in import.todo : y.at \in Nat /\ y.at <= now
    BY <1>6 DEF ImportInv, TypeInv, Worked, Records
  <2> QED
    BY <1>1, <1>2, <1>4, <1>6, <2>1, <2>2 DEF ImportInv, Imported
<1> QED
  BY <1>7, <1>8, <1>9, <1>10, <1>11, <1>12 DEF IInv

\* A tick without work.
LEMMA AskKeeps ==
  ASSUME IInv, NEW s \in Sessions, NEW p \in Places, Ask(s, p)
  PROVE  IInv'
<1> DEFINE w == [session |-> s, type |-> "user", at |-> now', place |-> p]
<1>1. /\ TypeInv /\ WorkInv /\ MeasuredInv /\ DeltaInv /\ EpochInv /\ ImportInv /\ BranchInv
      /\ now \in Nat /\ now' = now + 1 /\ now' <= MaxTime
      /\ transcript' = transcript \cup {w} /\ place' = [place EXCEPT ![s] = p]
      /\ UNCHANGED <<exporter, outbox, hooks, metric_point, session_branch, session_pr, import>>
  BY TelemetryAssumption DEF IInv, TypeInv, Ask, tableVars
<1>2. w.type = "user" /\ w.session = s /\ w.at = now + 1 /\ w.place = p /\ w \in Records'
  BY <1>1 DEF Records
<1> HIDE DEF w
<1>3. /\ Worked(transcript)' = Worked(transcript) /\ \A x : Done(x)' = Done(x)
      /\ Located(transcript)' = Located(transcript) \cup {w}
  BY <1>1, <1>2 DEF Worked, Located, Done
<1>4. Measured' = Measured /\ \A x : Counted(x)' = Counted(x)
  BY <1>1 DEF Measured, Counted, flattenMetrics
<1>5. WorkInv' /\ BranchInv'
  BY <1>1, <1>2, <1>3, TickKeeps
<1>6. TypeInv'
  <2>1. /\ \A r \in Records : r \in Records'
        /\ \A r \in SpanRows : r \in SpanRows'
        /\ \A x \in Exporters : x \in Exporters'
    BY <1>1 DEF Records, SpanRows, Exporters
  <2>2. place' \in [Sessions -> Places \cup {None}]
    BY <1>1 DEF TypeInv
  <2>3. transcript' \in SUBSET Records' /\ IsFiniteSet(transcript')
    BY <1>1, <1>2, <2>1, FS_AddElement DEF TypeInv
  <2>4. hooks' \in SUBSET [session : Sessions, place : Places, at : 0..now']
    BY <1>1 DEF TypeInv
  <2>5. import' \in Imports'
    BY <1>1, <2>1 DEF TypeInv, Imports, LinkRows
  <2>6. exporter' \in [Sessions -> Exporters']
    BY <1>1, <2>1 DEF TypeInv
  <2> QED
    BY <1>1, <1>4, <2>1, <2>2, <2>3, <2>4, <2>5, <2>6 DEF TypeInv
<1>7. MeasuredInv'
  <2>1. ASSUME NEW r \in Measured PROVE RowOK(r)'
    <3>1. RowOK(r)
      BY <1>1 DEF MeasuredInv
    <3>2. r.time \in 0..now' /\ r.time < now'
      BY <1>1, <3>1 DEF RowOK
    <3> QED
      BY <1>1, <3>1, <3>2 DEF RowOK, Exports, Zero
  <2> QED
    BY <1>1, <1>4, <2>1 DEF MeasuredInv, Exports, Zero
<1>8. DeltaInv'
  BY <1>1, <1>3, <1>4 DEF DeltaInv, Increments, Unsent, Units
<1>9. EpochInv'
  <2>1. \A x, n, a, b : Within(x, n, a, b)' <=> Within(x, n, a, b)
    BY <1>3 DEF Within
  <2>2. \A x, n, a : Within(x, n, a, now) => Within(x, n, a, now')
    <3>1. \A x : \A u \in Done(x) : u.at \in Nat
      BY <1>1 DEF TypeInv, Done, Worked, Records
    <3> QED
      BY <1>1, <3>1 DEF Within
  <2> QED
    BY <1>1, <1>4, <2>1, <2>2 DEF EpochInv
<1>10. ImportInv'
  <2>1. \A x, t : ImportedUpTo(x, t)' <=> ImportedUpTo(x, t)
    BY <1>1, <1>3 DEF ImportedUpTo, Imported
  <2>2. \A t \in 0..now : t \in 0..now'
    BY <1>1
  <2> QED
    BY <1>1, <1>3, <2>1, <2>2 DEF ImportInv, Imported
<1> QED
  BY <1>5, <1>6, <1>7, <1>8, <1>9, <1>10 DEF IInv

-----------------------------------------------------------------------------
(* A restart of an exporter.                                               *)

LEMMA RestartKeeps ==
  ASSUME IInv, NEW s \in Sessions, Restart(s)
  PROVE  IInv'
<1>1. /\ TypeInv /\ WorkInv /\ MeasuredInv /\ DeltaInv /\ EpochInv /\ ImportInv /\ BranchInv
      /\ \A x \in Sessions : exporter[x] \in Exporters
      /\ now \in Nat /\ exporter \in [Sessions -> Exporters]
  BY DEF IInv, TypeInv
<1>2. /\ UNCHANGED <<now, place, transcript, outbox, hooks, metric_point, session_branch, session_pr, import>>
      /\ exporter' = [exporter EXCEPT ![s] = [exporter[s] EXCEPT !.start = now, !.running = Zero]]
  BY <1>1 DEF Restart, tableVars, Exporters
<1>3. /\ exporter' \in [Sessions -> Exporters]
      /\ \A x \in Sessions : /\ exporter'[x].kind = exporter[x].kind
                             /\ exporter'[x].unsent = exporter[x].unsent
                             /\ x # s => exporter'[x] = exporter[x]
      /\ exporter'[s].start = now /\ exporter'[s].running = Zero
  <2>1. Zero \in [Models -> Nat]
    BY DEF Zero
  <2>2. [exporter[s] EXCEPT !.start = now, !.running = Zero] \in Exporters
    <3>1. \A e \in Exporters, z \in [Models -> Nat] : [e EXCEPT !.start = now, !.running = z] \in Exporters
      <4> DEFINE N == 0..now
      <4>1. now \in N
        BY <1>1
      <4> HIDE DEF N
      <4> QED
        BY ONLY <4>1 DEF Exporters, N
    <3> QED
      BY <1>1, <2>1, <3>1
  <2>3. /\ [exporter[s] EXCEPT !.start = now, !.running = Zero].kind = exporter[s].kind
        /\ [exporter[s] EXCEPT !.start = now, !.running = Zero].unsent = exporter[s].unsent
        /\ [exporter[s] EXCEPT !.start = now, !.running = Zero].start = now
        /\ [exporter[s] EXCEPT !.start = now, !.running = Zero].running = Zero
    BY <1>1 DEF Exporters
  <2> QED
    BY <1>1, <1>2, <2>2, <2>3
<1>4. Measured' = Measured /\ \A x : Counted(x)' = Counted(x) /\ Done(x)' = Done(x)
  BY <1>2 DEF Measured, Counted, Done, Worked
<1>5. TypeInv'
  BY <1>1, <1>2, <1>3, <1>4 DEF TypeInv, Records, Imports, LinkRows, SpanRows, Exporters
<1>6. WorkInv' /\ ImportInv' /\ BranchInv'
  BY <1>1, <1>2, <1>4 DEF WorkInv, ImportInv, ImportedUpTo, Imported, BranchInv, HeldAt, Seen, Located, Done, Worked
<1>7. MeasuredInv'
  <2>1. \A r \in Measured : RowOK(r)'
    BY <1>1, <1>2, <1>3 DEF MeasuredInv, RowOK, Exports, Zero
  <2> QED
    BY <1>1, <1>2, <1>3, <1>4, <2>1 DEF MeasuredInv, Exports, Zero
<1>8. DeltaInv'
  BY <1>1, <1>3, <1>4 DEF DeltaInv, Increments, Unsent, Units
<1>9. EpochInv'
  <2>1. ASSUME NEW x \in Sessions, exporter'[x].kind = "cumulative"
        PROVE  /\ \A o \in Models : Within(x, exporter[x].running[o], exporter[x].start, now)'
               /\ \A r \in Counted(x) :
                      /\ r.start \in Nat /\ Within(x, r.value, r.start, r.time)'
                      /\ r.start <= exporter'[x].start
                      /\ r.start < exporter'[x].start => r.time <= exporter'[x].start
               /\ \A r, q \in Counted(x) : r.start < q.start => r.time <= q.start
    <3>1. exporter[x].kind = "cumulative" /\ exporter[x].start \in Nat /\ exporter[x].start <= now
      BY <1>1, <1>3, <2>1 DEF Exporters
    <3>2. /\ \A o \in Models : Within(x, exporter[x].running[o], exporter[x].start, now)
          /\ \A r \in Counted(x) :
                 /\ r.start \in Nat /\ Within(x, r.value, r.start, r.time)
                 /\ r.start <= exporter[x].start
                 /\ r.start < exporter[x].start => r.time <= exporter[x].start
          /\ \A r, q \in Counted(x) : r.start < q.start => r.time <= q.start
      BY <1>1, <3>1 DEF EpochInv
    <3>3. \A r \in Counted(x) : Within(x, r.value, r.start, r.time)'
      BY <1>4, <3>2 DEF Within
    <3>4. CASE x # s
      <4>1. \A o \in Models : Within(x, exporter[x].running[o], exporter[x].start, now)'
        BY <1>2, <1>3, <1>4, <3>2, <3>4 DEF Within
      <4> QED
        BY <1>3, <3>2, <3>3, <3>4, <4>1
    <3>5. CASE x = s
      <4>1. ASSUME NEW o \in Models PROVE Within(x, exporter[x].running[o], exporter[x].start, now)'
        <5>1. exporter'[x].running[o] = 0
          BY <1>3, <3>5 DEF Zero
        <5>2. Cardinality({}) = 0 /\ {} \in SUBSET Done(x)'
          BY NoUnits
        <5> QED
          BY <5>1, <5>2 DEF Within
      <4>2. \A r \in Counted(x) : r.time \in Nat /\ r.time <= now
        BY <1>1 DEF MeasuredInv, RowOK, Counted
      <4>3. exporter'[x].start = now
        BY <1>3, <3>5
      <4>4. \A r \in Counted(x) : r.start <= now
        BY <1>1, <3>1, <3>2
      <4> QED
        BY <3>2, <3>3, <4>1, <4>2, <4>3, <4>4
    <3> QED
      BY <3>4, <3>5
  <2> QED
    BY <1>4, <2>1 DEF EpochInv
<1> QED
  BY <1>5, <1>6, <1>7, <1>8, <1>9 DEF IInv

-----------------------------------------------------------------------------
(* A collection.                                                           *)

Flat(r) ==
    [metric |-> r.metric, field |-> canonicalField(r.metric), session |-> r.session, value |-> r.value,
     temporality |-> r.temporality, start |-> r.start, time |-> r.time, attrs |-> r.attrs,
     source |-> "otel"]

Counts(s) == IF Increments(s) THEN exporter[s].unsent ELSE exporter[s].running
TokenRow(s, m) == Flat(Point(s, "claude_code.token.usage", m, Counts(s)[m]))
OddRow(s) == Flat(Point(s, "claude_code.unheard_of", CHOOSE m \in Models : TRUE, 1))
Counting(s) == {m \in Models : Counts(s)[m] > 0}
NewRows(s) == {TokenRow(s, m) : m \in Counting(s)}

LEMMA RowsOf ==
  ASSUME NEW s, NEW m
  PROVE  /\ TokenRow(s, m) = [metric |-> "claude_code.token.usage", field |-> "tokens_input", session |-> s,
                value |-> Counts(s)[m], temporality |-> exporter[s].kind, start |-> exporter[s].start,
                time |-> now, attrs |-> m, source |-> "otel"]
         /\ OddRow(s).metric = "claude_code.unheard_of" /\ OddRow(s).field = None
         /\ OddRow(s).field = canonicalField(OddRow(s).metric)
         /\ OddRow(s).session = s /\ OddRow(s).value = 1 /\ OddRow(s).temporality = exporter[s].kind
         /\ OddRow(s).time = now /\ OddRow(s).source = "otel"
BY DEF TokenRow, OddRow, Flat, Point, canonicalField

LEMMA CollectAdds ==
  ASSUME NEW s \in Sessions, Collect(s)
  PROVE  Measured' = (Measured \cup {OddRow(s)}) \cup NewRows(s)
<1> DEFINE any == CHOOSE m \in Models : TRUE
           odd == {Point(s, "claude_code.unheard_of", any, 1), Point(s, "claude_code.cost.usage", any, 1),
                   [Point(s, "claude_code.latency", any, 1) EXCEPT !.kind = "histogram"]}
           own == {Point(s, "claude_code.token.usage", m, Counts(s)[m]) : m \in Counting(s)}
           body == odd \cup own
<1>1. outbox' = outbox \cup {body} /\ UNCHANGED metric_point
  BY DEF Collect, Counts, Counting, tableVars
<1>2. \A b : flattenMetrics(b) = {Flat(x) : x \in {y \in b : y.metric \notin METRIC_DENYLIST /\ y.kind = "sum"}}
  BY DEF flattenMetrics, Flat
<1>3. {y \in odd : y.metric \notin METRIC_DENYLIST /\ y.kind = "sum"} = {Point(s, "claude_code.unheard_of", any, 1)}
  <2>1. /\ Point(s, "claude_code.unheard_of", any, 1).metric \notin METRIC_DENYLIST
        /\ Point(s, "claude_code.unheard_of", any, 1).kind = "sum"
    BY DEF Point, METRIC_DENYLIST
  <2>2. Point(s, "claude_code.cost.usage", any, 1).metric \in METRIC_DENYLIST
    BY DEF Point, METRIC_DENYLIST
  <2>3. [Point(s, "claude_code.latency", any, 1) EXCEPT !.kind = "histogram"].kind # "sum"
    BY DEF Point
  <2> HIDE DEF any
  <2> QED
    BY <2>1, <2>2, <2>3
<1>4. {y \in own : y.metric \notin METRIC_DENYLIST /\ y.kind = "sum"} = own
  BY DEF Point, METRIC_DENYLIST
<1>5. {y \in body : y.metric \notin METRIC_DENYLIST /\ y.kind = "sum"} = {Point(s, "claude_code.unheard_of", any, 1)} \cup own
  <2> HIDE DEF odd, own
  <2> QED
    BY <1>3, <1>4
<1>6. flattenMetrics(body) = {OddRow(s)} \cup NewRows(s)
  <2>1. flattenMetrics(body) = {Flat(x) : x \in {Point(s, "claude_code.unheard_of", any, 1)} \cup own}
    <3> HIDE DEF body
    <3> QED
      BY <1>2, <1>5
  <2>2. {Flat(x) : x \in own} = NewRows(s)
    BY DEF NewRows, TokenRow
  <2>3. Flat(Point(s, "claude_code.unheard_of", any, 1)) = OddRow(s)
    BY DEF OddRow
  <2> HIDE DEF any, own
  <2> QED
    BY <2>1, <2>2, <2>3
<1> HIDE DEF body
<1>7. (UNION {flattenMetrics(b) : b \in outbox})' = (UNION {flattenMetrics(b) : b \in outbox}) \cup flattenMetrics(body)
  BY <1>1 DEF flattenMetrics
<1> QED
  BY <1>1, <1>6, <1>7 DEF Measured

\* The rows of a collection count what was yet to be sent.
LEMMA NewUnits ==
  ASSUME TypeInv, NEW s \in Sessions, Increments(s)
  PROVE  Cardinality(Units(NewRows(s))) = Cardinality(Unsent(s))
<1> DEFINE f == exporter[s].unsent
           b == [u \in Unsent(s) |-> <<TokenRow(s, u[1]), u[2]>>]
<1>1. Counts(s) = f /\ f \in [Models -> Nat]
  BY DEF Counts, TypeInv, Exporters
<1>2. \A m : TokenRow(s, m).value = f[m] /\ TokenRow(s, m).attrs = m
  BY <1>1, RowsOf
<1>3. ASSUME NEW u, u \in Unsent(s)
      PROVE  u = <<u[1], u[2]>> /\ u[1] \in Counting(s) /\ u[2] \in 1..f[u[1]] /\ u[2] \in Nat
  BY <1>1, <1>3 DEF Unsent, Pile, Counting
<1>4. ASSUME NEW m \in Counting(s), NEW k \in 1..f[m]
      PROVE  <<m, k>> \in Unsent(s)
  BY <1>1 DEF Unsent, Pile, Counting
<1>5. \A v : v \in Units(NewRows(s)) <=>
               \E r \in NewRows(s), k \in Nat : v = <<r, k>> /\ k \in 1..r.value
  BY DEF Units, Pile, Values
<1>6. \A u \in Unsent(s) : b[u] \in Units(NewRows(s))
  <2> TAKE u \in Unsent(s)
  <2>1. TokenRow(s, u[1]) \in NewRows(s)
    BY <1>3 DEF NewRows
  <2> QED
    BY <1>2, <1>3, <1>5, <2>1
<1>7. ASSUME NEW v \in Units(NewRows(s))
      PROVE  \E u \in Unsent(s) : b[u] = v
  <2>1. PICK r \in NewRows(s), k \in Nat : v = <<r, k>> /\ k \in 1..r.value
    BY <1>5
  <2>2. PICK m \in Counting(s) : r = TokenRow(s, m)
    BY DEF NewRows
  <2>3. <<m, k>> \in Unsent(s)
    BY <1>2, <1>4, <2>1, <2>2
  <2> QED
    BY <2>1, <2>2, <2>3
<1>8. ASSUME NEW u \in Unsent(s), NEW v \in Unsent(s), b[u] = b[v]
      PROVE  u = v
  <2>1. TokenRow(s, u[1]) = TokenRow(s, v[1]) /\ u[2] = v[2]
    BY <1>8
  <2>2. u[1] = v[1]
    BY <1>2, <2>1
  <2> QED
    BY <1>3, <2>1, <2>2
<1>9. b \in Bijection(Unsent(s), Units(NewRows(s)))
  <2>1. b \in [Unsent(s) -> Units(NewRows(s))]
    BY <1>6
  <2>2. \A x, y \in Unsent(s) : b[x] = b[y] => x = y
    BY <1>8
  <2>3. \A v \in Units(NewRows(s)) : \E u \in Unsent(s) : b[u] = v
    BY <1>7
  <2> HIDE DEF b
  <2> QED
    BY <2>1, <2>2, <2>3 DEF Bijection, Injection, Surjection, IsInjective
<1>10. IsFiniteSet(Unsent(s))
  BY <1>1, PileIsSum, TelemetryAssumption DEF Unsent
<1> HIDE DEF b
<1> QED
  BY <1>9, <1>10, FS_Bijection DEF ExistsBijection

LEMMA UnitsApart ==
  ASSUME NEW P, NEW Q, P \cap Q = {}, IsFiniteSet(Units(P)), IsFiniteSet(Units(Q))
  PROVE  /\ Units(P \cup Q) = Units(P) \cup Units(Q)
         /\ IsFiniteSet(Units(P \cup Q))
         /\ Cardinality(Units(P \cup Q)) = Cardinality(Units(P)) + Cardinality(Units(Q))
<1>1. \A R, u : u \in Units(R) <=> u \in R \X Nat /\ u[2] \in 1..u[1].value
  BY DEF Units, Pile, Values
<1>2. Units(P \cup Q) = Units(P) \cup Units(Q)
  BY <1>1
<1>3. Units(P) \cap Units(Q) = {}
  BY <1>1
<1>4. /\ IsFiniteSet(Units(P) \cup Units(Q))
      /\ Cardinality(Units(P) \cup Units(Q)) =
             Cardinality(Units(P)) + Cardinality(Units(Q)) - Cardinality(Units(P) \cap Units(Q))
  BY FS_Union
<1>5. Cardinality(Units(P) \cap Units(Q)) = 0
  BY <1>3, FS_EmptySet
<1>6. Cardinality(Units(P)) \in Nat /\ Cardinality(Units(Q)) \in Nat
  BY FS_CardinalityType
<1>7. Cardinality(Units(P) \cup Units(Q)) = Cardinality(Units(P)) + Cardinality(Units(Q))
  BY <1>4, <1>5, <1>6
<1> QED
  BY <1>2, <1>4, <1>7, Zenon

LEMMA CollectKeeps ==
  ASSUME IInv, NEW s \in Sessions, Collect(s)
  PROVE  IInv'
<1> DEFINE N == NewRows(s)
           o == OddRow(s)
           e == exporter[s]
<1>1. /\ TypeInv /\ WorkInv /\ MeasuredInv /\ DeltaInv /\ EpochInv /\ ImportInv /\ BranchInv
      /\ \A x \in Sessions : exporter[x] \in Exporters
      /\ now \in Nat /\ exporter \in [Sessions -> Exporters]
  BY DEF IInv, TypeInv
<1>2. /\ UNCHANGED <<now, place, transcript, hooks, metric_point, session_branch, session_pr, import>>
      /\ exporter' = [exporter EXCEPT ![s] = [e EXCEPT !.unsent = Zero]]
      /\ e.unsent # Zero
  BY <1>1 DEF Collect, tableVars, Exporters
<1>3. /\ e.unsent \in [Models -> Nat] /\ e.running \in [Models -> Nat] /\ Counts(s) \in [Models -> Nat]
      /\ e.start \in Nat /\ e.start <= now /\ Zero \in [Models -> Nat]
  BY <1>1 DEF Counts, Exporters, Zero
<1>4. /\ exporter' \in [Sessions -> Exporters]
      /\ \A x \in Sessions : /\ exporter'[x].kind = exporter[x].kind
                             /\ exporter'[x].start = exporter[x].start
                             /\ exporter'[x].running = exporter[x].running
                             /\ x # s => exporter'[x] = exporter[x]
      /\ exporter'[s].unsent = Zero
  <2> DEFINE c == [e EXCEPT !.unsent = Zero]
  <2>1. /\ c \in Exporters /\ c.kind = e.kind /\ c.start = e.start /\ c.running = e.running
        /\ c.unsent = Zero
    BY <1>1, <1>3 DEF Exporters
  <2> HIDE DEF c
  <2>2. exporter' = [exporter EXCEPT ![s] = c]
    BY <1>2 DEF c
  <2> QED
    BY <1>1, <2>1, <2>2
<1>5. Measured' = (Measured \cup {o}) \cup N
  BY CollectAdds
<1>6. Exports(s)
  BY <1>1, <1>2 DEF MeasuredInv
<1>7. ASSUME NEW r \in N
      PROVE  \E m \in Models :
                 /\ r.attrs = m /\ r.value = Counts(s)[m] /\ r.value \in Nat
                 /\ r.metric = "claude_code.token.usage" /\ r.field = "tokens_input"
                 /\ r.field = canonicalField(r.metric)
                 /\ r.session = s /\ r.temporality = e.kind /\ r.start = e.start /\ r.time = now
                 /\ r.source = "otel" /\ r = TokenRow(s, m)
  <2>1. PICK m \in Models : r = TokenRow(s, m)
    BY DEF NewRows, Counting
  <2>2. canonicalField("claude_code.token.usage") = "tokens_input"
    BY DEF canonicalField
  <2> QED
    BY <1>3, <2>1, <2>2, RowsOf
<1>8. /\ o.metric = "claude_code.unheard_of" /\ o.field = None /\ o.field = canonicalField(o.metric)
      /\ o.session = s /\ o.value = 1 /\ o.temporality = e.kind /\ o.time = now /\ o.source = "otel"
  BY RowsOf
<1> HIDE DEF N, o
<1>9. Counted(s)' = Counted(s) \cup N /\ \A x : x # s => Counted(x)' = Counted(x)
  BY <1>5, <1>7, <1>8, TelemetryAssumption DEF Counted
<1>10. \A x : Done(x)' = Done(x)
  BY <1>2 DEF Done, Worked
<1>11. ASSUME NEW r \in Measured, r.session = s
       PROVE  r.time \in Nat /\ r.time < now
  BY <1>1, <1>2, <1>11 DEF MeasuredInv, RowOK
<1>12. TypeInv'
  <2>1. IsFiniteSet(N)
    <3> DEFINE f == [m \in Counting(s) |-> TokenRow(s, m)]
    <3>1. Counting(s) \in SUBSET Models
      BY DEF Counting
    <3>2. IsFiniteSet(Counting(s))
      BY <3>1, FS_Subset, TelemetryAssumption
    <3>3. f \in Surjection(Counting(s), N)
      BY DEF Surjection, N, NewRows
    <3> HIDE DEF f
    <3> QED
      BY <3>2, <3>3, FS_Surjection
  <2>2. IsFiniteSet(Measured)
    BY <1>1 DEF TypeInv
  <2>3. IsFiniteSet(Measured \cup {o})
    BY <2>2, FS_AddElement
  <2>4. IsFiniteSet(Measured')
    BY <1>5, <2>1, <2>3, FS_Union
  <2> QED
    BY <1>1, <1>2, <1>4, <2>4 DEF TypeInv, Records, Imports, LinkRows, SpanRows, Exporters
<1>13. WorkInv' /\ ImportInv' /\ BranchInv'
  BY <1>1, <1>2, <1>10 DEF WorkInv, ImportInv, ImportedUpTo, Imported, BranchInv, HeldAt, Seen, Located, Done, Worked
<1>14. MeasuredInv'
  <2>1. ASSUME NEW r \in Measured PROVE RowOK(r)'
    <3>1. RowOK(r)
      BY <1>1 DEF MeasuredInv
    <3>2. CASE r.session = s
      BY <1>2, <1>4, <3>1, <3>2 DEF RowOK, Exports, Zero
    <3>3. CASE r.session # s
      BY <1>2, <1>4, <3>1, <3>3 DEF RowOK, Exports, Zero
    <3> QED
      BY <3>2, <3>3
  <2>2. exporter'[s].unsent = Zero' /\ exporter'[s].kind = e.kind /\ Exports(s)'
    BY <1>4, <1>6 DEF Zero, Exports
  <2>3. now \in 0..now' /\ 1 \in Nat
    BY <1>1, <1>2
  <2>4. ASSUME NEW r \in N PROVE RowOK(r)'
    <3>1. /\ r.source = "otel" /\ r.session = s /\ r.temporality = e.kind
          /\ r.field = canonicalField(r.metric) /\ r.value \in Nat /\ r.time = now
      BY <1>7
    <3> QED
      BY <2>2, <2>3, <3>1 DEF RowOK
  <2>5. ASSUME NEW r, r = o PROVE RowOK(r)'
    BY <1>8, <2>2, <2>3, <2>5 DEF RowOK
  <2>6. \A r \in Measured' : RowOK(r)'
    BY <1>5, <2>1, <2>4, <2>5
  <2>7. ASSUME NEW r \in Measured, NEW q \in N \cup {o}
        PROVE  DedupKey(r) # DedupKey(q)
    <3>1. q.session = s /\ q.time = now
      BY <1>7, <1>8
    <3>2. CASE r.session = s
      <4>1. r.time # now
        BY <1>1, <1>11, <3>2
      <4> QED
        BY <3>1, <4>1 DEF DedupKey
    <3>3. CASE r.session # s
      BY <3>1, <3>3 DEF DedupKey
    <3> QED
      BY <3>2, <3>3
  <2>8. ASSUME NEW r \in N, NEW q \in N, DedupKey(r) = DedupKey(q)
        PROVE  r = q
    <3>1. r.attrs = q.attrs
      BY <2>8 DEF DedupKey
    <3> QED
      BY <1>7, <3>1
  <2>9. \A q \in N : DedupKey(q) # DedupKey(o)
    BY <1>7, <1>8 DEF DedupKey
  <2>10. \A r, q \in Measured : DedupKey(r) = DedupKey(q) => r = q
    BY <1>1 DEF MeasuredInv
  <2>11. ASSUME NEW r \in Measured', NEW q \in Measured', DedupKey(r) = DedupKey(q)
         PROVE  r = q
    BY <1>5, <2>7, <2>8, <2>9, <2>10, <2>11
  <2>12. \A x \in Sessions : exporter'[x].unsent # Zero' => Exports(x)'
    BY <1>1, <1>2, <1>4 DEF MeasuredInv, Exports, Zero
  <2>13. \A r \in metric_point' : r.source \in {"otel", "transcript"}
    BY <1>1, <1>2 DEF MeasuredInv
  <2> QED
    BY <2>6, <2>11, <2>12, <2>13 DEF MeasuredInv, DedupKey
<1>15. Counted(s) \cap N = {}
  BY <1>1, <1>7, <1>11 DEF Counted
<1>16. DeltaInv'
  <2>1. ASSUME NEW x \in Sessions, Increments(x)'
        PROVE  Cardinality(Units(Counted(x)')) + Cardinality(Unsent(x)') = Cardinality(Done(x)')
    <3>1. Increments(x)
      BY <1>4, <2>1 DEF Increments
    <3>2. Cardinality(Units(Counted(x))) + Cardinality(Unsent(x)) = Cardinality(Done(x))
      BY <1>1, <3>1 DEF DeltaInv
    <3>3. CASE x # s
      <4>1. Unsent(x)' = Unsent(x) /\ Counted(x)' = Counted(x)
        BY <1>4, <1>9, <3>3 DEF Unsent
      <4> QED
        BY <1>10, <3>2, <4>1
    <3>4. CASE x = s
      <4>1. Unsent(s)' = {}
        BY <1>4, NoUnits DEF Unsent
      <4>2. Cardinality(Unsent(s)') = 0
        BY <4>1, NoUnits
      <4>3. Cardinality(Units(N)) = Cardinality(Unsent(s))
        BY <1>1, <3>1, <3>4, NewUnits DEF N
      <4>4. Counted(s) \in SUBSET Measured /\ N \in SUBSET Measured' /\ TypeInv /\ MeasuredInv
        BY <1>1, <1>5 DEF Counted
      <4>5. IsFiniteSet(Units(Counted(s))) /\ Cardinality(Units(Counted(s))) \in Nat
        BY <4>4, CountedFinite
      <4>6. IsFiniteSet(Units(N)) /\ Cardinality(Units(N)) \in Nat
        <5>1. IsFiniteSet(N)
          BY <1>12, <4>4, FS_Subset DEF TypeInv
        <5>2. Values(N) \in [N -> Nat]
          BY <1>7 DEF Values
        <5> QED
          BY <5>1, <5>2, PileIsSum DEF Units
      <4>7. Cardinality(Units(Counted(s) \cup N)) = Cardinality(Units(Counted(s))) + Cardinality(Units(N))
        BY <1>15, <4>5, <4>6, UnitsApart
      <4>8. Counted(x)' = Counted(s) \cup N /\ Done(x)' = Done(s) /\ Unsent(x)' = Unsent(s)'
        BY <1>9, <1>10, <3>4
      <4>9. Cardinality(Units(Counted(x)')) = Cardinality(Done(s))
        BY <3>2, <3>4, <4>3, <4>7, <4>8
      <4>10. Cardinality(Units(Counted(x)')) \in Nat
        BY <4>5, <4>6, <4>7, <4>8
      <4> QED
        BY <4>2, <4>8, <4>9, <4>10
    <3> QED
      BY <3>3, <3>4
  <2> QED
    BY <2>1 DEF DeltaInv, Units
<1>17. EpochInv'
  <2>1. ASSUME NEW x \in Sessions, exporter'[x].kind = "cumulative"
        PROVE  /\ \A m \in Models : Within(x, exporter[x].running[m], exporter[x].start, now)'
               /\ \A r \in Counted(x)' :
                      /\ r.start \in Nat /\ Within(x, r.value, r.start, r.time)'
                      /\ r.start <= exporter'[x].start
                      /\ r.start < exporter'[x].start => r.time <= exporter'[x].start
               /\ \A r, q \in Counted(x)' : r.start < q.start => r.time <= q.start
    <3>1. /\ exporter[x].kind = "cumulative" /\ exporter'[x].start = exporter[x].start
          /\ exporter[x].start \in Nat /\ exporter[x].start <= now
      BY <1>1, <1>4, <2>1 DEF Exporters
    <3>2. /\ \A m \in Models : Within(x, exporter[x].running[m], exporter[x].start, now)
          /\ \A r \in Counted(x) :
                 /\ r.start \in Nat /\ Within(x, r.value, r.start, r.time)
                 /\ r.start <= exporter[x].start
                 /\ r.start < exporter[x].start => r.time <= exporter[x].start
          /\ \A r, q \in Counted(x) : r.start < q.start => r.time <= q.start
      BY <1>1, <3>1 DEF EpochInv
    <3>3. \A n, a, b : Within(x, n, a, b)' <=> Within(x, n, a, b)
      BY <1>10 DEF Within
    <3>4. \A m \in Models : Within(x, exporter[x].running[m], exporter[x].start, now)'
      <4>1. exporter'[x].running = exporter[x].running
        BY <1>4
      <4> QED
        BY <1>2, <1>10, <3>1, <3>2, <4>1 DEF Within
    <3>5. CASE x # s
      BY <1>9, <3>1, <3>2, <3>3, <3>4, <3>5
    <3>6. CASE x = s
      <4>1. ASSUME NEW r \in N
            PROVE  /\ r.start = exporter[s].start /\ r.time = now /\ Within(s, r.value, r.start, r.time)
        <5>1. PICK m \in Models : r.value = Counts(s)[m] /\ r.start = e.start /\ r.time = now
          BY <1>7
        <5>2. Counts(s) = e.running
          BY <3>1, <3>6 DEF Counts, Increments
        <5> QED
          BY <3>2, <3>6, <5>1, <5>2
      <4>2. \A r \in Counted(s)' : r \in Counted(s) \/ r \in N
        BY <1>9
      <4>3. \A r \in Counted(s)' :
                /\ r.start \in Nat /\ Within(s, r.value, r.start, r.time)
                /\ r.start <= exporter[s].start
                /\ r.start < exporter[s].start => r.time <= exporter[s].start
        BY <1>3, <3>2, <3>6, <4>1, <4>2
      <4>4. ASSUME NEW r \in Counted(s)', NEW q \in Counted(s)', r.start < q.start
            PROVE  r.time <= q.start
        <5>1. r \in Counted(s)
          BY <1>3, <4>1, <4>2, <4>3, <4>4
        <5>2. CASE q \in Counted(s)
          BY <3>2, <3>6, <4>4, <5>1, <5>2
        <5>3. CASE q \in N
          BY <3>2, <3>6, <4>1, <4>4, <5>1, <5>3
        <5> QED
          BY <4>2, <5>2, <5>3
      <4> QED
        BY <3>1, <3>3, <3>4, <3>6, <4>3, <4>4
    <3> QED
      BY <3>5, <3>6
  <2> QED
    BY <2>1 DEF EpochInv
<1> QED
  BY <1>12, <1>13, <1>14, <1>16, <1>17 DEF IInv

-----------------------------------------------------------------------------
(* The rows arrive.                                                        *)

\* Where the agents do nothing and no row of an exporter comes or goes.
LEMMA QuietKeeps ==
  ASSUME IInv, UNCHANGED <<now, transcript, exporter>>, Measured' = Measured,
         \A r \in metric_point' : r.source \in {"otel", "transcript"}
  PROVE  WorkInv' /\ MeasuredInv' /\ DeltaInv' /\ EpochInv'
<1>1. /\ WorkInv /\ MeasuredInv /\ DeltaInv /\ EpochInv
      /\ \A s : Counted(s)' = Counted(s) /\ Done(s)' = Done(s)
  BY DEF IInv, Counted, Done, Worked
<1>2. WorkInv'
  BY <1>1 DEF WorkInv, Located
<1>3. MeasuredInv'
  <2>1. \A r \in Measured : RowOK(r)'
    BY <1>1 DEF MeasuredInv, RowOK, Exports, Zero
  <2>2. \A s \in Sessions : exporter'[s].unsent # Zero' => Exports(s)'
    BY <1>1 DEF MeasuredInv, Exports, Zero
  <2> QED
    BY <1>1, <2>1, <2>2 DEF MeasuredInv
<1>4. DeltaInv'
  BY <1>1 DEF DeltaInv, Increments, Unsent, Units
<1>5. EpochInv'
  BY <1>1 DEF EpochInv, Within
<1> QED
  BY <1>2, <1>3, <1>4, <1>5

LEMMA IngestKeeps ==
  ASSUME IInv, NEW body \in outbox, Ingest(body)
  PROVE  IInv'
<1> DEFINE flat == flattenMetrics(body)
           rest == UNION {flattenMetrics(b) : b \in outbox}
<1>1. /\ TypeInv /\ WorkInv /\ MeasuredInv /\ DeltaInv /\ EpochInv /\ ImportInv /\ BranchInv
  BY DEF IInv
<1>2. /\ metric_point' = metric_point \cup {r \in flat : ~\E old \in metric_point : DedupKey(old) = DedupKey(r)}
      /\ outbox' = outbox \ {body} \/ outbox' = outbox
      /\ UNCHANGED <<now, place, transcript, exporter, hooks, session_branch, import>>
  BY DEF Ingest, insertMetrics, agentVars
<1>3. \A r \in flat : r \in Measured /\ r.source = "otel"
  BY <1>1 DEF Measured, MeasuredInv, RowOK
<1>4. ASSUME NEW r \in flat
      PROVE  r \in metric_point'
  <2>1. CASE ~\E old \in metric_point : DedupKey(old) = DedupKey(r)
    BY <1>2, <2>1
  <2>2. CASE \E old \in metric_point : DedupKey(old) = DedupKey(r)
    <3>1. PICK old \in metric_point : DedupKey(old) = DedupKey(r)
      BY <2>2
    <3>2. old.source = "otel"
      BY <1>3, <3>1 DEF DedupKey
    <3>3. old \in Measured
      BY <3>1, <3>2 DEF Measured
    <3>4. old = r
      BY <1>1, <1>3, <3>1, <3>3 DEF MeasuredInv
    <3> QED
      BY <1>2, <3>1, <3>4
  <2> QED
    BY <2>1, <2>2
<1>5. \A r \in metric_point' : r \in metric_point \/ r \in flat
  BY <1>2
<1>6. Measured' = Measured
  <2> DEFINE there == UNION {flattenMetrics(b) : b \in outbox'}
  <2>1. (UNION {flattenMetrics(b) : b \in outbox})' = there
    BY DEF flattenMetrics
  <2>2. there \subseteq rest /\ rest \subseteq there \cup flat /\ flat \subseteq rest
    BY <1>2
  <2> HIDE DEF there, rest, flat
  <2>3. Measured' = {r \in metric_point' : r.source = "otel"} \cup there
    BY <2>1 DEF Measured
  <2>4. Measured = {r \in metric_point : r.source = "otel"} \cup rest
    BY DEF Measured, rest
  <2>5. metric_point \subseteq metric_point'
    BY <1>2
  <2> QED
    BY <1>3, <1>4, <1>5, <2>2, <2>3, <2>4, <2>5
<1>7. {r \in metric_point' : r.source = "transcript"} = {r \in metric_point : r.source = "transcript"}
  <2> HIDE DEF flat
  <2> QED
    BY <1>2, <1>3, <1>5
<1>8. IsFiniteSet(metric_point')
  <2>1. IsFiniteSet(metric_point \cup Measured)
    BY <1>1, FS_Union DEF TypeInv
  <2>2. metric_point' \in SUBSET (metric_point \cup Measured)
    BY <1>3, <1>5
  <2> QED
    BY <2>1, <2>2, FS_Subset
<1>9. TypeInv'
  BY <1>1, <1>2, <1>6, <1>8 DEF TypeInv, Records, Imports, LinkRows, SpanRows, Exporters
<1>10. WorkInv' /\ MeasuredInv' /\ DeltaInv' /\ EpochInv'
  <2>1. \A r \in metric_point' : r.source \in {"otel", "transcript"}
    BY <1>1, <1>3, <1>5 DEF MeasuredInv
  <2> QED
    BY <1>2, <1>6, <2>1, QuietKeeps
<1>11. ImportInv'
  <2>1. \A x, t : ImportedUpTo(x, t)' <=> ImportedUpTo(x, t)
    <3>1. \A x : {r \in metric_point' : r.source = "transcript" /\ r.session = x} =
                     {r \in metric_point : r.source = "transcript" /\ r.session = x}
      BY <1>7
    <3> QED
      BY <1>2, <3>1 DEF ImportedUpTo, Imported, Done, Worked
  <2>2. metric_point \subseteq metric_point'
    BY <1>2
  <2>3. \A r \in metric_point' : r.source = "transcript" => r \in metric_point
    BY <1>7
  <2> QED
    BY <1>1, <1>2, <2>1, <2>2, <2>3 DEF ImportInv, Imported, Worked
<1>12. BranchInv'
  BY <1>1, <1>2 DEF BranchInv, HeldAt, Seen, Located
<1> QED
  BY <1>9, <1>10, <1>11, <1>12 DEF IInv

-----------------------------------------------------------------------------
(* The transcripts are read.                                               *)

LEMMA SpansAreHeld ==
  ASSUME TypeInv, NEW span \in Spans(Located(transcript))
  PROVE  span \in SpanRows /\ HeldAt(span.session, span.place, span.first)
<1> DEFINE rs == Located(transcript)
<1>1. PICK r \in rs :
          span = [session |-> r.session, place |-> r.place,
                  first |-> Min({x.at : x \in {y \in rs : y.session = r.session /\ y.place = r.place}}),
                  last |-> Max({x.at : x \in {y \in rs : y.session = r.session /\ y.place = r.place}})]
  BY DEF Spans
<1> DEFINE own == {y \in rs : y.session = r.session /\ y.place = r.place}
           ats == {x.at : x \in own}
<1>2. now \in Nat /\ \A x \in rs : x \in Records /\ x.at \in Nat /\ x.at <= now
  BY DEF TypeInv, Located, Records
<1>3. ats \in SUBSET Nat /\ ats # {} /\ \A a \in ats : a <= now
  <2>1. r \in own
    BY <1>1
  <2> QED
    BY <1>2, <2>1
<1>4. span = [session |-> r.session, place |-> r.place, first |-> Min(ats), last |-> Max(ats)]
  BY <1>1
<1> HIDE DEF ats
<1>5. Min(ats) \in ats /\ Max(ats) \in ats
  BY <1>2, <1>3, MinOf, MaxOf
<1>6. Min(ats) \in 0..now /\ Max(ats) \in 0..now
  <2>1. \A a \in ats : a \in 0..now
    BY <1>2, <1>3
  <2> QED
    BY <1>5, <2>1
<1>7. r.session \in Sessions /\ r.place \in Places
  BY <1>2 DEF Records
<1>8. span \in SpanRows
  BY <1>4, <1>6, <1>7 DEF SpanRows
<1>9. PICK x \in own : x.at = Min(ats)
  BY <1>5 DEF ats
<1>10. span.session = r.session /\ span.place = r.place /\ span.first = x.at
  BY <1>4, <1>9
<1>11. x \in Seen(r.session) /\ x.place = r.place /\ x.at \in Nat
  BY <1>2, <1>9 DEF Seen
<1>12. HeldAt(r.session, r.place, x.at)
  BY <1>11 DEF HeldAt
<1> QED
  BY <1>8, <1>10, <1>12

LEMMA BackfillKeeps ==
  ASSUME IInv, backfillTranscripts
  PROVE  IInv'
<1> DEFINE links == {[session |-> r.session, repo |-> Repo(r.place)] : r \in transcript \ Located(transcript)}
           spans == Spans(Located(transcript))
<1>1. /\ TypeInv /\ WorkInv /\ MeasuredInv /\ DeltaInv /\ EpochInv /\ ImportInv /\ BranchInv
      /\ import' = [on |-> TRUE, todo |-> Worked(transcript), left |-> spans, links |-> links]
      /\ UNCHANGED <<now, place, transcript, exporter, outbox, hooks, metric_point, session_branch>>
  BY DEF IInv, backfillTranscripts, agentVars, tableVars
<1>2. links \in SUBSET LinkRows
  BY <1>1 DEF TypeInv, Records, LinkRows
<1>3. spans \in SUBSET SpanRows /\ \A span \in spans : HeldAt(span.session, span.place, span.first)
  BY <1>1, SpansAreHeld
<1> HIDE DEF links, spans
<1>4. import'.todo = Worked(transcript) /\ import'.left = spans
  BY <1>1
<1>5. Measured' = Measured
  BY <1>1 DEF Measured, flattenMetrics
<1>6. TypeInv'
  <2>1. import' \in Imports
    BY <1>1, <1>2, <1>3 DEF Imports, Worked, TypeInv
  <2> QED
    BY <1>1, <1>5, <2>1 DEF TypeInv, Records, Imports, LinkRows, SpanRows, Exporters
<1>7. WorkInv' /\ MeasuredInv' /\ DeltaInv' /\ EpochInv'
  BY <1>1, <1>5, QuietKeeps DEF MeasuredInv
<1>8. ImportInv'
  <2>1. \A x, t : ImportedUpTo(x, t)' <=> ImportedUpTo(x, t)
    BY <1>1 DEF ImportedUpTo, Imported, Done, Worked
  <2>2. Worked(transcript)' = Worked(transcript)
    BY <1>1 DEF Worked
  <2> QED
    BY <1>1, <1>4, <2>1, <2>2 DEF ImportInv
<1>9. BranchInv'
  <2>1. \A x, o, t : HeldAt(x, o, t)' <=> HeldAt(x, o, t)
    BY <1>1 DEF HeldAt, Seen, Located
  <2> QED
    BY <1>1, <1>3, <1>4, <2>1 DEF BranchInv
<1> QED
  BY <1>6, <1>7, <1>8, <1>9 DEF IInv

\* What is written of a session with the chunk is, again, its work up to some moment.
LEMMA ChunkKeeps ==
  ASSUME IInv, ImportChunk
  PROVE  IInv'
<1>1. PICK chunk \in SUBSET import.todo :
          /\ \A r \in chunk, x \in import.todo \ chunk : r.session = x.session => r.at < x.at
          /\ insertMetrics({Imported(r) : r \in chunk})
          /\ import' = [import EXCEPT !.todo = @ \ chunk]
  BY DEF ImportChunk
<1> DEFINE rs == Worked(transcript)
           rows == {Imported(x) : x \in chunk}
<1>2. /\ TypeInv /\ WorkInv /\ MeasuredInv /\ DeltaInv /\ EpochInv /\ ImportInv /\ BranchInv
      /\ now \in Nat /\ \A x \in rs : x \in Located(transcript) /\ x.at \in Nat /\ x.at <= now /\ x.session \in Sessions
      /\ chunk \in SUBSET rs
  BY <1>1 DEF IInv, TypeInv, Worked, Located, Records, ImportInv
<1>3. /\ metric_point' = metric_point \cup {r \in rows : ~\E old \in metric_point : DedupKey(old) = DedupKey(r)}
      /\ import.todo \in SUBSET rs /\ import'.todo = import.todo \ chunk /\ import'.left = import.left
      /\ import' \in Imports
      /\ UNCHANGED <<now, place, transcript, exporter, outbox, hooks, session_branch>>
  BY <1>1, <1>2 DEF ImportChunk, insertMetrics, agentVars, TypeInv, Imports, ImportInv
<1>4. \A x : /\ Imported(x).source = "transcript" /\ Imported(x).time = x.at
             /\ Imported(x).session = x.session
  BY DEF Imported
<1>5. \A r \in rows : r.source = "transcript" /\ r.session \in Sessions
  BY <1>2, <1>4
<1>6. \A r \in metric_point' : r \in metric_point \/ r \in rows
  BY <1>3
<1>7. Measured' = Measured
  <2> HIDE DEF rs, rows
  <2>1. {r \in metric_point' : r.source = "otel"} = {r \in metric_point : r.source = "otel"}
    BY <1>3, <1>5, <1>6
  <2> QED
    BY <1>3, <2>1 DEF Measured, flattenMetrics
<1>8. rows \subseteq metric_point' /\ metric_point \subseteq metric_point'
  <2>1. ASSUME NEW x \in chunk, NEW old \in metric_point, DedupKey(old) = DedupKey(Imported(x))
        PROVE  old = Imported(x)
    <3>1. old.source = "transcript" /\ old.time = x.at /\ old.session = x.session
      BY <1>4, <2>1 DEF DedupKey
    <3>2. PICK t \in 0..now : ImportedUpTo(x.session, t)
      BY <1>2 DEF ImportInv
    <3>3. PICK y \in Done(x.session) : old = Imported(y)
      BY <3>1, <3>2 DEF ImportedUpTo
    <3>4. y \in rs /\ y.at = x.at
      BY <1>4, <3>1, <3>3 DEF Done
    <3>5. y = x
      BY <1>2, <3>4 DEF WorkInv
    <3> QED
      BY <3>3, <3>5
  <2>2. ASSUME NEW x \in chunk
        PROVE  Imported(x) \in metric_point'
    <3>1. CASE ~\E old \in metric_point : DedupKey(old) = DedupKey(Imported(x))
      BY <1>3, <3>1
    <3>2. CASE \E old \in metric_point : DedupKey(old) = DedupKey(Imported(x))
      <4>1. PICK old \in metric_point : DedupKey(old) = DedupKey(Imported(x))
        BY <3>2
      <4>2. old = Imported(x)
        BY <2>1, <4>1
      <4> QED
        BY <1>3, <4>2
    <3> QED
      BY <3>1, <3>2
  <2> QED
    BY <1>3, <2>2
<1>9. IsFiniteSet(metric_point')
  <2> DEFINE f == [x \in chunk |-> Imported(x)]
  <2>1. f \in Surjection(chunk, rows)
    BY DEF Surjection
  <2>2. IsFiniteSet(rows)
    <3> HIDE DEF f, rows
    <3>1. IsFiniteSet(chunk)
      BY <1>2, DoneFinite, FS_Subset
    <3> QED
      BY <2>1, <3>1, FS_Surjection
  <2> HIDE DEF rows
  <2>3. IsFiniteSet(metric_point \cup rows)
    BY <1>2, <2>2, FS_Union DEF TypeInv
  <2>4. metric_point' \in SUBSET (metric_point \cup rows)
    BY <1>6
  <2> QED
    BY <2>3, <2>4, FS_Subset
<1>10. TypeInv'
  BY <1>2, <1>3, <1>7, <1>9 DEF TypeInv, Records, Imports, LinkRows, SpanRows, Exporters
<1>11. WorkInv' /\ MeasuredInv' /\ DeltaInv' /\ EpochInv'
  <2>1. \A r \in metric_point' : r.source \in {"otel", "transcript"}
    BY <1>2, <1>5, <1>6 DEF MeasuredInv
  <2> QED
    BY <1>3, <1>7, <2>1, QuietKeeps
<1>12. ASSUME NEW s \in Sessions
       PROVE  \E t \in 0..now : ImportedUpTo(s, t)'
  <2> DEFINE mine == {x \in chunk : x.session = s}
             ats == {x.at : x \in mine}
  <2>1. PICK t \in 0..now : ImportedUpTo(s, t)
    BY <1>2 DEF ImportInv
  <2>2. {r \in metric_point' : r.source = "transcript" /\ r.session = s} =
            {Imported(x) : x \in {y \in Done(s) : y.at <= t}} \cup {Imported(x) : x \in mine}
    <3>1. \A r : r \in rows /\ r.session = s <=> \E x \in mine : r = Imported(x)
      BY <1>4
    <3>2. \A r : r \in metric_point /\ r.source = "transcript" /\ r.session = s <=>
                     \E x \in Done(s) : x.at <= t /\ r = Imported(x)
      BY <2>1 DEF ImportedUpTo
    <3> HIDE DEF rows, mine
    <3> QED
      BY <1>5, <1>6, <1>8, <3>1, <3>2
  <2>3. CASE mine = {}
    <3>1. {r \in metric_point' : r.source = "transcript" /\ r.session = s} =
              {Imported(x) : x \in {y \in Done(s) : y.at <= t}}
      BY <2>2, <2>3
    <3>2. ImportedUpTo(s, t)'
      BY <1>3, <3>1 DEF ImportedUpTo, Imported, Done, Worked
    <3> QED
      BY <3>2
  <2>4. CASE mine # {}
    <3>1. ats \in SUBSET Nat /\ ats # {} /\ \A a \in ats : a <= now
      BY <1>2, <2>4
    <3>2. PICK c \in mine : \A x \in mine : x.at <= c.at
      <4>1. Max(ats) \in ats /\ \A a \in ats : a <= Max(ats)
        <5> HIDE DEF ats
        <5> QED
          BY <1>2, <3>1, MaxOf
      <4> QED
        BY <4>1
    <3>3. c \in chunk /\ c.session = s /\ c \in rs /\ c \in import.todo /\ c.at \in 0..now /\ c.at \in Nat
      BY <1>2, <3>2
    <3>4. ASSUME NEW x \in Done(s), x.at <= c.at
          PROVE  x \in mine \/ x.at <= t
      <4>1. x \in rs /\ x.session = s
        BY DEF Done
      <4>2. CASE x.at = c.at
        <5>1. x = c
          BY <1>2, <3>3, <4>1, <4>2 DEF WorkInv
        <5> QED
          BY <3>2, <5>1
      <4>3. CASE x.at < c.at
        <5>1. x \in import.todo \/ Imported(x) \in metric_point
          BY <1>2, <3>3, <4>1, <4>3 DEF ImportInv
        <5>2. CASE x \in import.todo
          <6>1. x \in chunk
            <7>1. x \notin chunk => c.at < x.at
              BY <1>1, <3>3, <4>1, <5>2
            <7> QED
              BY <1>2, <3>3, <4>1, <4>3, <7>1
          <6> QED
            BY <4>1, <6>1
        <5>3. CASE Imported(x) \in metric_point
          <6>1. PICK y \in Done(s) : y.at <= t /\ Imported(x) = Imported(y)
            BY <1>4, <2>1, <4>1, <5>3 DEF ImportedUpTo
          <6>2. x.at = y.at
            BY <1>4, <6>1
          <6> QED
            BY <6>1, <6>2
        <5> QED
          BY <5>1, <5>2, <5>3
      <4> QED
        BY <1>2, <3>3, <3>4, <4>1, <4>2, <4>3
    <3>5. mine \in SUBSET Done(s)
      BY <1>2 DEF Done
    <3>6. PICK u \in 0..now : u = IF t <= c.at THEN c.at ELSE t
      BY <3>3
    <3>7. \A x \in Done(s) : x.at <= u <=> x \in mine \/ x.at <= t
      <4>1. t \in Nat /\ \A x \in Done(s) : x.at \in Nat
        BY <1>2 DEF Done
      <4> HIDE DEF mine
      <4> QED
        BY <3>2, <3>3, <3>4, <3>6, <4>1
    <3>8. {r \in metric_point' : r.source = "transcript" /\ r.session = s} =
              {Imported(x) : x \in {y \in Done(s) : y.at <= u}}
      <4> HIDE DEF mine
      <4> QED
        BY <2>2, <3>5, <3>7
    <3>9. ImportedUpTo(s, u)'
      BY <1>3, <3>8 DEF ImportedUpTo, Imported, Done, Worked
    <3> QED
      BY <3>9
  <2> QED
    BY <2>3, <2>4
<1>13. ImportInv'
  <2>1. \A r \in metric_point' : r.source = "transcript" => r.session \in Sessions
    BY <1>2, <1>5, <1>6 DEF ImportInv
  <2>2. \A y \in import'.todo, x \in rs :
            x.session = y.session /\ x.at < y.at => x \in import'.todo \/ Imported(x) \in metric_point'
    BY <1>2, <1>3, <1>8 DEF ImportInv
  <2>3. rs' = rs /\ \A x : Imported(x)' = Imported(x)
    BY <1>3 DEF Worked, Imported
  <2> HIDE DEF rs
  <2>4. import'.todo \in SUBSET rs /\ 0..now' = 0..now
    BY <1>3
  <2> QED
    BY <1>3, <1>12, <2>1, <2>2, <2>3, <2>4 DEF ImportInv, rs
<1>14. BranchInv'
  <2>1. \A x, o, t : HeldAt(x, o, t)' <=> HeldAt(x, o, t)
    BY <1>3 DEF HeldAt, Seen, Located
  <2> QED
    BY <1>2, <1>3, <2>1 DEF BranchInv
<1> QED
  BY <1>10, <1>11, <1>13, <1>14 DEF IInv

-----------------------------------------------------------------------------
(* Where the sessions were.                                                *)

LEMMA UpsertKeeps ==
  ASSUME TypeInv, BranchInv, NEW span \in SpanRows, HeldAt(span.session, span.place, span.first),
         Upsert(span)
  PROVE  /\ session_branch' \in SUBSET SpanRows /\ IsFiniteSet(session_branch')
         /\ \A r \in session_branch' : HeldAt(r.session, r.place, r.first)
         /\ \A r, q \in session_branch' : r.session = q.session /\ r.place = q.place => r = q
<1> DEFINE old == {r \in session_branch : r.session = span.session /\ r.place = span.place}
           all == old \cup {span}
           firsts == {r.first : r \in all}
           lasts == {r.last : r \in all}
           new == [session |-> span.session, place |-> span.place, first |-> Min(firsts), last |-> Max(lasts)]
<1>1. session_branch' = (session_branch \ old) \cup {new}
  BY DEF Upsert
<1>2. \A r \in all : /\ r \in SpanRows /\ r.session = span.session /\ r.place = span.place
                    /\ HeldAt(r.session, r.place, r.first)
                    /\ r.first \in Nat /\ r.first <= now /\ r.last \in Nat /\ r.last <= now
  BY DEF TypeInv, BranchInv, SpanRows
<1>3. firsts \in SUBSET Nat /\ firsts # {} /\ lasts \in SUBSET Nat /\ lasts # {}
      /\ now \in Nat /\ (\A a \in firsts : a <= now) /\ (\A b \in lasts : b <= now)
  <2>1. span \in all /\ now \in Nat
    BY DEF TypeInv
  <2> HIDE DEF all
  <2> QED
    BY <1>2, <2>1
<1>4. Min(firsts) \in firsts /\ Max(lasts) \in lasts
  <2> HIDE DEF firsts, lasts
  <2> QED
    BY <1>3, MinOf, MaxOf
<1>5. PICK r \in all : r.first = Min(firsts)
  BY <1>4
<1>6. new.session = span.session /\ new.place = span.place /\ new.first = r.first
  BY <1>5
<1>7. HeldAt(new.session, new.place, new.first)
  <2> HIDE DEF new, all
  <2> QED
    BY <1>2, <1>5, <1>6
<1>8. new \in SpanRows
  <2>1. Min(firsts) \in 0..now
    <3> HIDE DEF firsts, all
    <3>1. \A a \in firsts : a \in 0..now
      BY <1>3
    <3> QED
      BY <1>4, <3>1
  <2>2. Max(lasts) \in 0..now
    <3> HIDE DEF lasts, all
    <3>1. \A a \in lasts : a \in 0..now
      BY <1>3
    <3> QED
      BY <1>4, <3>1
  <2> HIDE DEF firsts, lasts, all
  <2>3. span.session \in Sessions /\ span.place \in Places
    BY DEF SpanRows
  <2> QED
    BY <2>1, <2>2, <2>3 DEF SpanRows
<1>9. IsFiniteSet(session_branch')
  <2>1. session_branch \ old \in SUBSET session_branch
    OBVIOUS
  <2> HIDE DEF old, new
  <2>2. IsFiniteSet(session_branch \ old)
    BY <2>1, FS_Subset DEF TypeInv
  <2> QED
    BY <1>1, <2>2, FS_AddElement
<1>10. \A x \in session_branch : x \notin old => x.session # new.session \/ x.place # new.place
  BY <1>6
<1> HIDE DEF new, all, old
<1> QED
  BY <1>1, <1>7, <1>8, <1>9, <1>10 DEF TypeInv, BranchInv

\* Where only hooks, spans and links move.
LEMMA BranchesKeep ==
  ASSUME IInv, UNCHANGED <<agentVars, outbox, metric_point>>,
         hooks' \in SUBSET [session : Sessions, place : Places, at : 0..now],
         session_branch' \in SUBSET SpanRows, IsFiniteSet(session_branch'),
         import' \in Imports, import'.todo \in {import.todo, {}},
         \A r \in session_branch' : HeldAt(r.session, r.place, r.first),
         \A x, y \in session_branch' : x.session = y.session /\ x.place = y.place => x = y,
         \A h \in hooks' : HeldAt(h.session, h.place, h.at),
         \A p \in import'.left : HeldAt(p.session, p.place, p.first)
  PROVE  IInv'
<1>1. /\ TypeInv /\ WorkInv /\ MeasuredInv /\ DeltaInv /\ EpochInv /\ ImportInv /\ BranchInv
      /\ UNCHANGED <<now, place, transcript, exporter>>
  BY DEF IInv, agentVars
<1>2. Measured' = Measured
  BY <1>1 DEF Measured, flattenMetrics
<1>3. TypeInv'
  BY <1>1, <1>2 DEF TypeInv, Records, Imports, LinkRows, SpanRows, Exporters
<1>4. WorkInv' /\ MeasuredInv' /\ DeltaInv' /\ EpochInv'
  BY <1>1, <1>2, QuietKeeps DEF MeasuredInv
<1>5. ImportInv'
  BY <1>1 DEF ImportInv, ImportedUpTo, Imported, Done, Worked
<1>6. BranchInv'
  <2>1. \A x, o, t : HeldAt(x, o, t)' <=> HeldAt(x, o, t)
    BY <1>1 DEF HeldAt, Seen, Located
  <2> QED
    BY <1>1, <2>1 DEF BranchInv
<1> QED
  BY <1>3, <1>4, <1>5, <1>6 DEF IInv

LEMMA HooksKeep ==
  ASSUME IInv
  PROVE  /\ \A s \in Sessions : Sample(s) => IInv'
         /\ \A report \in hooks : recordBranch(report) \/ ReportIsLost(report) => IInv'
<1>1. /\ TypeInv /\ BranchInv /\ now \in Nat
      /\ \A h \in hooks : /\ h \in [session : Sessions, place : Places, at : 0..now]
                          /\ HeldAt(h.session, h.place, h.at)
      /\ session_branch \in SUBSET SpanRows /\ IsFiniteSet(session_branch)
      /\ import \in Imports
      /\ \A r \in session_branch : HeldAt(r.session, r.place, r.first)
      /\ \A r, q \in session_branch : r.session = q.session /\ r.place = q.place => r = q
      /\ \A p \in import.left : HeldAt(p.session, p.place, p.first)
  BY DEF IInv, TypeInv, BranchInv
<1>2. ASSUME NEW s \in Sessions, Sample(s)
      PROVE  IInv'
  <2> DEFINE h == [session |-> s, place |-> place[s], at |-> now]
  <2>1. /\ hooks' = hooks \cup {h}
        /\ UNCHANGED <<agentVars, outbox, metric_point, session_branch, import>>
    BY <1>2 DEF Sample, tableVars
  <2>2. place[s] \in Places /\ HeldAt(s, place[s], now)
    BY <1>1, <1>2 DEF Sample, TypeInv, BranchInv
  <2>3. h \in [session : Sessions, place : Places, at : 0..now] /\ HeldAt(h.session, h.place, h.at)
    BY <1>1, <2>2
  <2> HIDE DEF h
  <2>4. \A x \in hooks' : /\ x \in [session : Sessions, place : Places, at : 0..now]
                          /\ HeldAt(x.session, x.place, x.at)
    BY <1>1, <2>1, <2>3
  <2> QED
    BY <1>1, <2>1, <2>4, BranchesKeep
<1>3. ASSUME NEW report \in hooks, recordBranch(report)
      PROVE  IInv'
  <2> DEFINE span == [session |-> report.session, place |-> report.place,
                      first |-> report.at, last |-> report.at]
  <2>1. /\ hooks' \subseteq hooks
        /\ UNCHANGED <<agentVars, outbox, metric_point, import>>
        /\ Upsert(span) \/ UNCHANGED session_branch
    BY <1>3 DEF recordBranch
  <2>2. span \in SpanRows /\ HeldAt(span.session, span.place, span.first)
    BY <1>1 DEF SpanRows
  <2> HIDE DEF span
  <2>3. /\ session_branch' \in SUBSET SpanRows /\ IsFiniteSet(session_branch')
        /\ \A r \in session_branch' : HeldAt(r.session, r.place, r.first)
        /\ \A r, q \in session_branch' : r.session = q.session /\ r.place = q.place => r = q
    <3>1. CASE Upsert(span)
      BY <1>1, <2>2, <3>1, UpsertKeeps
    <3>2. CASE UNCHANGED session_branch
      BY <1>1, <3>2
    <3> QED
      BY <2>1, <3>1, <3>2
  <2>4. \A x \in hooks' : /\ x \in [session : Sessions, place : Places, at : 0..now]
                          /\ HeldAt(x.session, x.place, x.at)
    BY <1>1, <2>1
  <2> QED
    BY <1>1, <2>1, <2>3, <2>4, BranchesKeep
<1>4. ASSUME NEW report \in hooks, ReportIsLost(report)
      PROVE  IInv'
  <2>1. /\ hooks' \subseteq hooks
        /\ UNCHANGED <<agentVars, outbox, metric_point, session_branch, import>>
    BY <1>4 DEF ReportIsLost, tableVars
  <2>2. \A x \in hooks' : /\ x \in [session : Sessions, place : Places, at : 0..now]
                          /\ HeldAt(x.session, x.place, x.at)
    BY <1>1, <2>1
  <2> QED
    BY <1>1, <2>1, <2>2, BranchesKeep
<1> QED
  BY <1>2, <1>3, <1>4

LEMMA ImportKeeps ==
  ASSUME IInv, ImportSpan \/ ImportLinks \/ ImportDies
  PROVE  IInv'
<1>1. /\ TypeInv /\ BranchInv /\ now \in Nat
      /\ \A h \in hooks : /\ h \in [session : Sessions, place : Places, at : 0..now]
                          /\ HeldAt(h.session, h.place, h.at)
      /\ session_branch \in SUBSET SpanRows /\ IsFiniteSet(session_branch)
      /\ import \in Imports
      /\ \A r \in session_branch : HeldAt(r.session, r.place, r.first)
      /\ \A r, q \in session_branch : r.session = q.session /\ r.place = q.place => r = q
      /\ \A p \in import.left : HeldAt(p.session, p.place, p.first)
  BY DEF IInv, TypeInv, BranchInv
<1>2. Idle.left = {} /\ Idle.todo = {} /\ Idle \in Imports
  BY DEF Idle, Imports
<1>3. CASE ImportSpan
  <2>1. PICK span \in import.left :
            \/ Upsert(span) /\ import' = [import EXCEPT !.left = @ \ {span}]
            \/ import' = Idle /\ UNCHANGED session_branch
    BY <1>3 DEF ImportSpan
  <2>2. UNCHANGED <<agentVars, outbox, hooks, metric_point>>
    BY <1>3 DEF ImportSpan
  <2>todo. Idle.todo = {} /\ import'.todo \in {import.todo, {}}
    BY <1>1, <2>1 DEF Idle, Imports
  <2>3. CASE Upsert(span) /\ import' = [import EXCEPT !.left = @ \ {span}]
    <3>1. import'.left \subseteq import.left /\ import' \in Imports
      BY <1>1, <2>3 DEF Imports
    <3>2. /\ session_branch' \in SUBSET SpanRows /\ IsFiniteSet(session_branch')
          /\ \A r \in session_branch' : HeldAt(r.session, r.place, r.first)
          /\ \A r, q \in session_branch' : r.session = q.session /\ r.place = q.place => r = q
      <4>1. span \in SpanRows
        BY <1>1, <2>1 DEF Imports
      <4> QED
        BY <1>1, <2>1, <2>3, <4>1, UpsertKeeps
    <3> QED
      BY <1>1, <2>2, <2>todo, <3>1, <3>2, BranchesKeep
  <2>4. CASE import' = Idle /\ UNCHANGED session_branch
    BY <1>1, <1>2, <2>2, <2>todo, <2>4, BranchesKeep
  <2> QED
    BY <2>1, <2>3, <2>4
<1>4. CASE ImportLinks \/ ImportDies
  <2>1. UNCHANGED <<agentVars, outbox, hooks, metric_point, session_branch>> /\ import' = Idle
    BY <1>4 DEF ImportLinks, ImportDies, tableVars
  <2> QED
    BY <1>1, <1>2, <2>1, BranchesKeep
<1> QED
  BY <1>3, <1>4

LEMMA NextKeeps == IInv /\ [Next]_vars => IInv'
<1> SUFFICES ASSUME IInv, [Next]_vars PROVE IInv'
  OBVIOUS
<1>1. ASSUME UNCHANGED vars PROVE IInv'
  BY <1>1, BranchesKeep DEF vars, tableVars, IInv, TypeInv, BranchInv
<1>2. ASSUME NEW body \in outbox, IngestFails(body) PROVE IInv'
  BY <1>2, BranchesKeep DEF IngestFails, tableVars, IInv, TypeInv, BranchInv
<1>3. ASSUME NEW s \in Sessions, NEW p \in Places, NEW m \in Models, Work(s, p, m) PROVE IInv'
  BY <1>3, WorkKeeps
<1>ask. ASSUME NEW s \in Sessions, NEW p \in Places, Ask(s, p) PROVE IInv'
  BY <1>ask, AskKeeps
<1>4. ASSUME NEW s \in Sessions, Restart(s) \/ Collect(s) \/ Sample(s) PROVE IInv'
  BY <1>4, RestartKeeps, CollectKeeps, HooksKeep
<1>5. ASSUME NEW body \in outbox, Ingest(body) PROVE IInv'
  BY <1>5, IngestKeeps
<1>6. ASSUME NEW report \in hooks, recordBranch(report) \/ ReportIsLost(report) PROVE IInv'
  BY <1>6, HooksKeep
<1> QED
  BY <1>1, <1>2, <1>3, <1>ask, <1>4, <1>5, <1>6, BackfillKeeps, ChunkKeeps, ImportKeeps DEF Next

\* The invariant holds, whatever arrives and however often.
LEMMA Invariant == Spec => []IInv
BY InitInv, NextKeeps, PTL DEF Spec

-----------------------------------------------------------------------------
(* The totals of a session.                                                *)

LEMMA ValueIs ==
  ASSUME NEW rs, IsFiniteSet(rs), \A r \in rs : r.value \in Nat
  PROVE  /\ Value(rs) = Cardinality(Units(rs)) /\ Value(rs) \in Nat
         /\ IsFiniteSet(Units(rs))
<1>1. Values(rs) \in [rs -> Nat]
  BY DEF Values
<1>2. /\ IsFiniteSet(Units(rs)) /\ Cardinality(Units(rs)) \in Nat
      /\ \E i : Adds(i, Values(rs), rs)
      /\ \A i : Adds(i, Values(rs), rs) => i[rs] = Cardinality(Units(rs))
  BY <1>1, PileIsSum DEF Units
<1>3. \E i : Adds(i, Values(rs), rs) /\ Value(rs) = i[rs]
  BY <1>2, ValueAdds
<1> QED
  BY <1>2, <1>3

LEMMA NoValue == Value({}) = 0 /\ LastsSum({}) = 0
<1>1. IsFiniteSet({}) /\ Cardinality({}) = 0
  BY FS_EmptySet
<1>2. Value({}) = 0
  BY <1>1, ValueIs, NoUnits
<1>3. LastsSum({}) = 0
  <2> DEFINE f == Lasts({})
  <2>1. DOMAIN f = {} /\ f \in [{} -> Nat] /\ Pile({}, f) = {}
    BY DEF Lasts, Pile
  <2> HIDE DEF f
  <2>2. /\ \E i : Adds(i, f, {})
        /\ \A i : Adds(i, f, {}) => i[{}] = Cardinality(Pile({}, f))
    BY <1>1, <2>1, PileIsSum
  <2>3. \E i : Adds(i, f, {}) /\ LastsSum({}) = i[{}]
    BY <2>1, <2>2, LastsAdd DEF f
  <2> QED
    BY <1>1, <2>1, <2>2, <2>3
<1> QED
  BY <1>2, <1>3

\* The points of a session are its exporter's, or the backfill's.
LEMMA PointsOf ==
  ASSUME IInv, NEW s \in Sessions
  PROVE  /\ session_source(s) = "otel" =>
                /\ Exports(s) /\ Points(s) = Counted(s) \cap metric_point
                /\ \A r \in Points(s) : r.temporality = exporter[s].kind
         /\ session_source(s) # "otel" =>
                \E t \in Times : Points(s) = {Imported(x) : x \in {y \in Done(s) : y.at <= t}}
<1>1. TypeInv /\ MeasuredInv /\ ImportInv
  BY DEF IInv
<1>2. \A r : r \in Points(s) <=> /\ r \in metric_point /\ r.source = session_source(r.session)
                                 /\ r.session = s /\ r.field = "tokens_input"
  BY DEF Points, metric_point_used
<1>3. ASSUME session_source(s) = "otel"
      PROVE  /\ Exports(s) /\ Points(s) = Counted(s) \cap metric_point
             /\ \A r \in Points(s) : r.temporality = exporter[s].kind
  <2>1. PICK q \in metric_point : q.session = s /\ q.source = "otel"
    BY <1>3 DEF session_source
  <2>2. Exports(s)
    BY <1>1, <2>1 DEF MeasuredInv, RowOK, Measured
  <2>3. Points(s) \subseteq Counted(s) \cap metric_point
    BY <1>2, <1>3 DEF Counted, Measured
  <2>4. \A r \in Counted(s) : r.source = "otel" /\ r.temporality = exporter[s].kind
                              /\ r.session = s /\ r.field = "tokens_input"
    BY <1>1 DEF Counted, MeasuredInv, RowOK
  <2>5. Counted(s) \cap metric_point \subseteq Points(s)
    BY <1>2, <1>3, <2>4
  <2> QED
    BY <2>2, <2>3, <2>4, <2>5
<1>4. ASSUME session_source(s) # "otel"
      PROVE  \E t \in Times : Points(s) = {Imported(x) : x \in {y \in Done(s) : y.at <= t}}
  <2>1. session_source(s) = "transcript"
    BY <1>4 DEF session_source
  <2>2. PICK t \in 0..now : ImportedUpTo(s, t)
    BY <1>1 DEF ImportInv
  <2>3. t \in Times
    BY <1>1, TelemetryAssumption DEF TypeInv, Times
  <2>4. \A x : Imported(x).field = "tokens_input"
    BY DEF Imported
  <2>5. \A r : r \in Points(s) <=> \E x \in Done(s) : x.at <= t /\ r = Imported(x)
    BY <1>2, <2>1, <2>2, <2>4 DEF ImportedUpTo
  <2>6. Points(s) = {Imported(x) : x \in {y \in Done(s) : y.at <= t}}
    BY <2>5
  <2> QED
    BY <2>3, <2>6
<1> QED
  BY <1>3, <1>4

\* Each unit of work that was read makes one row of value 1.
LEMMA ImportedValue ==
  ASSUME IInv, NEW s \in Sessions, NEW D \in SUBSET Done(s)
  PROVE  LET rs == {Imported(x) : x \in D} IN
         /\ IsFiniteSet(rs) /\ \A r \in rs : r.value = 1 /\ r.temporality = "delta"
         /\ Value(rs) = Cardinality(D)
<1> DEFINE rs == {Imported(x) : x \in D}
           g == [x \in D |-> Imported(x)]
           F == [r \in rs |-> {x \in D : Imported(x) = r}]
           f == Values(rs)
<1>1. IsFiniteSet(D)
  BY DoneFinite DEF IInv
<1>2. \A x : Imported(x).value = 1 /\ Imported(x).temporality = "delta" /\ Imported(x).time = x.at
  BY DEF Imported
<1>3. IsFiniteSet(rs)
  <2>1. g \in Surjection(D, rs)
    BY DEF Surjection
  <2> HIDE DEF g, rs
  <2> QED
    BY <1>1, <2>1, FS_Surjection
<1>4. \A r \in rs : r.value = 1 /\ r.temporality = "delta"
  BY <1>2
<1>5. ASSUME NEW x \in D, NEW y \in D, Imported(x) = Imported(y)
      PROVE  x = y
  <2>1. x.at = y.at
    BY <1>2, <1>5
  <2> QED
    BY <2>1 DEF IInv, WorkInv, Done, Worked, Located
<1>6. ASSUME NEW r \in rs
      PROVE  F[r] \subseteq D /\ f[r] = Cardinality(F[r])
  <2>1. PICK x \in D : r = Imported(x)
    OBVIOUS
  <2>2. F[r] = {x}
    BY <1>5, <2>1
  <2>3. f[r] = 1
    BY <1>4 DEF Values
  <2> QED
    BY <2>2, <2>3, FS_Singleton
<1>7. \A r, q \in rs : r # q => F[r] \cap F[q] = {}
  OBVIOUS
<1>8. UNION {F[r] : r \in rs} = D
  <2>1. \A x \in D : Imported(x) \in rs /\ x \in F[Imported(x)]
    OBVIOUS
  <2> HIDE DEF F, rs
  <2> QED
    BY <1>6, <2>1
<1> HIDE DEF F, f, rs
<1>9. /\ \E i : Adds(i, f, rs)
      /\ \A i : Adds(i, f, rs) => i[rs] = Cardinality(UNION {F[r] : r \in rs})
  BY <1>1, <1>3, <1>6, <1>7, SumIsSize
<1>10. \E i : Adds(i, f, rs) /\ Value(rs) = i[rs]
  BY <1>9, ValueAdds DEF f
<1>11. Value(rs) = Cardinality(D)
  BY <1>8, <1>9, <1>10
<1> QED
  BY <1>3, <1>4, <1>11 DEF rs

\* The running totals of a session count no unit twice: those of one start_time count what came before
\* the next.
LEMMA RunningTotals ==
  ASSUME IInv, NEW s \in Sessions, exporter[s].kind = "cumulative", NEW P \in SUBSET Counted(s)
  PROVE  LastsSum(P) \in Nat /\ LastsSum(P) <= Cardinality(Done(s))
<1> DEFINE D == {r.start : r \in P}
           f == Lasts(P)
           Fits(t, U) == /\ U \in SUBSET Done(s) /\ Last(P, t) = Cardinality(U)
                         /\ \E r \in P : r.start = t /\ \A u \in U : t < u.at /\ u.at <= r.time
           F == [t \in D |-> CHOOSE U : Fits(t, U)]
           n == Cardinality(Done(s))
<1>1. /\ IsFiniteSet(Done(s)) /\ n \in Nat
      /\ \A U \in SUBSET Done(s) : IsFiniteSet(U) /\ Cardinality(U) \in Nat
  BY DoneFinite DEF IInv
<1>2. \A r \in P : r.start \in Nat /\ r.value \in Nat /\ r.time \in Nat /\ Within(s, r.value, r.start, r.time)
  BY DEF IInv, EpochInv, MeasuredInv, RowOK, Counted
<1>3. \A r, q \in P : r.start < q.start => r.time <= q.start
  BY DEF IInv, EpochInv
<1>4. \A u \in Done(s) : u.at \in Nat
  BY DEF IInv, TypeInv, Done, Worked, Records
<1>5. ASSUME NEW t \in D
      PROVE  \E U : Fits(t, U)
  <2> DEFINE vs == {r.value : r \in Started(P, t)}
  <2>1. vs \in SUBSET Nat /\ vs # {}
    BY <1>2 DEF Started
  <2>2. ASSUME NEW r \in P PROVE r.value <= n
    <3>1. PICK U \in SUBSET Done(s) : r.value = Cardinality(U)
      BY <1>2 DEF Within
    <3> QED
      BY <1>1, <3>1, FS_Subset
  <2>3. \A v \in vs : v <= n
    BY <2>2 DEF Started
  <2>4. Max(vs) \in vs
    <3> HIDE DEF vs, n
    <3> QED
      BY <1>1, <2>1, <2>3, MaxOf
  <2>5. PICK r \in P : r.start = t /\ r.value = Last(P, t)
    BY <2>4 DEF Started, Last
  <2>6. PICK U \in SUBSET Done(s) : r.value = Cardinality(U) /\ \A u \in U : r.start < u.at /\ u.at <= r.time
    BY <1>2 DEF Within
  <2>7. Fits(t, U)
    BY <2>5, <2>6
  <2> QED
    BY <2>7
<1>6. \A t \in D : Fits(t, F[t])
  <2> HIDE DEF Fits, D
  <2> QED
    BY <1>5
<1>7. \A t \in D : F[t] \subseteq Done(s) /\ f[t] = Cardinality(F[t])
  <2>1. \A t \in D : f[t] = Last(P, t)
    BY DEF Lasts
  <2> HIDE DEF F, D, f
  <2> QED
    BY <1>6, <2>1
<1>8. ASSUME NEW t \in D, NEW v \in D, t < v
      PROVE  F[t] \cap F[v] = {}
  <2>1. PICK r \in P : r.start = t /\ \A u \in F[t] : t < u.at /\ u.at <= r.time
    <3> HIDE DEF F
    <3> QED
      BY <1>6
  <2>2. PICK q \in P : q.start = v /\ \A u \in F[v] : v < u.at /\ u.at <= q.time
    <3> HIDE DEF F
    <3> QED
      BY <1>6
  <2>3. r.time <= v
    BY <1>3, <1>8, <2>1, <2>2
  <2>4. r.time \in Nat /\ v \in Nat
    BY <1>2, <2>1, <2>2
  <2>5. \A u \in F[t] : u.at \in Nat
    <3> HIDE DEF F
    <3> QED
      BY <1>4, <1>7
  <2> HIDE DEF F, D
  <2> QED
    BY <2>1, <2>2, <2>3, <2>4, <2>5
<1>9. \A t, v \in D : t # v => F[t] \cap F[v] = {}
  <2>1. \A t \in D : t \in Nat
    BY <1>2
  <2> HIDE DEF F, D
  <2>2. \A t, v \in D : t # v => t < v \/ v < t
    BY <2>1
  <2> QED
    BY <1>8, <2>2
<1>10. IsFiniteSet(D) /\ DOMAIN f = D
  <2> DEFINE g == [r \in P |-> r.start]
  <2>1. g \in Surjection(P, D)
    BY DEF Surjection
  <2>2. P \in SUBSET Measured
    BY DEF Counted
  <2>3. IsFiniteSet(P)
    BY <2>2, CountedFinite DEF IInv
  <2>4. DOMAIN f = D
    BY DEF Lasts
  <2> HIDE DEF g, D, f
  <2> QED
    BY <2>1, <2>3, <2>4, FS_Surjection
<1> HIDE DEF F, f, D, n, Fits
<1>11. /\ \E i : Adds(i, f, D)
       /\ \A i : Adds(i, f, D) => i[D] = Cardinality(UNION {F[t] : t \in D})
  BY <1>1, <1>7, <1>9, <1>10, SumIsSize
<1>12. \E i : Adds(i, f, D) /\ LastsSum(P) = i[D]
  BY <1>10, <1>11, LastsAdd DEF f
<1>13. UNION {F[t] : t \in D} \in SUBSET Done(s)
  BY <1>7
<1>14. Cardinality(UNION {F[t] : t \in D}) \in Nat /\ Cardinality(UNION {F[t] : t \in D}) <= n
  BY <1>1, <1>13, FS_Subset DEF n
<1> QED
  BY <1>11, <1>12, <1>14 DEF n

LEMMA TotalOf ==
  ASSUME IInv, NEW s \in Sessions
  PROVE  /\ session_field_total(s) \in Nat /\ session_field_total(s) <= Cardinality(Done(s))
         /\ IsFiniteSet(Units(Deltas(s))) /\ \A r \in Deltas(s) : r.value \in Nat
         /\ IsFiniteSet(Deltas(s)) /\ Cardinality(Units(Deltas(s))) <= session_field_total(s)
         /\ session_source(s) = "otel" /\ Increments(s) =>
                session_field_total(s) = Cardinality(Units(Points(s)))
         /\ session_source(s) # "otel" =>
                \E t \in Times : session_field_total(s) = Cardinality({r \in Done(s) : r.at <= t})
<1> DEFINE total == session_field_total(s)
<1>1. TypeInv /\ MeasuredInv
  BY DEF IInv
<1>2. total = Value(Deltas(s)) + LastsSum(Points(s) \ Deltas(s))
  BY TotalIs
<1>3. /\ IsFiniteSet(Done(s)) /\ Cardinality(Done(s)) \in Nat
      /\ \A U \in SUBSET Done(s) : Cardinality(U) \in Nat /\ Cardinality(U) <= Cardinality(Done(s))
  BY <1>1, DoneFinite, FS_Subset
<1>4. CASE session_source(s) # "otel"
  <2>1. PICK t \in Times : Points(s) = {Imported(x) : x \in {y \in Done(s) : y.at <= t}}
    BY <1>4, PointsOf
  <2> DEFINE D == {y \in Done(s) : y.at <= t}
  <2>2. D \in SUBSET Done(s)
    OBVIOUS
  <2>3. /\ IsFiniteSet(Points(s)) /\ \A r \in Points(s) : r.value = 1 /\ r.temporality = "delta"
        /\ Value(Points(s)) = Cardinality(D)
    <3>1. Points(s) = {Imported(x) : x \in D}
      BY <2>1
    <3> HIDE DEF D
    <3> QED
      BY <2>2, <3>1, ImportedValue
  <2>4. Deltas(s) = Points(s)
    BY <2>3 DEF Deltas
  <2>5. Points(s) \ Deltas(s) = {}
    BY <2>4
  <2>6. \A r \in Points(s) : r.value \in Nat
    BY <2>3
  <2> HIDE DEF D
  <2>7. total = Cardinality(D)
    BY <1>2, <1>3, <2>2, <2>3, <2>4, <2>5, NoValue
  <2>8. IsFiniteSet(Units(Points(s))) /\ Cardinality(Units(Points(s))) = Cardinality(D)
    BY <2>3, <2>6, ValueIs
  <2>9. total \in Nat /\ total <= Cardinality(Done(s))
    BY <1>3, <2>2, <2>7
  <2>10. \E u \in Times : total = Cardinality({r \in Done(s) : r.at <= u})
    BY <2>7, Zenon DEF D
  <2>11. IsFiniteSet(Units(Deltas(s))) /\ Cardinality(Units(Deltas(s))) = total
    BY <2>4, <2>7, <2>8
  <2>12. IsFiniteSet(Deltas(s)) /\ \A r \in Deltas(s) : r.value \in Nat
    BY <2>3, <2>4, <2>6
  <2>13. Cardinality(Units(Deltas(s))) <= total
    BY <2>9, <2>11
  <2> QED
    BY <1>4, <2>9, <2>10, <2>11, <2>12, <2>13, Zenon
<1>5. CASE session_source(s) = "otel" /\ Increments(s)
  <2>1. Points(s) \in SUBSET Counted(s) /\ \A r \in Points(s) : r.temporality = "delta"
    BY <1>5, PointsOf DEF Increments
  <2>2. Counted(s) \in SUBSET Measured /\ Points(s) \in SUBSET Measured
    BY <2>1 DEF Counted
  <2>3. Deltas(s) = Points(s)
    BY <2>1 DEF Deltas
  <2>4. Points(s) \ Deltas(s) = {}
    BY <2>3
  <2>5. \A r \in Points(s) : r.value \in Nat
    BY <1>1, <2>2 DEF MeasuredInv, RowOK
  <2>6. IsFiniteSet(Points(s))
    BY <1>1, <2>2, CountedFinite
  <2>7. /\ Value(Points(s)) = Cardinality(Units(Points(s))) /\ Value(Points(s)) \in Nat
        /\ IsFiniteSet(Units(Points(s)))
    BY <2>5, <2>6, ValueIs
  <2>8. total = Cardinality(Units(Points(s)))
    BY <1>2, <2>3, <2>4, <2>7, NoValue
  <2>9. total <= Cardinality(Done(s))
    <3>1. Units(Points(s)) \in SUBSET Units(Counted(s))
      BY <2>1 DEF Units, Pile, Values
    <3>2. IsFiniteSet(Units(Counted(s))) /\ Cardinality(Units(Counted(s))) \in Nat
      BY <1>1, <2>2, CountedFinite
    <3>3. Cardinality(Units(Points(s))) <= Cardinality(Units(Counted(s)))
      BY <3>1, <3>2, FS_Subset
    <3>4. Cardinality(Units(Counted(s))) + Cardinality(Unsent(s)) = Cardinality(Done(s))
      BY <1>5 DEF IInv, DeltaInv
    <3>5. exporter[s].unsent \in [Models -> Nat]
      BY <1>1 DEF TypeInv, Exporters
    <3>6. Cardinality(Unsent(s)) \in Nat
      BY <3>5, PileIsSum, TelemetryAssumption DEF Unsent
    <3> QED
      BY <1>3, <2>7, <2>8, <3>2, <3>3, <3>4, <3>6
  <2>10. total \in Nat
    BY <2>7, <2>8
  <2> QED
    BY <1>5, <2>3, <2>5, <2>6, <2>7, <2>8, <2>9, <2>10
<1>6. CASE session_source(s) = "otel" /\ ~Increments(s)
  <2>1. /\ Exports(s) /\ Points(s) \in SUBSET Counted(s)
        /\ \A r \in Points(s) : r.temporality = exporter[s].kind
    BY <1>6, PointsOf
  <2>2. exporter[s].kind = "cumulative"
    BY <1>1, <1>6, <2>1 DEF TypeInv, Exporters, Exports, Increments
  <2>3. Deltas(s) = {}
    BY <2>1, <2>2 DEF Deltas
  <2>4. Points(s) \ Deltas(s) = Points(s)
    BY <2>3
  <2>5. LastsSum(Points(s)) \in Nat /\ LastsSum(Points(s)) <= Cardinality(Done(s))
    BY <2>1, <2>2, RunningTotals
  <2>6. total = LastsSum(Points(s))
    BY <1>2, <2>3, <2>4, <2>5, NoValue
  <2>7. Units(Deltas(s)) = {} /\ IsFiniteSet({}) /\ Cardinality({}) = 0
    BY <2>3, NoUnits, FS_EmptySet
  <2>8. Cardinality(Units(Deltas(s))) = 0
    BY <2>7
  <2>9. \A r \in Deltas(s) : r.value \in Nat
    BY <2>3
  <2>10. IsFiniteSet(Deltas(s)) /\ IsFiniteSet(Units(Deltas(s)))
    BY <2>3, <2>7
  <2> QED
    BY <1>6, <2>5, <2>6, <2>8, <2>9, <2>10
<1> QED
  BY <1>4, <1>5, <1>6

\* However often an export is sent again and the transcripts are read again, every unit of work is
\* counted once.
LEMMA InvCountsOnce == IInv => WorkCountsOnce
<1> SUFFICES ASSUME IInv PROVE WorkCountsOnce
  OBVIOUS
<1>1. TypeInv /\ MeasuredInv
  BY DEF IInv
<1>2. ASSUME NEW s \in Sessions, session_source(s) = "otel", Increments(s)
      PROVE  session_field_total(s) + Value(Undelivered(s)) + Held(s) = Cardinality(Done(s))
  <2> DEFINE P == Points(s)
             U == Undelivered(s)
  <2>1. session_field_total(s) = Cardinality(Units(P))
    BY <1>2, TotalOf
  <2>2. P = Counted(s) \cap metric_point
    BY <1>2, PointsOf
  <2>3. \A r \in Measured : r.field # None <=> r.field = "tokens_input"
    BY <1>1, TelemetryAssumption DEF MeasuredInv, RowOK, canonicalField
  <2>4. \A r \in Measured : r.source = "otel"
    BY <1>1 DEF MeasuredInv, RowOK
  <2>5. U = Counted(s) \ metric_point
    BY <2>3, <2>4 DEF Undelivered, Counted, Measured
  <2> HIDE DEF P, U
  <2>6. P \cup U = Counted(s) /\ P \cap U = {}
    BY <2>2, <2>5
  <2>7. Counted(s) \in SUBSET Measured
    BY DEF Counted
  <2>8. P \in SUBSET Measured /\ U \in SUBSET Measured
    BY <2>6, <2>7
  <2>9. /\ IsFiniteSet(P) /\ IsFiniteSet(Units(P)) /\ Cardinality(Units(P)) \in Nat
        /\ IsFiniteSet(U) /\ IsFiniteSet(Units(U)) /\ Cardinality(Units(U)) \in Nat
    BY <1>1, <2>8, CountedFinite
  <2>10. Value(U) = Cardinality(Units(U))
    <3>1. \A r \in U : r.value \in Nat
      BY <1>1, <2>8 DEF MeasuredInv, RowOK
    <3> QED
      BY <2>9, <3>1, ValueIs
  <2>11. Cardinality(Units(P \cup U)) = Cardinality(Units(P)) + Cardinality(Units(U))
    BY <2>6, <2>9, UnitsApart
  <2>12. Held(s) = Cardinality(Unsent(s)) /\ Cardinality(Unsent(s)) \in Nat
    <3>1. exporter[s].unsent \in [Models -> Nat]
      BY <1>1 DEF TypeInv, Exporters
    <3>2. /\ Cardinality(Unsent(s)) \in Nat
          /\ \E i : Adds(i, exporter[s].unsent, Models)
          /\ \A i : Adds(i, exporter[s].unsent, Models) => i[Models] = Cardinality(Unsent(s))
      BY <3>1, PileIsSum, TelemetryAssumption DEF Unsent
    <3>3. \E i : Adds(i, exporter[s].unsent, Models) /\ Held(s) = i[Models]
      BY <3>2, HeldAdds
    <3> QED
      BY <3>2, <3>3
  <2>13. Cardinality(Units(Counted(s))) + Cardinality(Unsent(s)) = Cardinality(Done(s))
    BY <1>2 DEF IInv, DeltaInv
  <2>14. Cardinality(Units(Counted(s))) = Cardinality(Units(P)) + Cardinality(Units(U))
    BY <2>6, <2>11
  <2>15. session_field_total(s) + Value(U) + Held(s) = Cardinality(Done(s))
    BY <2>1, <2>9, <2>10, <2>12, <2>13, <2>14
  <2> QED
    BY <2>15 DEF U
<1> QED
  BY <1>2, TotalOf DEF WorkCountsOnce

\* Every unit of work counts once (ingest.ts, transcripts.ts and the views): what has arrived, what
\* is on its way and what is yet to be collected make up the work of a session that exports increments;
\* what is known from transcripts alone is the work up to some moment; nothing ever exceeds the work.
THEOREM EveryUnitCountsOnce == Spec => []WorkCountsOnce
BY Invariant, InvCountsOnce, PTL

-----------------------------------------------------------------------------
(* The slices of a session.                                                *)

LEMMA HeldOnce ==
  ASSUME IInv, NEW s, NEW p, NEW q, NEW t \in Nat, HeldAt(s, p, t), HeldAt(s, q, t)
  PROVE  p = q
<1>1. PICK w \in Seen(s) : w.place = p /\ w.at <= t /\ \A v \in Seen(s) : v.at <= t => v.at <= w.at
  BY DEF HeldAt
<1>2. PICK x \in Seen(s) : x.place = q /\ x.at <= t /\ \A v \in Seen(s) : v.at <= t => v.at <= x.at
  BY DEF HeldAt
<1>3. \A v \in Seen(s) : v.at \in Nat /\ v \in Located(transcript)
  BY DEF IInv, TypeInv, Seen, Located, Records
<1>4. w.at = x.at
  BY <1>1, <1>2, <1>3
<1>5. w = x
  BY <1>3, <1>4 DEF IInv, WorkInv
<1> QED
  BY <1>1, <1>2, <1>5

Later(r) == {x.first : x \in {y \in session_branch : y.session = r.session /\ y.first > r.first}}
Ends(r) == IF Later(r) = {} THEN r.last ELSE Min({r.last, Min(Later(r)) - 1})
Slice(r) == [r EXCEPT !.last = Ends(r)]

\* A slice is a row up to the first moment of the next.
LEMMA SliceOf ==
  ASSUME IInv
  PROVE  /\ session_branch_slice = {Slice(r) : r \in session_branch}
         /\ \A r \in session_branch :
                /\ r.first \in Nat /\ Slice(r).session = r.session /\ Slice(r).place = r.place
                /\ Slice(r).first = r.first /\ Slice(r).last \in Nat
                /\ \A q \in session_branch :
                       q.session = r.session /\ q.first > r.first => Slice(r).last < q.first
<1>1. session_branch_slice = {Slice(r) : r \in session_branch}
  BY DEF session_branch_slice, Slice, Ends, Later
<1>2. \A r \in session_branch : r \in SpanRows /\ r.first \in Nat /\ r.last \in Nat
  BY DEF IInv, TypeInv, SpanRows
<1>3. ASSUME NEW r \in session_branch
      PROVE  /\ Ends(r) \in Nat
             /\ \A q \in session_branch : q.session = r.session /\ q.first > r.first => Ends(r) < q.first
  <2>1. \A q \in session_branch : q.session = r.session /\ q.first > r.first => q.first \in Later(r)
    BY DEF Later
  <2>2. Later(r) \in SUBSET Nat /\ \A a \in Later(r) : a > r.first
    BY <1>2 DEF Later
  <2>3. CASE Later(r) = {}
    BY <1>2, <2>1, <2>3 DEF Ends
  <2>4. CASE Later(r) # {}
    <3> DEFINE m == Min(Later(r))
               two == {r.last, m - 1}
    <3>1. m \in Later(r) /\ \A a \in Later(r) : m <= a
      BY <2>2, <2>4, MinOf
    <3> HIDE DEF m
    <3>2. m \in Nat /\ m > r.first /\ r.first \in Nat
      BY <1>2, <2>2, <3>1
    <3>3. two \in SUBSET Nat /\ two # {} /\ m - 1 \in two
      BY <1>2, <3>2
    <3> HIDE DEF two
    <3>4. Min(two) \in two /\ \A a \in two : Min(two) <= a
      BY <3>3, MinOf
    <3>5. Min(two) \in Nat /\ Min(two) <= m - 1
      BY <3>3, <3>4
    <3>6. Ends(r) = Min(two)
      BY <2>4 DEF Ends, two, m
    <3>7. \A a \in Later(r) : a \in Nat /\ Min(two) < a
      BY <2>2, <3>1, <3>2, <3>5
    <3> QED
      BY <2>1, <3>5, <3>6, <3>7
  <2> QED
    BY <2>3, <2>4
<1>4. ASSUME NEW r \in session_branch
      PROVE  /\ Slice(r).session = r.session /\ Slice(r).place = r.place
             /\ Slice(r).first = r.first /\ Slice(r).last = Ends(r)
  BY <1>2 DEF Slice, SpanRows
<1> QED
  BY <1>1, <1>2, <1>3, <1>4

\* The points of session s that fall in a slice.
In(s, slice) == {r \in Points(s) : r.temporality # "cumulative" /\ r.time \in slice.first..slice.last}

LEMMA SlicesApart ==
  ASSUME IInv, NEW s \in Sessions
  PROVE  /\ IsFiniteSet(Splits(s))
         /\ \A x \in Splits(s) : In(s, x) \in SUBSET Deltas(s)
         /\ \A x, y \in Splits(s) : x # y => In(s, x) \cap In(s, y) = {}
         /\ branch_count(s) = 1 => \E x : Splits(s) = {x}
<1> DEFINE own == {r \in session_branch : r.session = s}
           g == [r \in own |-> Slice(r)]
<1>1. /\ session_branch_slice = {Slice(r) : r \in session_branch}
      /\ \A r \in session_branch :
             /\ r.first \in Nat /\ Slice(r).session = r.session /\ Slice(r).place = r.place
             /\ Slice(r).first = r.first /\ Slice(r).last \in Nat
             /\ \A q \in session_branch :
                    q.session = r.session /\ q.first > r.first => Slice(r).last < q.first
  BY SliceOf
<1>2. Splits(s) = {Slice(r) : r \in own}
  BY <1>1 DEF Splits
<1>3. IsFiniteSet(own)
  <2>1. own \in SUBSET session_branch
    OBVIOUS
  <2> HIDE DEF own
  <2> QED
    BY <2>1, FS_Subset DEF IInv, TypeInv
<1>4. IsFiniteSet(Splits(s))
  <2>1. g \in Surjection(own, Splits(s))
    BY <1>2 DEF Surjection
  <2> HIDE DEF g, own
  <2> QED
    BY <1>3, <2>1, FS_Surjection
<1>5. \A x : In(s, x) \in SUBSET Deltas(s)
  BY DEF In, Deltas
<1>6. ASSUME NEW x \in Splits(s), NEW y \in Splits(s), x # y
      PROVE  In(s, x) \cap In(s, y) = {}
  <2>1. PICK r \in own : x = Slice(r)
    BY <1>2
  <2>2. PICK q \in own : y = Slice(q)
    BY <1>2
  <2>3. r \in session_branch /\ q \in session_branch /\ r.session = s /\ q.session = s /\ r # q
    BY <1>6, <2>1, <2>2
  <2>4. r.place # q.place
    BY <2>3 DEF IInv, BranchInv
  <2>5. r.first \in Nat /\ q.first \in Nat
    BY <1>1, <2>3
  <2>6. HeldAt(s, r.place, r.first) /\ HeldAt(s, q.place, q.first)
    BY <2>3 DEF IInv, BranchInv
  <2>7. r.first # q.first
    BY <2>4, <2>5, <2>6, HeldOnce
  <2>8. r.first < q.first \/ q.first < r.first
    BY <2>5, <2>7
  <2>9. /\ x.first = r.first /\ y.first = q.first /\ x.last \in Nat /\ y.last \in Nat
        /\ q.first > r.first => x.last < y.first
        /\ r.first > q.first => y.last < x.first
    BY <1>1, <2>1, <2>2, <2>3
  <2>10. x.last < y.first \/ y.last < x.first
    BY <2>5, <2>8, <2>9
  <2>11. (x.first..x.last) \cap (y.first..y.last) = {}
    BY <2>5, <2>9, <2>10
  <2> QED
    BY <2>11 DEF In
<1>7. ASSUME branch_count(s) = 1
      PROVE  \E x : Splits(s) = {x}
  <2>1. Cardinality(own) = 1
    BY <1>7 DEF branch_count
  <2> HIDE DEF own
  <2>2. PICK r : own = {r}
    BY <1>3, <2>1, FS_Singleton
  <2>3. Splits(s) = {Slice(r)}
    BY <1>2, <2>2
  <2> QED
    BY <2>3
<1> QED
  BY <1>4, <1>5, <1>6, <1>7

BranchSum(s, S) == MapThenSumSet(LAMBDA slice : Value(In(s, slice)), S)

LEMMA BranchAdds ==
  ASSUME NEW s, NEW S, \E i : Adds(i, [x \in S |-> Value(In(s, x))], S)
  PROVE  \E i : Adds(i, [x \in S |-> Value(In(s, x))], S) /\ BranchSum(s, S) = i[S]
<1> DEFINE f == [x \in S |-> Value(In(s, x))]
           Goes(i) == i = [t \in SUBSET S |->
               IF t = {} THEN 0 ELSE Value(In(s, Some(t))) + i[t \ {Some(t)}]]
           fold == CHOOSE i : Goes(i)
<1>1. BranchSum(s, S) = fold[S]
  BY DEF BranchSum, MapThenSumSet, MapThenFoldSet, Some
<1>2. \A t \in SUBSET S : t # {} => f[Some(t)] = Value(In(s, Some(t)))
  BY DEF Some
<1>3. \A i : Adds(i, f, S) <=> Goes(i)
  BY <1>2 DEF Adds
<1>4. \E i : Goes(i)
  BY <1>3
<1>5. Goes(fold)
  <2> HIDE DEF Goes
  <2> QED
    BY <1>4
<1> HIDE DEF fold
<1> QED
  BY <1>1, <1>3, <1>5

SplitSum(S) == MapThenSumSet(Split, S)

LEMMA SplitAdds ==
  ASSUME NEW S, \E i : Adds(i, [x \in S |-> Split(x)], S)
  PROVE  \E i : Adds(i, [x \in S |-> Split(x)], S) /\ SplitSum(S) = i[S]
<1> DEFINE f == [x \in S |-> Split(x)]
           Goes(i) == i = [t \in SUBSET S |->
               IF t = {} THEN 0 ELSE Split(Some(t)) + i[t \ {Some(t)}]]
           fold == CHOOSE i : Goes(i)
<1>1. SplitSum(S) = fold[S]
  BY DEF SplitSum, MapThenSumSet, MapThenFoldSet, Some
<1>2. \A t \in SUBSET S : t # {} => f[Some(t)] = Split(Some(t))
  BY DEF Some
<1>3. \A i : Adds(i, f, S) <=> Goes(i)
  BY <1>2 DEF Adds
<1>4. \E i : Goes(i)
  BY <1>3
<1>5. Goes(fold)
  <2> HIDE DEF Goes
  <2> QED
    BY <1>4
<1> HIDE DEF fold
<1> QED
  BY <1>1, <1>3, <1>5

LEMMA BranchSumIs ==
  ASSUME NEW s, NEW x, Value(In(s, x)) \in Nat
  PROVE  BranchSum(s, {x}) = Value(In(s, x))
<1> DEFINE n == Value(In(s, x))
           N == 1..n
           S == {x}
           f == [y \in S |-> Value(In(s, y))]
           F == [y \in S |-> N]
<1>1. IsFiniteSet(N) /\ Cardinality(N) = n
  <2> HIDE DEF n
  <2>1. n \in Nat
    BY DEF n
  <2> QED
    BY <2>1, FS_Interval
<1>2. IsFiniteSet(S)
  BY FS_Singleton
<1>3. \A y \in S : f[y] = n /\ F[y] = N
  OBVIOUS
<1>4. \A y, z \in S : y # z => F[y] \cap F[z] = {}
  OBVIOUS
<1>5. UNION {F[y] : y \in S} = N
  OBVIOUS
<1> HIDE DEF f, F, N, n, S
<1>6. \A y \in S : F[y] \subseteq N /\ f[y] = Cardinality(F[y])
  BY <1>1, <1>3
<1>7. /\ \E i : Adds(i, f, S)
      /\ \A i : Adds(i, f, S) => i[S] = Cardinality(UNION {F[y] : y \in S})
  BY <1>1, <1>2, <1>4, <1>6, SumIsSize
<1>8. \E i : Adds(i, f, S) /\ BranchSum(s, S) = i[S]
  BY <1>7, BranchAdds DEF f
<1>9. BranchSum(s, S) = n
  BY <1>1, <1>5, <1>7, <1>8
<1> QED
  BY <1>9 DEF S, n

\* If what the slices are credited with are the sizes of sets of which no two share a member, and these
\* are no larger together than W, then so is the sum.
LEMMA CreditsFit ==
  ASSUME NEW S, IsFiniteSet(S), NEW W, IsFiniteSet(W), NEW F,
         \A x \in S : F[x] \subseteq W /\ Split(x) = Cardinality(F[x]),
         \A x, y \in S : x # y => F[x] \cap F[y] = {}
  PROVE  SplitSum(S) \in Nat /\ SplitSum(S) <= Cardinality(W)
<1> DEFINE f == [x \in S |-> Split(x)]
<1>1. \A x \in S : F[x] \subseteq W /\ f[x] = Cardinality(F[x])
  OBVIOUS
<1> HIDE DEF f
<1>2. /\ \E i : Adds(i, f, S)
      /\ \A i : Adds(i, f, S) => i[S] = Cardinality(UNION {F[x] : x \in S})
  BY <1>1, SumIsSize
<1>3. \E i : Adds(i, f, S) /\ SplitSum(S) = i[S]
  BY <1>2, SplitAdds DEF f
<1>4. UNION {F[x] : x \in S} \in SUBSET W
  OBVIOUS
<1>5. /\ Cardinality(UNION {F[x] : x \in S}) \in Nat
      /\ Cardinality(UNION {F[x] : x \in S}) <= Cardinality(W)
  BY <1>4, FS_Subset, FS_CardinalityType
<1> QED
  BY <1>2, <1>3, <1>5

LEMMA InvCreditsOnce == IInv => CreditedOnce
<1> SUFFICES ASSUME IInv, NEW s \in Sessions, NamesAreDistinct(s)
             PROVE  SplitSum({x \in Splits(s) : Split(x) # None}) <= session_field_total(s)
  BY DEF CreditedOnce, SplitSum
<1> DEFINE S == {x \in Splits(s) : Split(x) # None}
           total == session_field_total(s)
<1>1. /\ total \in Nat
      /\ IsFiniteSet(Units(Deltas(s))) /\ IsFiniteSet(Deltas(s)) /\ \A r \in Deltas(s) : r.value \in Nat
      /\ Cardinality(Units(Deltas(s))) <= total
  BY TotalOf
<1>2. /\ IsFiniteSet(Splits(s))
      /\ \A x \in Splits(s) : In(s, x) \in SUBSET Deltas(s)
      /\ \A x, y \in Splits(s) : x # y => In(s, x) \cap In(s, y) = {}
      /\ branch_count(s) = 1 => \E x : Splits(s) = {x}
  BY SlicesApart
<1>3. \A x \in Splits(s) : x.session = s /\ x \in session_branch_slice
  BY DEF Splits
<1>4. S \in SUBSET Splits(s)
  OBVIOUS
<1>5. IsFiniteSet(S)
  BY <1>2, <1>4, FS_Subset
<1>6. CASE branch_count(s) = 1
  <2> DEFINE W == 1..total
             F == [x \in S |-> W]
  <2>1. IsFiniteSet(W) /\ Cardinality(W) = total
    BY <1>1, FS_Interval
  <2>2. \A x \in S : Split(x) = total
    BY <1>3, <1>6 DEF Split
  <2>3. \A x \in S : F[x] \subseteq W /\ Split(x) = Cardinality(F[x])
    BY <2>1, <2>2
  <2>4. \A x, y \in S : x # y => F[x] \cap F[y] = {}
    BY <1>2, <1>4, <1>6
  <2> HIDE DEF F, W, S
  <2>5. SplitSum(S) \in Nat /\ SplitSum(S) <= Cardinality(W)
    BY <1>5, <2>1, <2>3, <2>4, CreditsFit
  <2> QED
    BY <2>1, <2>5 DEF S
<1>7. CASE AllCumulative(s) /\ branch_count(s) > 1
  <2>1. \A x \in Splits(s) : Split(x) = None
    BY <1>3, <1>7 DEF Split
  <2>2. S = {}
    BY <2>1
  <2> DEFINE F == [x \in S |-> {}]
  <2>3. /\ IsFiniteSet({}) /\ Cardinality({}) = 0
        /\ \A x \in S : F[x] \subseteq {} /\ Split(x) = Cardinality(F[x])
        /\ \A x, y \in S : x # y => F[x] \cap F[y] = {}
    BY <2>2, FS_EmptySet
  <2> HIDE DEF F, S
  <2>4. SplitSum(S) \in Nat /\ SplitSum(S) <= Cardinality({})
    BY <1>5, <2>3, CreditsFit
  <2> QED
    BY <1>1, <2>3, <2>4 DEF S
<1>8. CASE ~ (branch_count(s) = 1) /\ ~ (AllCumulative(s) /\ branch_count(s) > 1)
  <2> DEFINE W == Units(Deltas(s))
             F == [x \in S |-> Units(In(s, x))]
  <2>1. ASSUME NEW x \in Splits(s)
        PROVE  Split(x) = Cardinality(Units(In(s, x))) /\ Units(In(s, x)) \subseteq W
    <3>1. Split(x) = branch_field_total(s, Branch(x.place))
      BY <1>3, <1>8 DEF Split
    <3>2. {y \in session_branch_slice : y.session = s /\ Branch(y.place) = Branch(x.place)} = {x}
      BY <1>3 DEF NamesAreDistinct, Splits
    <3>3. branch_field_total(s, Branch(x.place)) = BranchSum(s, {x})
      <4>1. \A b : branch_field_total(s, b) =
                       BranchSum(s, {y \in session_branch_slice : y.session = s /\ Branch(y.place) = b})
        BY DEF branch_field_total, BranchSum, In
      <4> QED
        BY <3>2, <4>1, Zenon
    <3>4. In(s, x) \in SUBSET Deltas(s)
      BY <1>2
    <3>5. IsFiniteSet(In(s, x)) /\ \A r \in In(s, x) : r.value \in Nat
      BY <1>1, <3>4, FS_Subset
    <3>6. Value(In(s, x)) = Cardinality(Units(In(s, x))) /\ Value(In(s, x)) \in Nat
      BY <3>5, ValueIs
    <3>7. BranchSum(s, {x}) = Value(In(s, x))
      BY <3>6, BranchSumIs
    <3>8. Units(In(s, x)) \subseteq W
      BY <3>4 DEF Units, Pile, Values
    <3> QED
      BY <3>1, <3>3, <3>6, <3>7, <3>8, Zenon
  <2>2. \A x \in S : F[x] \subseteq W /\ Split(x) = Cardinality(F[x])
    BY <2>1
  <2>3. ASSUME NEW x \in S, NEW y \in S, x # y PROVE F[x] \cap F[y] = {}
    <3>1. In(s, x) \cap In(s, y) = {}
      BY <1>2, <2>3
    <3>2. Units(In(s, x)) \cap Units(In(s, y)) = {}
      BY <3>1 DEF Units, Pile
    <3> QED
      BY <3>2
  <2> HIDE DEF F, W, S
  <2>4. SplitSum(S) \in Nat /\ SplitSum(S) <= Cardinality(W)
    BY <1>1, <1>5, <2>2, <2>3, CreditsFit DEF W
  <2>5. Cardinality(W) \in Nat
    BY <1>1, FS_CardinalityType DEF W
  <2> QED
    BY <1>1, <2>4, <2>5 DEF S, W
<1> QED
  BY <1>6, <1>7, <1>8

\* What the branches of a session are credited with never adds up to more than the session did
\* (session_branch_slice): no moment is in two slices, for a session was at one place at a time and
\* every row begins when the session was there, in whatever order reports and imports came.
THEOREM NoUnitIsCreditedTwice == Spec => []CreditedOnce
BY Invariant, InvCreditsOnce, PTL

=============================================================================
