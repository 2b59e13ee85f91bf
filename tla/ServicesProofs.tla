--------------------------- MODULE ServicesProofs ---------------------------
(***************************************************************************)
(* The chat and the model router, for every number of threads and          *)
(* handlers, every route and every budget: a request is one inference,     *)
(* what a day costs is bounded, and a paid profile that reports no usage   *)
(* is not asked again.                                                     *)
(*                                                                         *)
(* And the search, for every corpus, number of workers and sessions: the   *)
(* index is true of the corpus and of the store, and with one operator of  *)
(* the ledger what is forgotten is no hit.                                 *)
(***************************************************************************)
EXTENDS ChatSessions, SearchQueries, FiniteSetTheorems, SequenceTheorems, WellFoundedInduction, TLAPS

(* Induction over an interval, for a set of numbers                         *)

LEMMA SetInduction ==
  ASSUME NEW P, 0 \in P, \A n \in Nat : n \in P => n + 1 \in P
  PROVE  Nat \subseteq P
<1> DEFINE R == OpToRel(<, Nat)
<1> DEFINE T == Nat \ P
<1>1. IsWellFoundedOn(R, Nat)
  BY NatLessThanWellFounded
<1>2. \A x, y \in Nat : y < x => <<y, x>> \in R
  BY DEF OpToRel
<1> HIDE DEF R
<1>3. SUFFICES ASSUME T # {} PROVE FALSE
  OBVIOUS
<1>4. PICK x \in T : \A y \in T : ~ (<<y, x>> \in R)
  BY <1>1, <1>3, WFMin
<1>5. x \in Nat /\ x # 0
  OBVIOUS
<1>6. x - 1 \in Nat /\ x - 1 < x /\ x = (x - 1) + 1
  BY <1>5
<1>7. x - 1 \in T
  BY <1>6
<1>8. <<x - 1, x>> \in R
  BY <1>2, <1>5, <1>6
<1> QED
  BY <1>4, <1>7, <1>8

LEMMA IntervalInduction ==
  ASSUME NEW n \in Nat, NEW P, 0 \in P, \A s \in 1 .. n : s - 1 \in P => s \in P
  PROVE  0 .. n \subseteq P
<1> DEFINE Q == {s \in Nat : s <= n => s \in P}
<1>1. 0 \in Q
  OBVIOUS
<1>2. ASSUME NEW s \in Nat, s \in Q
      PROVE  s + 1 \in Q
  <2>1. CASE s + 1 <= n
    <3>1. s + 1 \in 1 .. n /\ (s + 1) - 1 = s /\ s \in P
      BY <1>2, <2>1
    <3> QED
      BY <3>1
  <2> QED
    BY <1>2, <2>1
<1>3. Nat \subseteq Q
  <2> HIDE DEF Q
  <2> QED
    BY <1>1, <1>2, SetInduction
<1> QED
  BY <1>3

-----------------------------------------------------------------------------
(* What entries cost                                                        *)

\* What a ledger's entries are, on the days up to the given one.
Dearest == Max(Costs \cup {Estimate})

UsageEntries == [profile : {Route[i] : i \in DOMAIN Route} \cup {"no_model"},
                 day : 1 .. LastDay, cost : 0 .. Dearest, estimated : BOOLEAN]

CostRun(f, n, l, S) ==
    f = [i \in 0 .. n |-> IF i = 0 THEN 0 ELSE f[i - 1] + (IF i \in S THEN l[i].cost ELSE 0)]

LEMMA CostUnfolds ==
  ASSUME NEW l, NEW S, Len(l) \in Nat
  PROVE  \E f : CostRun(f, Len(l), l, S) /\ CostOf(l, S) = f[Len(l)]
<1> DEFINE P == {n \in 0 .. Len(l) : \E f : CostRun(f, n, l, S)}
<1>1. 0 \in P
  <2>1. CostRun([i \in 0 .. 0 |-> 0], 0, l, S)
    BY DEF CostRun
  <2> QED
    BY <2>1
<1>2. ASSUME NEW n \in 1 .. Len(l), n - 1 \in P
      PROVE  n \in P
  <2>1. PICK f : CostRun(f, n - 1, l, S)
    BY <1>2
  <2> DEFINE g == [i \in 0 .. n |-> IF i = n THEN f[n - 1] + (IF n \in S THEN l[n].cost ELSE 0) ELSE f[i]]
  <2>2. \A i \in 0 .. n : g[i] = IF i = 0 THEN 0 ELSE g[i - 1] + (IF i \in S THEN l[i].cost ELSE 0)
    <3> TAKE i \in 0 .. n
    <3>1. CASE i = n
      BY <3>1
    <3>2. CASE i # n
      <4>1. i \in 0 .. n - 1
        BY <3>2
      <4>2. g[i] = f[i] /\ (i # 0 => g[i - 1] = f[i - 1])
        BY <3>2, <4>1
      <4> QED
        BY <2>1, <4>1, <4>2 DEF CostRun
    <3> QED
      BY <3>1, <3>2
  <2>3. CostRun(g, n, l, S)
    BY <2>2 DEF CostRun
  <2> HIDE DEF g
  <2> QED
    BY <2>3
<1>3. \E f : CostRun(f, Len(l), l, S)
  <2>1. 0 .. Len(l) \subseteq P
    <3> HIDE DEF P
    <3> QED
      BY <1>1, <1>2, IntervalInduction
  <2> QED
    BY <2>1
<1> DEFINE sum == CHOOSE f : CostRun(f, Len(l), l, S)
<1>4. CostRun(sum, Len(l), l, S)
  BY <1>3
<1>5. CostOf(l, S) = sum[Len(l)]
  BY DEF CostOf, CostRun
<1> QED
  BY <1>4, <1>5

\* A sum is a number, agrees with another one as far as their entries agree,
\* and grows from there.
LEMMA CostGrows ==
  ASSUME NEW n \in Nat, NEW k \in Nat, n <= k, NEW l, NEW v, NEW S, NEW T,
         NEW f, CostRun(f, n, l, S), NEW g, CostRun(g, k, v, T),
         \A i \in 1 .. k : v[i].cost \in Nat,
         \A i \in 1 .. n : l[i] = v[i] /\ (i \in S <=> i \in T)
  PROVE  f[n] = g[n] /\ f[n] \in Nat /\ g[k] \in Nat /\ f[n] <= g[k]
<1> DEFINE P == {i \in 0 .. k : /\ g[i] \in Nat
                                /\ i <= n => f[i] = g[i]
                                /\ i >= n => g[n] \in Nat /\ g[n] <= g[i]}
<1>1. 0 \in P
  BY DEF CostRun
<1>2. ASSUME NEW i \in 1 .. k, i - 1 \in P
      PROVE  i \in P
  <2> DEFINE c == IF i \in T THEN v[i].cost ELSE 0
  <2>1. i \in 0 .. k /\ i # 0 /\ i - 1 \in 0 .. k /\ c \in Nat
    BY <1>2
  <2>2. g[i] = g[i - 1] + c
    BY <2>1 DEF CostRun
  <2>3. g[i] \in Nat
    BY <1>2, <2>1, <2>2
  <2>4. ASSUME i <= n
        PROVE  f[i] = g[i]
    <3>1. i \in 0 .. n /\ l[i] = v[i] /\ (i \in S <=> i \in T) /\ f[i - 1] = g[i - 1]
      BY <1>2, <2>4
    <3>2. f[i] = f[i - 1] + (IF i \in S THEN l[i].cost ELSE 0)
      BY <2>1, <3>1 DEF CostRun
    <3> QED
      BY <2>2, <3>1, <3>2
  <2>5. ASSUME i >= n
        PROVE  g[n] \in Nat /\ g[n] <= g[i]
    <3>1. CASE i = n
      BY <2>3, <3>1
    <3>2. CASE i # n
      <4>1. i - 1 >= n /\ g[n] \in Nat /\ g[n] <= g[i - 1] /\ g[i - 1] \in Nat
        BY <1>2, <2>5, <3>2
      <4> QED
        BY <2>1, <2>2, <4>1
    <3> QED
      BY <3>1, <3>2
  <2> QED
    BY <2>1, <2>3, <2>4, <2>5
<1>3. 0 .. k \subseteq P
  <2> HIDE DEF P
  <2> QED
    BY <1>1, <1>2, IntervalInduction
<1>4. n \in P /\ k \in P
  BY <1>3
<1> QED
  BY <1>4

LEMMA CostIsNat ==
  ASSUME NEW l, NEW S, Len(l) \in Nat, \A i \in 1 .. Len(l) : l[i].cost \in Nat
  PROVE  CostOf(l, S) \in Nat
<1> DEFINE n == Len(l)
<1>1. PICK f : CostRun(f, n, l, S) /\ CostOf(l, S) = f[n]
  BY CostUnfolds
<1>2. n \in Nat /\ n <= n /\ \A i \in 1 .. n : l[i].cost \in Nat /\ l[i] = l[i]
  OBVIOUS
<1> HIDE DEF n
<1>3. f[n] \in Nat
  BY <1>1, <1>2, CostGrows
<1> QED
  BY <1>1, <1>3

LEMMA CostOfMore ==
  ASSUME NEW l, NEW v, NEW S, NEW T, Len(l) \in Nat, Len(v) \in Nat, Len(l) <= Len(v),
         \A i \in 1 .. Len(v) : v[i].cost \in Nat,
         \A i \in 1 .. Len(l) : l[i] = v[i] /\ (i \in S <=> i \in T)
  PROVE  CostOf(l, S) \in Nat /\ CostOf(v, T) \in Nat /\ CostOf(l, S) <= CostOf(v, T)
<1> DEFINE n == Len(l)
<1> DEFINE k == Len(v)
<1>1. PICK f : CostRun(f, n, l, S) /\ CostOf(l, S) = f[n]
  BY CostUnfolds
<1>2. PICK g : CostRun(g, k, v, T) /\ CostOf(v, T) = g[k]
  BY CostUnfolds
<1>3. n \in Nat /\ k \in Nat /\ n <= k /\ (\A i \in 1 .. k : v[i].cost \in Nat)
      /\ \A i \in 1 .. n : l[i] = v[i] /\ (i \in S <=> i \in T)
  OBVIOUS
<1> HIDE DEF n, k
<1>4. f[n] \in Nat /\ g[k] \in Nat /\ f[n] <= g[k]
  BY <1>1, <1>2, <1>3, CostGrows
<1> QED
  BY <1>1, <1>2, <1>4

LEMMA CostOfOneMore ==
  ASSUME NEW l, NEW v, NEW S, NEW T, Len(l) \in Nat, Len(v) = Len(l) + 1,
         \A i \in 1 .. Len(v) : v[i].cost \in Nat,
         \A i \in 1 .. Len(l) : l[i] = v[i] /\ (i \in S <=> i \in T)
  PROVE  CostOf(v, T) = CostOf(l, S) + (IF Len(v) \in T THEN v[Len(v)].cost ELSE 0)
<1> DEFINE n == Len(l)
<1> DEFINE k == Len(v)
<1>1. PICK f : CostRun(f, n, l, S) /\ CostOf(l, S) = f[n]
  BY CostUnfolds
<1>0. Len(v) \in Nat
  OBVIOUS
<1>2. PICK g : CostRun(g, k, v, T) /\ CostOf(v, T) = g[k]
  BY <1>0, CostUnfolds
<1>3. n \in Nat /\ k \in Nat /\ n <= k /\ k = n + 1 /\ (\A i \in 1 .. k : v[i].cost \in Nat)
      /\ \A i \in 1 .. n : l[i] = v[i] /\ (i \in S <=> i \in T)
  OBVIOUS
<1> HIDE DEF n, k
<1>4. f[n] = g[n]
  BY <1>1, <1>2, <1>3, CostGrows
<1>5. k \in 0 .. k /\ k # 0 /\ k - 1 = n
  <2>1. n \in Nat /\ k \in Nat /\ k = n + 1
    BY <1>3
  <2> QED
    BY <2>1
<1>6. g[k] = g[n] + (IF k \in T THEN v[k].cost ELSE 0)
  BY <1>2, <1>5 DEF CostRun
<1> QED
  BY <1>1, <1>2, <1>4, <1>6 DEF k

-----------------------------------------------------------------------------
(* Numbers and finite sets                                                  *)

\* A finite set of numbers has a greatest one.
LEMMA GreatestExists ==
  ASSUME NEW S \in SUBSET Nat, S # {}, IsFiniteSet(S)
  PROVE  \E x \in S : \A y \in S : x >= y
<1> DEFINE P == {n \in Nat : \A T \in SUBSET Nat :
                    IsFiniteSet(T) /\ Cardinality(T) = n /\ T # {} => \E x \in T : \A y \in T : x >= y}
<1>1. 0 \in P
  BY FS_EmptySet
<1>2. ASSUME NEW n \in Nat, n \in P
      PROVE  n + 1 \in P
  <2> SUFFICES ASSUME NEW T \in SUBSET Nat, IsFiniteSet(T), Cardinality(T) = n + 1, T # {}
               PROVE  \E x \in T : \A y \in T : x >= y
    OBVIOUS
  <2>1. PICK z \in T : TRUE
    OBVIOUS
  <2>2. IsFiniteSet(T \ {z}) /\ Cardinality(T \ {z}) = n
    <3>1. z \in T /\ IsFiniteSet(T)
      BY <2>1
    <3>2. IsFiniteSet(T \ {z}) /\ Cardinality(T \ {z}) = Cardinality(T) - 1
      BY <3>1, FS_RemoveElement
    <3> QED
      BY <3>2
  <2>3. CASE T \ {z} = {}
    BY <2>1, <2>3
  <2>4. CASE T \ {z} # {}
    <3>1. PICK x \in T \ {z} : \A y \in T \ {z} : x >= y
      BY <1>2, <2>2, <2>4
    <3>2. x \in Nat /\ z \in Nat
      BY <2>1, <3>1
    <3>3. CASE x >= z
      BY <3>1, <3>3
    <3>4. CASE ~(x >= z)
      BY <2>1, <3>1, <3>2, <3>4
    <3> QED
      BY <3>3, <3>4
  <2> QED
    BY <2>3, <2>4
<1>3. Nat \subseteq P
  <2> HIDE DEF P
  <2> QED
    BY <1>1, <1>2, SetInduction
<1>4. Cardinality(S) \in Nat
  BY FS_CardinalityType
<1> QED
  BY <1>3, <1>4

LEMMA DearestIs ==
  Dearest \in Nat /\ Estimate \in 0 .. Dearest /\ Costs \subseteq 0 .. Dearest
<1> DEFINE S == Costs \cup {Estimate}
<1>1. S \in SUBSET Nat /\ S # {} /\ IsFiniteSet(S)
  BY ModelRouterAssumption, FS_Singleton, FS_Union DEF ValidRouting
<1>2. Dearest \in S /\ \A y \in S : Dearest >= y
  <2>1. Dearest = CHOOSE x \in S : \A y \in S : x >= y
    BY DEF Dearest, Max
  <2>2. \E x \in S : \A y \in S : x >= y
    <3> HIDE DEF S
    <3> QED
      BY <1>1, GreatestExists
  <2> HIDE DEF S
  <2> QED
    BY <2>1, <2>2
<1> QED
  BY <1>1, <1>2

LEMMA LeastOfTwo ==
  ASSUME NEW a \in Nat, NEW b \in Nat
  PROVE  Min({a, b}) \in Nat /\ Min({a, b}) <= a
<1>1. \E x \in {a, b} : \A y \in {a, b} : x <= y
  <2>1. CASE a <= b
    BY <2>1
  <2>2. CASE ~(a <= b)
    <3>1. b <= a /\ b <= b
      BY <2>2
    <3> QED
      BY <3>1
  <2> QED
    BY <2>1, <2>2
<1>2. Min({a, b}) \in {a, b} /\ \A y \in {a, b} : Min({a, b}) <= y
  BY <1>1 DEF Min
<1> QED
  BY <1>2

\* Sets of threads that differ in one thread at most.
LEMMA OneThread ==
  ASSUME NEW t \in Threads, NEW A \in SUBSET Threads, NEW B \in SUBSET Threads,
         \A s \in Threads \ {t} : s \in A <=> s \in B
  PROVE  /\ Cardinality(A) \in Nat /\ Cardinality(B) \in Nat /\ Cardinality(Threads) \in Nat
         /\ Cardinality(A) <= Cardinality(Threads) /\ Cardinality(B) <= Cardinality(Threads)
         /\ t \notin B => Cardinality(B) <= Cardinality(A)
         /\ t \notin B /\ t \in A => Cardinality(A) = Cardinality(B) + 1
         /\ t \in A /\ t \in B => A = B
<1>0. IsFiniteSet(Threads)
  BY ModelRouterAssumption
<1>1. IsFiniteSet(A) /\ Cardinality(A) \in Nat /\ Cardinality(A) <= Cardinality(Threads)
  BY <1>0, FS_Subset, FS_CardinalityType
<1>2. IsFiniteSet(B) /\ Cardinality(B) \in Nat /\ Cardinality(B) <= Cardinality(Threads)
  BY <1>0, FS_Subset, FS_CardinalityType
<1>3. Cardinality(Threads) \in Nat
  BY <1>0, FS_CardinalityType
<1>4. ASSUME t \notin B, t \in A
      PROVE  Cardinality(A) = Cardinality(B) + 1
  <2>1. A = B \cup {t}
    BY <1>4
  <2> QED
    BY <1>2, <1>4, <2>1, FS_AddElement
<1>5. ASSUME t \notin B, t \notin A
      PROVE  A = B
  BY <1>5
<1>6. ASSUME t \in B, t \in A
      PROVE  A = B
  BY <1>6
<1>7. ASSUME t \notin B
      PROVE  Cardinality(B) <= Cardinality(A)
  BY <1>1, <1>2, <1>4, <1>5, <1>7
<1> QED
  BY <1>1, <1>2, <1>3, <1>4, <1>6, <1>7

-----------------------------------------------------------------------------
(* The invariant of the router                                              *)

Profiles == {Route[i] : i \in DOMAIN Route}
Results == {"none", "no model", "answer", "error"}
Phases == {"none", "select", "selected", "asking", "recorded", "done"}

CallRecords == [pc : Phases, step : Nat, day : Nat, cap : Nat, local : BOOLEAN, result : Results, at : Nat]

\* A call on its way knows its day, its step and a cap that the day allows;
\* one that is done has its entry in the file.
CallOK(r, now, booked, written) ==
    /\ r \in CallRecords
    /\ r.step <= Len(Route) + 1 /\ r.at <= booked
    /\ r.pc \in {"select", "selected", "asking"} => r.step >= 1 /\ r.day \in 1 .. now /\ r.cap <= DayCap
    /\ r.pc \in {"selected", "asking"} => /\ r.step <= Len(Route)
                                          /\ r.local => Route[r.step] \in Free
    /\ r.pc = "done" => r.at <= written
    /\ r.result = "error" => r.at = 0

\* The entries of a day, what they cost, and those of a profile that reported
\* no usage.
EntriesOf(l, d) == {i \in DOMAIN l : l[i].day = d}
TotalOf(l, d) == CostOf(l, EntriesOf(l, d))
SilentOf(l, p, d) == {i \in EntriesOf(l, d) : l[i].profile = p /\ l[i].estimated}

\* The threads that wait for a paid answer, and those that picked a profile.
Paying(c, d) == {t \in Threads : c[t].pc = "asking" /\ c[t].day = d /\ Route[c[t].step] \notin Free}
Heading(c, p, d) ==
    {t \in Threads : c[t].pc \in {"selected", "asking"} /\ c[t].day = d /\ Route[c[t].step] = p}

\* Room is left for what the threads under way may cost.
Afford(c, l) ==
    \A d \in 1 .. LastDay :
        TotalOf(l, d) + Estimate + Cardinality(Paying(c, d)) * Dearest
            <= DayCap + Cardinality(Threads) * Dearest

\* The threads that picked a profile before it was silent are the only ones
\* to ask it again.
Hushed(c, l) ==
    \A d \in 1 .. LastDay, p \in Profiles \ Free :
        Cardinality(SilentOf(l, p, d)) + Cardinality(Heading(c, p, d)) <= Cardinality(Threads)

RouterInv ==
    /\ today \in 1 .. LastDay
    /\ ledger \in Seq(UsageEntries) /\ \A i \in DOMAIN ledger : ledger[i].day <= today
    /\ Len(usage_file) \in 0 .. Len(ledger) /\ usage_file = SubSeq(ledger, 1, Len(usage_file))
    /\ calls \in [Threads -> CallRecords]
    /\ \A t \in Threads : CallOK(calls[t], today, Len(ledger), Len(usage_file))
    /\ Afford(calls, ledger) /\ Hushed(calls, ledger)

-----------------------------------------------------------------------------
(* The ledger                                                               *)

LEMMA LedgerIs ==
  ASSUME NEW l \in Seq(UsageEntries)
  PROVE  /\ Len(l) \in Nat /\ DOMAIN l = 1 .. Len(l)
         /\ \A i \in 1 .. Len(l) : l[i] \in UsageEntries /\ l[i].cost \in Nat /\ l[i].cost <= Dearest
         /\ \A d : TotalOf(l, d) \in Nat
         /\ \A p, d : IsFiniteSet(SilentOf(l, p, d)) /\ Cardinality(SilentOf(l, p, d)) \in Nat
<1>1. Len(l) \in Nat /\ DOMAIN l = 1 .. Len(l) /\ \A i \in 1 .. Len(l) : l[i] \in UsageEntries
  OBVIOUS
<1>2. \A e \in UsageEntries : e.cost \in Nat /\ e.cost <= Dearest
  BY DearestIs DEF UsageEntries
<1>3. \A i \in 1 .. Len(l) : l[i].cost \in Nat
  BY <1>1, <1>2
<1>4. ASSUME NEW d PROVE TotalOf(l, d) \in Nat
  <2> DEFINE S == EntriesOf(l, d)
  <2>1. CostOf(l, S) \in Nat
    <3> HIDE DEF S
    <3> QED
      BY <1>1, <1>3, CostIsNat
  <2> QED
    BY <2>1 DEF TotalOf
<1>5. ASSUME NEW p, NEW d
      PROVE  IsFiniteSet(SilentOf(l, p, d)) /\ Cardinality(SilentOf(l, p, d)) \in Nat
  <2>1. IsFiniteSet(1 .. Len(l))
    BY <1>1, FS_Interval
  <2>2. SilentOf(l, p, d) \in SUBSET (1 .. Len(l))
    BY <1>1 DEF SilentOf, EntriesOf
  <2>3. IsFiniteSet(SilentOf(l, p, d))
    BY <2>1, <2>2, FS_Subset
  <2> QED
    BY <2>3, FS_CardinalityType
<1> QED
  BY <1>1, <1>2, <1>3, <1>4, <1>5

\* One entry more.
LEMMA LedgerAppends ==
  ASSUME NEW l \in Seq(UsageEntries), NEW e \in UsageEntries
  PROVE  LET v == Append(l, e)
         IN  /\ v \in Seq(UsageEntries) /\ Len(v) = Len(l) + 1
             /\ v[Len(l) + 1] = e /\ \A i \in 1 .. Len(l) : v[i] = l[i]
             /\ \A d : TotalOf(v, d) = TotalOf(l, d) + (IF e.day = d THEN e.cost ELSE 0)
             /\ \A p, d : Cardinality(SilentOf(v, p, d)) =
                            Cardinality(SilentOf(l, p, d))
                              + (IF e.day = d /\ e.profile = p /\ e.estimated THEN 1 ELSE 0)
<1> DEFINE v == Append(l, e)
<1>1. /\ v \in Seq(UsageEntries) /\ Len(v) = Len(l) + 1 /\ v[Len(l) + 1] = e
      /\ \A i \in 1 .. Len(l) : v[i] = l[i]
  OBVIOUS
<1> HIDE DEF v
<1>2. /\ Len(l) \in Nat /\ DOMAIN l = 1 .. Len(l)
      /\ \A p, d : IsFiniteSet(SilentOf(l, p, d)) /\ Cardinality(SilentOf(l, p, d)) \in Nat
  BY LedgerIs
<1>3. Len(v) \in Nat /\ DOMAIN v = 1 .. Len(v) /\ \A i \in 1 .. Len(v) : v[i].cost \in Nat
  BY <1>1, LedgerIs
<1>4. ASSUME NEW d
      PROVE  TotalOf(v, d) = TotalOf(l, d) + (IF e.day = d THEN e.cost ELSE 0)
  <2> DEFINE S == EntriesOf(l, d)
  <2> DEFINE T == EntriesOf(v, d)
  <2>1. \A i \in 1 .. Len(l) : l[i] = v[i] /\ (i \in S <=> i \in T)
    BY <1>1, <1>2, <1>3 DEF EntriesOf
  <2>2. Len(v) \in T <=> e.day = d
    BY <1>1, <1>2, <1>3 DEF EntriesOf
  <2>3. CostOf(v, T) = CostOf(l, S) + (IF Len(v) \in T THEN v[Len(v)].cost ELSE 0)
    <3> HIDE DEF S, T
    <3> QED
      BY <1>1, <1>2, <1>3, <2>1, CostOfOneMore
  <2> QED
    BY <1>1, <2>2, <2>3 DEF TotalOf
<1>5. ASSUME NEW p, NEW d
      PROVE  Cardinality(SilentOf(v, p, d)) =
               Cardinality(SilentOf(l, p, d)) + (IF e.day = d /\ e.profile = p /\ e.estimated THEN 1 ELSE 0)
  <2> DEFINE A == SilentOf(l, p, d)
  <2>1. CASE e.day = d /\ e.profile = p /\ e.estimated
    <3>1. SilentOf(v, p, d) = A \cup {Len(l) + 1} /\ Len(l) + 1 \notin A
      BY <1>1, <1>2, <1>3, <2>1 DEF SilentOf, EntriesOf
    <3>2. IsFiniteSet(A) /\ Cardinality(A) \in Nat
      BY <1>2
    <3> HIDE DEF A
    <3>3. Cardinality(A \cup {Len(l) + 1}) = Cardinality(A) + 1
      BY <3>1, <3>2, FS_AddElement
    <3> QED
      BY <2>1, <3>1, <3>3 DEF A
  <2>2. CASE ~(e.day = d /\ e.profile = p /\ e.estimated)
    <3>1. SilentOf(v, p, d) = A
      BY <1>1, <1>2, <1>3, <2>2 DEF SilentOf, EntriesOf
    <3>2. Cardinality(A) \in Nat
      BY <1>2
    <3> QED
      BY <2>2, <3>1, <3>2
  <2> QED
    BY <2>1, <2>2
<1> QED
  BY <1>1, <1>4, <1>5 DEF v

\* What the file holds of it.
LEMMA LedgerCut ==
  ASSUME NEW l \in Seq(UsageEntries), NEW u, Len(u) \in 0 .. Len(l), u = SubSeq(l, 1, Len(u))
  PROVE  /\ u \in Seq(UsageEntries) /\ \A i \in 1 .. Len(u) : u[i] = l[i]
         /\ \A d : TotalOf(u, d) <= TotalOf(l, d)
         /\ \A p, d : Cardinality(SilentOf(u, p, d)) <= Cardinality(SilentOf(l, p, d))
<1>1. Len(l) \in Nat /\ DOMAIN l = 1 .. Len(l) /\ \A i \in 1 .. Len(l) : l[i].cost \in Nat
  BY LedgerIs
<1>2. u \in Seq(UsageEntries) /\ \A i \in 1 .. Len(u) : u[i] = l[i]
  <2> DEFINE n == Len(u)
  <2>1. n \in 0 .. Len(l)
    OBVIOUS
  <2>2. SubSeq(l, 1, n) \in Seq(UsageEntries) /\ \A i \in 1 .. n : SubSeq(l, 1, n)[i] = l[i]
    <3> HIDE DEF n
    <3> QED
      BY <1>1, <2>1
  <2> QED
    BY <2>2
<1>3. Len(u) \in Nat /\ DOMAIN u = 1 .. Len(u) /\ Len(u) <= Len(l)
  BY <1>1, <1>2, LedgerIs
<1>4. ASSUME NEW d
      PROVE  TotalOf(u, d) <= TotalOf(l, d)
  <2> DEFINE S == EntriesOf(u, d)
  <2> DEFINE T == EntriesOf(l, d)
  <2>1. \A i \in 1 .. Len(u) : u[i] = l[i] /\ (i \in S <=> i \in T)
    BY <1>1, <1>2, <1>3 DEF EntriesOf
  <2>2. CostOf(u, S) <= CostOf(l, T)
    <3> HIDE DEF S, T
    <3> QED
      BY <1>1, <1>3, <2>1, CostOfMore
  <2> QED
    BY <2>2 DEF TotalOf
<1>5. ASSUME NEW p, NEW d
      PROVE  Cardinality(SilentOf(u, p, d)) <= Cardinality(SilentOf(l, p, d))
  <2>1. SilentOf(u, p, d) \in SUBSET SilentOf(l, p, d)
    BY <1>1, <1>2, <1>3 DEF SilentOf, EntriesOf
  <2>2. IsFiniteSet(SilentOf(l, p, d))
    BY LedgerIs
  <2> QED
    BY <2>1, <2>2, FS_Subset
<1> QED
  BY <1>2, <1>4, <1>5

-----------------------------------------------------------------------------
(* One call moves on                                                        *)

\* The call of t becomes r.
Moved(c, n, t, r) == n = [c EXCEPT ![t] = r]

LEMMA MovedIs ==
  ASSUME NEW c \in [Threads -> CallRecords], NEW n, NEW t \in Threads, NEW r \in CallRecords, Moved(c, n, t, r)
  PROVE  n \in [Threads -> CallRecords] /\ n[t] = r /\ \A s \in Threads \ {t} : n[s] = c[s]
BY DEF Moved

\* What a move does to the threads that wait for a paid answer on a day, and
\* to those that picked a profile.
LEMMA MovedPaying ==
  ASSUME NEW c \in [Threads -> CallRecords], NEW n, NEW t \in Threads, NEW r \in CallRecords, Moved(c, n, t, r),
         NEW d
  PROVE  /\ Cardinality(Paying(c, d)) \in Nat /\ Cardinality(Paying(n, d)) \in Nat
         /\ Cardinality(Threads) \in Nat /\ Cardinality(Paying(n, d)) <= Cardinality(Threads)
         /\ t \notin Paying(n, d) => Cardinality(Paying(n, d)) <= Cardinality(Paying(c, d))
         /\ t \notin Paying(n, d) /\ t \in Paying(c, d) => Cardinality(Paying(c, d)) = Cardinality(Paying(n, d)) + 1
<1> DEFINE A == Paying(c, d)
<1> DEFINE B == Paying(n, d)
<1>0. \A s \in Threads \ {t} : n[s] = c[s]
  BY DEF Moved
<1>1. A \in SUBSET Threads /\ B \in SUBSET Threads /\ \A s \in Threads \ {t} : s \in A <=> s \in B
  BY <1>0 DEF Paying
<1> HIDE DEF A, B
<1>2. /\ Cardinality(A) \in Nat /\ Cardinality(B) \in Nat /\ Cardinality(Threads) \in Nat
      /\ Cardinality(B) <= Cardinality(Threads)
      /\ t \notin B => Cardinality(B) <= Cardinality(A)
      /\ t \notin B /\ t \in A => Cardinality(A) = Cardinality(B) + 1
  BY <1>1, OneThread
<1> QED
  BY <1>2 DEF A, B

LEMMA MovedHeading ==
  ASSUME NEW c \in [Threads -> CallRecords], NEW n, NEW t \in Threads, NEW r \in CallRecords, Moved(c, n, t, r),
         NEW p, NEW d
  PROVE  /\ Cardinality(Heading(c, p, d)) \in Nat /\ Cardinality(Heading(n, p, d)) \in Nat
         /\ Cardinality(Threads) \in Nat /\ Cardinality(Heading(n, p, d)) <= Cardinality(Threads)
         /\ t \notin Heading(n, p, d) => Cardinality(Heading(n, p, d)) <= Cardinality(Heading(c, p, d))
         /\ t \notin Heading(n, p, d) /\ t \in Heading(c, p, d) =>
              Cardinality(Heading(c, p, d)) = Cardinality(Heading(n, p, d)) + 1
         /\ t \in Heading(c, p, d) /\ t \in Heading(n, p, d) => Heading(n, p, d) = Heading(c, p, d)
<1> DEFINE A == Heading(c, p, d)
<1> DEFINE B == Heading(n, p, d)
<1>0. \A s \in Threads \ {t} : n[s] = c[s]
  BY DEF Moved
<1>1. A \in SUBSET Threads /\ B \in SUBSET Threads /\ \A s \in Threads \ {t} : s \in A <=> s \in B
  BY <1>0 DEF Heading
<1> HIDE DEF A, B
<1>2. /\ Cardinality(A) \in Nat /\ Cardinality(B) \in Nat /\ Cardinality(Threads) \in Nat
      /\ Cardinality(B) <= Cardinality(Threads)
      /\ t \notin B => Cardinality(B) <= Cardinality(A)
      /\ t \notin B /\ t \in A => Cardinality(A) = Cardinality(B) + 1
      /\ t \in A /\ t \in B => A = B
  BY <1>1, OneThread
<1> QED
  BY <1>2 DEF A, B

LEMMA Times ==
  ASSUME NEW m \in Nat, NEW k \in Nat, NEW a \in Nat
  PROVE  /\ m * a \in Nat /\ (m + 1) * a = m * a + a
         /\ m <= k => m * a <= k * a
         /\ m + 1 <= k => m * a + a <= k * a
<1>1. m * a \in Nat /\ k * a \in Nat
  OBVIOUS
<1>2. (m + 1) * a = m * a + a
  OBVIOUS
<1>3. \A i \in Nat, j \in Nat : i <= j => i * a <= j * a
  <2> TAKE i \in Nat, j \in Nat
  <2> HAVE i <= j
  <2>1. j - i \in Nat /\ (j - i) * a \in Nat
    OBVIOUS
  <2>2. (j - i) * a = j * a - i * a
    OBVIOUS
  <2>3. i * a \in Nat /\ j * a \in Nat
    OBVIOUS
  <2> QED
    BY <2>1, <2>2, <2>3
<1>4. m + 1 \in Nat
  OBVIOUS
<1> QED
  BY <1>1, <1>2, <1>3, <1>4

\* A call that waits for no answer, in its new place, takes no room of
\* another one.
LEMMA QuietAffords ==
  ASSUME NEW c \in [Threads -> CallRecords], NEW n, NEW t \in Threads, NEW r \in CallRecords, Moved(c, n, t, r),
         r.pc # "asking", NEW l \in Seq(UsageEntries), Afford(c, l)
  PROVE  Afford(n, l)
<1> SUFFICES ASSUME NEW d \in 1 .. LastDay
             PROVE  TotalOf(l, d) + Estimate + Cardinality(Paying(n, d)) * Dearest
                      <= DayCap + Cardinality(Threads) * Dearest
  BY DEF Afford
<1> DEFINE a == Cardinality(Paying(c, d))
<1> DEFINE b == Cardinality(Paying(n, d))
<1> DEFINE k == Cardinality(Threads)
<1> DEFINE spent == TotalOf(l, d)
<1>1. t \notin Paying(n, d)
  BY MovedIs DEF Paying
<1>2. a \in Nat /\ b \in Nat /\ k \in Nat /\ b <= a
  BY <1>1, MovedPaying
<1>3. spent \in Nat /\ Dearest \in Nat /\ Estimate \in Nat /\ DayCap \in Nat
  BY LedgerIs, DearestIs, ModelRouterAssumption DEF ValidRouting
<1>4. spent + Estimate + a * Dearest <= DayCap + k * Dearest
  BY DEF Afford
<1> HIDE DEF a, b, k, spent
<1>5. b * Dearest <= a * Dearest /\ a * Dearest \in Nat /\ b * Dearest \in Nat /\ k * Dearest \in Nat
  BY <1>2, <1>3, Times
<1>6. spent + Estimate + b * Dearest <= DayCap + k * Dearest
  BY <1>3, <1>4, <1>5
<1> QED
  BY <1>6 DEF b, k, spent

LEMMA QuietHushes ==
  ASSUME NEW c \in [Threads -> CallRecords], NEW n, NEW t \in Threads, NEW r \in CallRecords, Moved(c, n, t, r),
         r.pc \notin {"selected", "asking"}, NEW l \in Seq(UsageEntries), Hushed(c, l)
  PROVE  Hushed(n, l)
<1> SUFFICES ASSUME NEW d \in 1 .. LastDay, NEW p \in Profiles \ Free
             PROVE  Cardinality(SilentOf(l, p, d)) + Cardinality(Heading(n, p, d)) <= Cardinality(Threads)
  BY DEF Hushed
<1>1. t \notin Heading(n, p, d)
  BY MovedIs DEF Heading
<1>2. /\ Cardinality(Heading(c, p, d)) \in Nat /\ Cardinality(Heading(n, p, d)) \in Nat
      /\ Cardinality(Threads) \in Nat /\ Cardinality(Heading(n, p, d)) <= Cardinality(Heading(c, p, d))
  BY <1>1, MovedHeading
<1>3. Cardinality(SilentOf(l, p, d)) + Cardinality(Heading(c, p, d)) <= Cardinality(Threads)
  BY DEF Hushed
<1>4. Cardinality(SilentOf(l, p, d)) \in Nat
  BY LedgerIs
<1> QED
  BY <1>2, <1>3, <1>4

\* A move that neither picks a profile nor asks, and books nothing.
LEMMA QuietMove ==
  ASSUME RouterInv, NEW t \in Threads, NEW r, Moved(calls, calls', t, r),
         today' = today, ledger' = ledger, usage_file' \in {usage_file, ledger},
         r.pc \notin {"selected", "asking"}, CallOK(r, today, Len(ledger), Len(usage_file'))
  PROVE  RouterInv'
<1>1. calls \in [Threads -> CallRecords] /\ r \in CallRecords /\ ledger \in Seq(UsageEntries)
      /\ Afford(calls, ledger) /\ Hushed(calls, ledger)
  BY DEF RouterInv, CallOK
<1>2. calls' \in [Threads -> CallRecords] /\ calls'[t] = r /\ \A s \in Threads \ {t} : calls'[s] = calls[s]
  BY <1>1 DEF Moved
<1>3. Afford(calls', ledger)
  BY <1>1, QuietAffords
<1>4. Hushed(calls', ledger)
  BY <1>1, QuietHushes
<1>5. Len(ledger) \in Nat /\ SubSeq(ledger, 1, Len(ledger)) = ledger
  BY <1>1
<1>6. /\ Len(usage_file') \in 0 .. Len(ledger) /\ usage_file' = SubSeq(ledger, 1, Len(usage_file'))
      /\ Len(usage_file) <= Len(usage_file')
  BY <1>5 DEF RouterInv
<1>7. ASSUME NEW s \in Threads
      PROVE  CallOK(calls'[s], today, Len(ledger), Len(usage_file'))
  <2>1. CASE s = t
    BY <1>2, <2>1
  <2>2. CASE s # t
    <3>1. calls'[s] = calls[s] /\ CallOK(calls[s], today, Len(ledger), Len(usage_file))
      BY <1>2, <2>2 DEF RouterInv
    <3>2. Len(usage_file) \in Nat /\ Len(usage_file') \in Nat
      BY <1>6 DEF RouterInv
    <3> QED
      BY <1>1, <1>6, <3>1, <3>2 DEF CallOK, CallRecords
  <2> QED
    BY <2>1, <2>2
<1> QED
  BY <1>1, <1>2, <1>3, <1>4, <1>6, <1>7 DEF RouterInv

\* What the invariant says of the call of a thread.
LEMMA CallIs ==
  ASSUME RouterInv, NEW t \in Threads
  PROVE  /\ calls \in [Threads -> CallRecords] /\ calls[t] \in CallRecords
         /\ CallOK(calls[t], today, Len(ledger), Len(usage_file))
         /\ today \in Nat /\ Len(ledger) \in Nat /\ Len(usage_file) \in Nat /\ Len(usage_file) <= Len(ledger)
         /\ ledger \in Seq(UsageEntries) /\ Len(Route) \in Nat /\ DOMAIN Route = 1 .. Len(Route)
<1>1. ledger \in Seq(UsageEntries) /\ Len(usage_file) \in 0 .. Len(ledger) /\ today \in 1 .. LastDay
  BY DEF RouterInv
<1>2. Len(ledger) \in Nat
  BY <1>1
<1>3. LastDay \in Nat
  BY ModelRouterAssumption DEF ValidRouting
<1> QED
  BY <1>1, <1>2, <1>3, ModelRouterAssumption DEF RouterInv, ValidRouting

\* The other calls are what they were.
LEMMA OthersOK ==
  ASSUME RouterInv, NEW t \in Threads, NEW r, Moved(calls, calls', t, r),
         NEW booked \in Nat, Len(ledger) <= booked, CallOK(r, today, booked, Len(usage_file))
  PROVE  /\ calls' \in [Threads -> CallRecords]
         /\ \A s \in Threads : CallOK(calls'[s], today, booked, Len(usage_file))
<1>1. calls \in [Threads -> CallRecords] /\ r \in CallRecords /\ Len(ledger) \in Nat
  BY CallIs DEF CallOK
<1>2. calls' \in [Threads -> CallRecords] /\ calls'[t] = r /\ \A s \in Threads \ {t} : calls'[s] = calls[s]
  BY <1>1 DEF Moved
<1>3. ASSUME NEW s \in Threads
      PROVE  CallOK(calls'[s], today, booked, Len(usage_file))
  <2>1. CASE s = t
    BY <1>2, <2>1
  <2>2. CASE s # t
    <3>1. calls'[s] = calls[s] /\ CallOK(calls[s], today, Len(ledger), Len(usage_file))
      BY <1>2, <2>2, CallIs
    <3> QED
      BY <1>1, <3>1 DEF CallOK, CallRecords
  <2> QED
    BY <2>1, <2>2
<1> QED
  BY <1>2, <1>3

\* A step that is not filtered is picked: a paid profile has told all its
\* usage of that day.
LEMMA PickMove ==
  ASSUME RouterInv, NEW t \in Threads, InCall(t, "select"), calls[t].step <= Len(Route),
         ~Filtered(t, Asked(t)), GoTo(t, "selected"), UNCHANGED <<today, ledger, usage_file>>
  PROVE  RouterInv'
<1> DEFINE r == [calls[t] EXCEPT !.pc = "selected"]
<1>1. Moved(calls, calls', t, r)
  BY DEF Moved, GoTo, Set
<1>2. /\ calls \in [Threads -> CallRecords] /\ calls[t] \in CallRecords
      /\ CallOK(calls[t], today, Len(ledger), Len(usage_file)) /\ ledger \in Seq(UsageEntries)
      /\ Afford(calls, ledger) /\ Hushed(calls, ledger) /\ Len(Route) \in Nat /\ DOMAIN Route = 1 .. Len(Route)
  BY CallIs DEF RouterInv
<1>3. r \in CallRecords /\ r.pc = "selected" /\ r.step = calls[t].step /\ r.day = calls[t].day
  BY <1>2 DEF CallRecords, Phases
<1>4. CallOK(r, today, Len(ledger), Len(usage_file))
  BY <1>2 DEF CallOK, CallRecords, Phases, InCall, Filtered, Asked
<1>5. r.day \in 1 .. today /\ r.day \in 1 .. LastDay /\ Route[r.step] \in Profiles
  <2>1. calls[t].step \in 1 .. Len(Route) /\ calls[t].day \in 1 .. today
    BY <1>2 DEF CallOK, InCall, CallRecords
  <2> QED
    BY <1>2, <1>3, <2>1, ModelRouterAssumption DEF Profiles, RouterInv, ValidRouting
<1> HIDE DEF r
<1>6. Afford(calls', ledger)
  BY <1>1, <1>2, <1>3, QuietAffords
<1>7. Hushed(calls', ledger)
  <2> SUFFICES ASSUME NEW d \in 1 .. LastDay, NEW p \in Profiles \ Free
               PROVE  Cardinality(SilentOf(ledger, p, d)) + Cardinality(Heading(calls', p, d)) <= Cardinality(Threads)
    BY DEF Hushed
  <2> DEFINE silent == SilentOf(ledger, p, d)
  <2>0. Cardinality(silent) \in Nat
    BY <1>2, LedgerIs
  <2>1. /\ Cardinality(Heading(calls, p, d)) \in Nat /\ Cardinality(Heading(calls', p, d)) \in Nat
        /\ Cardinality(Threads) \in Nat /\ Cardinality(Heading(calls', p, d)) <= Cardinality(Threads)
        /\ t \notin Heading(calls', p, d) => Cardinality(Heading(calls', p, d)) <= Cardinality(Heading(calls, p, d))
    BY <1>1, <1>2, <1>3, MovedHeading
  <2>2. Cardinality(silent) + Cardinality(Heading(calls, p, d)) <= Cardinality(Threads)
    BY <1>2 DEF Hushed
  <2>3. CASE t \in Heading(calls', p, d)
    <3>1. calls'[t] = r
      BY <1>1, <1>2 DEF Moved
    <3>2. p = Asked(t) /\ d = calls[t].day
      BY <1>3, <2>3, <3>1 DEF Heading, Asked
    <3>3. silent = {}
      BY <3>2 DEF Filtered, Unreported, Entries, SilentOf, EntriesOf
    <3>4. Cardinality(silent) = 0
      BY <3>3, FS_EmptySet
    <3> QED
      BY <2>1, <3>4
  <2>4. CASE t \notin Heading(calls', p, d)
    <3> HIDE DEF silent
    <3>1. Cardinality(silent) + Cardinality(Heading(calls', p, d)) <= Cardinality(Threads)
      BY <2>0, <2>1, <2>2, <2>4
    <3> QED
      BY <3>1 DEF silent
  <2> QED
    BY <2>3, <2>4
<1>8. /\ calls' \in [Threads -> CallRecords]
      /\ \A s \in Threads : CallOK(calls'[s], today, Len(ledger), Len(usage_file))
  <2>1. Len(ledger) \in Nat /\ Len(ledger) <= Len(ledger)
    BY <1>2
  <2> QED
    BY <1>1, <1>4, <2>1, OthersOK
<1> QED
  BY <1>2, <1>6, <1>7, <1>8 DEF RouterInv

\* A step within the cap is asked: the caps leave room for one call of each
\* thread.
LEMMA AskMove ==
  ASSUME RouterInv, NEW t \in Threads, InCall(t, "selected"), WithinCap(t), GoTo(t, "asking"),
         UNCHANGED <<today, ledger, usage_file>>
  PROVE  RouterInv'
<1> DEFINE r == [calls[t] EXCEPT !.pc = "asking"]
<1>1. Moved(calls, calls', t, r)
  BY DEF Moved, GoTo, Set
<1>2. /\ calls \in [Threads -> CallRecords] /\ calls[t] \in CallRecords
      /\ CallOK(calls[t], today, Len(ledger), Len(usage_file)) /\ ledger \in Seq(UsageEntries)
      /\ Afford(calls, ledger) /\ Hushed(calls, ledger) /\ Len(Route) \in Nat /\ DOMAIN Route = 1 .. Len(Route)
  BY CallIs DEF RouterInv
<1>3. /\ r \in CallRecords /\ r.pc = "asking" /\ r.step = calls[t].step /\ r.day = calls[t].day
      /\ r.cap = calls[t].cap
  BY <1>2 DEF CallRecords, Phases
<1>4. CallOK(r, today, Len(ledger), Len(usage_file))
  BY <1>2 DEF CallOK, CallRecords, Phases, InCall
<1> HIDE DEF r
<1>5. calls'[t] = r
  BY <1>1, <1>2 DEF Moved
<1>6. Afford(calls', ledger)
  <2> SUFFICES ASSUME NEW d \in 1 .. LastDay
               PROVE  TotalOf(ledger, d) + Estimate + Cardinality(Paying(calls', d)) * Dearest
                        <= DayCap + Cardinality(Threads) * Dearest
    BY DEF Afford
  <2> DEFINE a == Cardinality(Paying(calls, d))
  <2> DEFINE b == Cardinality(Paying(calls', d))
  <2> DEFINE k == Cardinality(Threads)
  <2> DEFINE spent == TotalOf(ledger, d)
  <2>1. /\ a \in Nat /\ b \in Nat /\ k \in Nat /\ b <= k
        /\ t \notin Paying(calls', d) => b <= a
    BY <1>1, <1>2, <1>3, MovedPaying
  <2>2. spent \in Nat /\ Dearest \in Nat /\ Estimate \in Nat /\ DayCap \in Nat
    BY <1>2, LedgerIs, DearestIs, ModelRouterAssumption DEF ValidRouting
  <2>3. spent + Estimate + a * Dearest <= DayCap + k * Dearest
    BY <1>2 DEF Afford
  <2>4. CASE t \in Paying(calls', d)
    <3>1. d = calls[t].day /\ Asked(t) \notin Free
      BY <1>3, <1>5, <2>4 DEF Paying, Asked
    <3>2. calls[t].cap \in Nat /\ calls[t].cap <= DayCap
      BY <1>2 DEF CallOK, InCall, CallRecords
    <3>3. spent + Estimate <= calls[t].cap
      BY <3>1 DEF WithinCap, Expected, Total, TotalOf, Entries, EntriesOf
    <3> HIDE DEF a, b, k, spent
    <3>4. b * Dearest <= k * Dearest /\ b * Dearest \in Nat /\ k * Dearest \in Nat
      BY <2>1, <2>2, Times
    <3>5. spent + Estimate + b * Dearest <= DayCap + k * Dearest
      BY <2>2, <3>2, <3>3, <3>4
    <3> QED
      BY <3>5 DEF b, k, spent
  <2>5. CASE t \notin Paying(calls', d)
    <3> HIDE DEF a, b, k, spent
    <3>1. b * Dearest <= a * Dearest /\ a * Dearest \in Nat /\ b * Dearest \in Nat /\ k * Dearest \in Nat
      BY <2>1, <2>2, <2>5, Times
    <3>2. spent + Estimate + b * Dearest <= DayCap + k * Dearest
      BY <2>2, <2>3, <3>1
    <3> QED
      BY <3>2 DEF b, k, spent
  <2> QED
    BY <2>4, <2>5
<1>7. Hushed(calls', ledger)
  <2> SUFFICES ASSUME NEW d \in 1 .. LastDay, NEW p \in Profiles \ Free
               PROVE  Cardinality(SilentOf(ledger, p, d)) + Cardinality(Heading(calls', p, d)) <= Cardinality(Threads)
    BY DEF Hushed
  <2>1. \A s \in Threads \ {t} : calls'[s] = calls[s]
    BY <1>1, <1>2 DEF Moved
  <2>2. Heading(calls', p, d) = Heading(calls, p, d)
    BY <1>3, <1>5, <2>1 DEF Heading, InCall
  <2> QED
    BY <1>2, <2>2 DEF Hushed
<1>8. /\ calls' \in [Threads -> CallRecords]
      /\ \A s \in Threads : CallOK(calls'[s], today, Len(ledger), Len(usage_file))
  <2>1. Len(ledger) \in Nat /\ Len(ledger) <= Len(ledger)
    BY <1>2
  <2> QED
    BY <1>1, <1>4, <2>1, OthersOK
<1> QED
  BY <1>2, <1>6, <1>7, <1>8 DEF RouterInv

LEMMA SamePart ==
  ASSUME NEW n \in Nat, NEW l, NEW v, \A i \in 1 .. n : l[i] \in UsageEntries /\ v[i] = l[i]
  PROVE  SubSeq(v, 1, n) = SubSeq(l, 1, n)
<1> DEFINE A == SubSeq(l, 1, n)
<1> DEFINE B == SubSeq(v, 1, n)
<1>1. n \in Int /\ n - 1 + 1 = n /\ \A i \in 1 .. n : l[i] \in UsageEntries /\ v[i] \in UsageEntries /\ 1 + i - 1 = i
  OBVIOUS
<1>2. A \in Seq(UsageEntries) /\ Len(A) = (IF 1 <= n THEN n ELSE 0) /\ \A i \in 1 .. n : A[i] = l[i]
  BY <1>1, SubSeqProperties
<1>3. B \in Seq(UsageEntries) /\ Len(B) = (IF 1 <= n THEN n ELSE 0) /\ \A i \in 1 .. n : B[i] = v[i]
  BY <1>1, SubSeqProperties
<1> HIDE DEF A, B
<1>4. Len(A) = Len(B) /\ Len(A) \in Nat /\ \A i \in 1 .. Len(A) : A[i] = B[i]
  BY <1>2, <1>3
<1>5. A = B
  BY <1>2, <1>3, <1>4, SeqEqual
<1> QED
  BY <1>5 DEF A, B

\* What a call may book: nothing that costs or is silent, or what the
\* profile it asked answered.
Booking(t, e) ==
    /\ e \in UsageEntries /\ e.day = calls[t].day
    /\ \/ e.cost = 0 /\ ~e.estimated
       \/ InCall(t, "asking") /\ e.profile = Asked(t) /\ (Asked(t) \in Free => e.cost = 0)

LEMMA BookMove ==
  ASSUME RouterInv, NEW t \in Threads, NEW e, Booking(t, e), calls[t].pc \in {"select", "asking"},
         NEW r, Moved(calls, calls', t, r), r \in CallRecords, r.pc = "recorded", r.step = calls[t].step,
         r.result # "error", r.at = Len(ledger) + 1, ledger' = Append(ledger, e), UNCHANGED <<today, usage_file>>
  PROVE  RouterInv'
<1>1. /\ calls \in [Threads -> CallRecords] /\ calls[t] \in CallRecords
      /\ CallOK(calls[t], today, Len(ledger), Len(usage_file)) /\ ledger \in Seq(UsageEntries)
      /\ Afford(calls, ledger) /\ Hushed(calls, ledger) /\ Len(ledger) \in Nat /\ Len(usage_file) \in Nat
      /\ Len(usage_file) <= Len(ledger)
  BY CallIs DEF RouterInv
<1>2. e \in UsageEntries /\ e.day \in 1 .. today
  BY <1>1 DEF Booking, CallOK
<1>3. /\ ledger' \in Seq(UsageEntries) /\ Len(ledger') = Len(ledger) + 1
      /\ ledger'[Len(ledger) + 1] = e /\ \A i \in 1 .. Len(ledger) : ledger'[i] = ledger[i]
      /\ \A d : TotalOf(ledger', d) = TotalOf(ledger, d) + (IF e.day = d THEN e.cost ELSE 0)
      /\ \A p, d : Cardinality(SilentOf(ledger', p, d)) =
                     Cardinality(SilentOf(ledger, p, d))
                       + (IF e.day = d /\ e.profile = p /\ e.estimated THEN 1 ELSE 0)
  BY <1>1, <1>2, LedgerAppends
<1>4. calls'[t] = r
  BY <1>1 DEF Moved
<1>5. Afford(calls', ledger')
  <2> SUFFICES ASSUME NEW d \in 1 .. LastDay
               PROVE  TotalOf(ledger', d) + Estimate + Cardinality(Paying(calls', d)) * Dearest
                        <= DayCap + Cardinality(Threads) * Dearest
    BY DEF Afford
  <2> DEFINE a == Cardinality(Paying(calls, d))
  <2> DEFINE b == Cardinality(Paying(calls', d))
  <2> DEFINE k == Cardinality(Threads)
  <2> DEFINE spent == TotalOf(ledger, d)
  <2> DEFINE c == IF e.day = d THEN e.cost ELSE 0
  <2>0. t \notin Paying(calls', d)
    BY <1>4 DEF Paying
  <2>1. a \in Nat /\ b \in Nat /\ k \in Nat /\ b <= a /\ (t \in Paying(calls, d) => a = b + 1)
    BY <1>1, <2>0, MovedPaying
  <2>2. /\ spent \in Nat /\ Dearest \in Nat /\ Estimate \in Nat /\ DayCap \in Nat
        /\ e.cost \in Nat /\ e.cost <= Dearest
    <3>1. spent \in Nat /\ Dearest \in Nat /\ Estimate \in Nat /\ DayCap \in Nat
      BY <1>1, LedgerIs, DearestIs, ModelRouterAssumption DEF ValidRouting
    <3>2. e.cost \in 0 .. Dearest
      BY <1>2 DEF UsageEntries
    <3> QED
      BY <3>1, <3>2
  <2>3. spent + Estimate + a * Dearest <= DayCap + k * Dearest /\ TotalOf(ledger', d) = spent + c
    BY <1>1, <1>3 DEF Afford
  <2>4. c = 0 \/ (t \in Paying(calls, d) /\ c = e.cost)
    BY DEF Booking, Paying, InCall, Asked
  <2> HIDE DEF a, b, k, spent, c
  <2>5. /\ b * Dearest <= a * Dearest /\ a * Dearest \in Nat /\ b * Dearest \in Nat /\ k * Dearest \in Nat
        /\ (b + 1) * Dearest = b * Dearest + Dearest
    BY <2>1, <2>2, Times
  <2>6. CASE c = 0
    <3>1. spent + c + Estimate + b * Dearest <= DayCap + k * Dearest
      BY <2>2, <2>3, <2>5, <2>6
    <3> QED
      BY <2>3, <3>1 DEF b, k
  <2>7. CASE t \in Paying(calls, d) /\ c = e.cost
    <3>1. a * Dearest = b * Dearest + Dearest
      BY <2>1, <2>5, <2>7
    <3>2. c \in Nat /\ c <= Dearest
      BY <2>2, <2>7
    <3> DEFINE x == a * Dearest
    <3> DEFINE y == b * Dearest
    <3> DEFINE z == k * Dearest
    <3>3. x \in Nat /\ y \in Nat /\ z \in Nat /\ x = y + Dearest /\ spent + Estimate + x <= DayCap + z
      BY <2>3, <2>5, <3>1
    <3> HIDE DEF x, y, z
    <3>4. spent + c + Estimate + y <= DayCap + z
      BY <2>2, <3>2, <3>3
    <3> QED
      BY <2>3, <3>4 DEF b, k, y, z
  <2> QED
    BY <2>4, <2>6, <2>7
<1>6. Hushed(calls', ledger')
  <2> SUFFICES ASSUME NEW d \in 1 .. LastDay, NEW p \in Profiles \ Free
               PROVE  Cardinality(SilentOf(ledger', p, d)) + Cardinality(Heading(calls', p, d))
                        <= Cardinality(Threads)
    BY DEF Hushed
  <2> DEFINE a == Cardinality(Heading(calls, p, d))
  <2> DEFINE b == Cardinality(Heading(calls', p, d))
  <2> DEFINE k == Cardinality(Threads)
  <2> DEFINE silent == Cardinality(SilentOf(ledger, p, d))
  <2> DEFINE c == IF e.day = d /\ e.profile = p /\ e.estimated THEN 1 ELSE 0
  <2>0. t \notin Heading(calls', p, d)
    BY <1>4 DEF Heading
  <2>1. a \in Nat /\ b \in Nat /\ k \in Nat /\ b <= a /\ (t \in Heading(calls, p, d) => a = b + 1)
    BY <1>1, <2>0, MovedHeading
  <2>2. silent \in Nat /\ silent + a <= k /\ Cardinality(SilentOf(ledger', p, d)) = silent + c
    BY <1>1, <1>3, LedgerIs DEF Hushed
  <2>3. c = 0 \/ (t \in Heading(calls, p, d) /\ c = 1)
    BY DEF Booking, Heading, InCall, Asked
  <2> HIDE DEF a, b, k, silent, c
  <2>4. silent + c + b <= k
    BY <2>1, <2>2, <2>3
  <2> QED
    BY <2>2, <2>4 DEF b, k
<1>7. CallOK(r, today, Len(ledger'), Len(usage_file))
  BY <1>1, <1>3 DEF CallOK, CallRecords
<1>8. /\ calls' \in [Threads -> CallRecords]
      /\ \A s \in Threads : CallOK(calls'[s], today, Len(ledger'), Len(usage_file))
  <2>1. Len(ledger') \in Nat /\ Len(ledger) <= Len(ledger')
    BY <1>1, <1>3
  <2> QED
    BY <1>7, <2>1, OthersOK
<1>9. /\ Len(usage_file) \in 0 .. Len(ledger') /\ usage_file = SubSeq(ledger', 1, Len(usage_file))
      /\ \A i \in DOMAIN ledger' : ledger'[i].day <= today
  <2> DEFINE n == Len(usage_file)
  <2>1. n \in 0 .. Len(ledger) /\ usage_file = SubSeq(ledger, 1, n)
    BY DEF RouterInv
  <2>2. SubSeq(ledger', 1, n) = SubSeq(ledger, 1, n)
    <3>1. n \in Nat /\ \A i \in 1 .. n : ledger[i] \in UsageEntries /\ ledger'[i] = ledger[i]
      BY <1>1, <1>3, <2>1
    <3> HIDE DEF n
    <3> QED
      BY <3>1, SamePart
  <2>3. \A i \in 1 .. Len(ledger') : ledger'[i].day <= today
    <3> TAKE i \in 1 .. Len(ledger')
    <3>1. CASE i \in 1 .. Len(ledger)
      BY <1>1, <1>3, <3>1 DEF RouterInv
    <3>2. CASE i = Len(ledger) + 1
      BY <1>2, <1>3, <3>2 DEF RouterInv
    <3> QED
      BY <1>1, <1>3, <3>1, <3>2
  <2> QED
    BY <1>1, <1>3, <2>1, <2>2, <2>3
<1> QED
  BY <1>3, <1>5, <1>6, <1>8, <1>9 DEF RouterInv

-----------------------------------------------------------------------------
(* The steps of the router                                                  *)

LEMMA RouterStartsOK == RouterInit => RouterInv
<1> SUFFICES ASSUME RouterInit
             PROVE  RouterInv
  OBVIOUS
<1>1. today = 1 /\ ledger = <<>> /\ usage_file = <<>> /\ calls = [t \in Threads |-> NoCall]
  BY DEF RouterInit
<1>2. /\ LastDay \in Nat \ {0} /\ DayCap \in Nat /\ Estimate \in Nat /\ Len(Route) \in Nat
      /\ IsFiniteSet(Threads) /\ "chat" \in Threads
  BY ModelRouterAssumption DEF ValidRouting
<1>3. /\ ledger \in Seq(UsageEntries) /\ Len(ledger) = 0 /\ DOMAIN ledger = {} /\ Len(usage_file) = 0
      /\ usage_file = SubSeq(ledger, 1, Len(usage_file))
  <2>1. SubSeq(<<>>, 1, 0) = <<>>
    BY SubSeqEmpty
  <2> QED
    BY <1>1, <2>1
<1>4. NoCall \in CallRecords /\ NoCall.pc = "none" /\ NoCall.step = 0 /\ NoCall.at = 0
  BY DEF NoCall, CallRecords, Phases, Results
<1>5. calls \in [Threads -> CallRecords] /\ \A t \in Threads : calls[t] = NoCall
  BY <1>1, <1>4
<1>6. \A t \in Threads : CallOK(calls[t], today, Len(ledger), Len(usage_file))
  BY <1>2, <1>3, <1>4, <1>5 DEF CallOK
<1>7. Cardinality(Threads) \in Nat \ {0}
  BY <1>2, FS_CardinalityType, FS_EmptySet
<1>8. Afford(calls, ledger)
  <2> SUFFICES ASSUME NEW d \in 1 .. LastDay
               PROVE  TotalOf(ledger, d) + Estimate + Cardinality(Paying(calls, d)) * Dearest
                        <= DayCap + Cardinality(Threads) * Dearest
    BY DEF Afford
  <2>1. Paying(calls, d) = {}
    BY <1>4, <1>5 DEF Paying
  <2>2. Cardinality(Paying(calls, d)) = 0
    BY <2>1, FS_EmptySet
  <2>3. TotalOf(ledger, d) = 0
    <3> DEFINE S == EntriesOf(ledger, d)
    <3>1. PICK f : CostRun(f, Len(ledger), ledger, S) /\ CostOf(ledger, S) = f[Len(ledger)]
      BY <1>3, CostUnfolds
    <3> HIDE DEF S
    <3>2. f[0] = 0
      BY <1>3, <3>1 DEF CostRun
    <3> QED
      BY <1>3, <3>1, <3>2 DEF TotalOf, S
  <2> DEFINE k == Cardinality(Threads)
  <2>4. k \in Nat /\ 1 <= k /\ 0 \in Nat /\ 1 \in Nat /\ Dearest \in Nat /\ Estimate <= Dearest
    BY <1>7, DearestIs
  <2> HIDE DEF k
  <2>5. 1 * Dearest <= k * Dearest /\ k * Dearest \in Nat
    BY <2>4, Times
  <2>6. 0 + Estimate + 0 * Dearest <= DayCap + k * Dearest
    BY <1>2, <2>4, <2>5
  <2> QED
    BY <2>2, <2>3, <2>6 DEF k
<1>9. Hushed(calls, ledger)
  <2> SUFFICES ASSUME NEW d \in 1 .. LastDay, NEW p \in Profiles \ Free
               PROVE  Cardinality(SilentOf(ledger, p, d)) + Cardinality(Heading(calls, p, d)) <= Cardinality(Threads)
    BY DEF Hushed
  <2>1. SilentOf(ledger, p, d) = {} /\ Heading(calls, p, d) = {}
    BY <1>3, <1>4, <1>5 DEF SilentOf, EntriesOf, Heading
  <2>2. Cardinality(SilentOf(ledger, p, d)) = 0 /\ Cardinality(Heading(calls, p, d)) = 0
    BY <2>1, FS_EmptySet
  <2> QED
    BY <1>7, <2>2
<1> QED
  BY <1>1, <1>2, <1>3, <1>5, <1>6, <1>8, <1>9 DEF RouterInv

\* A call as Begin makes it.
Fresh(cap, local) == [NoCall EXCEPT !.pc = "select", !.step = 1, !.day = today, !.cap = cap, !.local = local]

LEMMA StartMove ==
  ASSUME RouterInv, NEW t \in Threads, NEW cap \in Nat, cap <= DayCap, NEW local \in BOOLEAN,
         Set(t, Fresh(cap, local)), UNCHANGED <<today, ledger, usage_file>>
  PROVE  RouterInv'
<1> DEFINE r == Fresh(cap, local)
<1>1. Moved(calls, calls', t, r) /\ usage_file' \in {usage_file, ledger}
  BY DEF Moved, Set
<1>2. today \in Nat /\ today >= 1 /\ Len(Route) \in Nat /\ Len(ledger) \in Nat
  BY CallIs, ModelRouterAssumption DEF RouterInv, ValidRouting
<1>3. /\ r \in CallRecords /\ r.pc = "select" /\ r.step = 1 /\ r.day = today /\ r.cap = cap /\ r.at = 0
      /\ r.result = "none"
  BY <1>2 DEF Fresh, NoCall, CallRecords, Phases, Results
<1> HIDE DEF r
<1>4. CallOK(r, today, Len(ledger), Len(usage_file'))
  BY <1>2, <1>3 DEF CallOK
<1> QED
  BY <1>1, <1>3, <1>4, QuietMove

LEMMA ReturnMove ==
  ASSUME RouterInv, NEW t \in Threads, Set(t, NoCall), UNCHANGED <<today, ledger, usage_file>>
  PROVE  RouterInv'
<1> DEFINE r == NoCall
<1>1. Moved(calls, calls', t, r) /\ usage_file' \in {usage_file, ledger}
  BY DEF Moved, Set
<1>2. Len(Route) \in Nat /\ Len(ledger) \in Nat
  BY CallIs
<1>3. r \in CallRecords /\ r.pc = "none" /\ r.step = 0 /\ r.at = 0 /\ r.result = "none"
  BY DEF NoCall, CallRecords, Phases, Results
<1> HIDE DEF r
<1>4. CallOK(r, today, Len(ledger), Len(usage_file'))
  BY <1>2, <1>3 DEF CallOK
<1> QED
  BY <1>1, <1>3, <1>4, QuietMove

\* A step of the route is passed over.
LEMMA SkipMove ==
  ASSUME RouterInv, NEW t \in Threads, calls[t].pc \in {"select", "selected", "asking"},
         calls[t].step <= Len(Route), Skip(t), UNCHANGED <<today, ledger, usage_file>>
  PROVE  RouterInv'
<1> DEFINE r == [calls[t] EXCEPT !.pc = "select", !.step = @ + 1]
<1>1. /\ calls \in [Threads -> CallRecords] /\ calls[t] \in CallRecords
      /\ CallOK(calls[t], today, Len(ledger), Len(usage_file)) /\ Len(Route) \in Nat
  BY CallIs
<1>2. Moved(calls, calls', t, r) /\ usage_file' \in {usage_file, ledger}
  BY <1>1 DEF Moved, Skip, Set
<1>3. /\ r \in CallRecords /\ r.pc = "select" /\ r.step = calls[t].step + 1 /\ r.day = calls[t].day
      /\ r.cap = calls[t].cap /\ r.at = calls[t].at /\ r.result = calls[t].result
  <2> DEFINE k == calls[t]
  <2>1. k \in CallRecords /\ k.step \in Nat /\ r = [k EXCEPT !.pc = "select", !.step = k.step + 1]
    BY <1>1 DEF CallRecords
  <2> HIDE DEF k, r
  <2>2. r.pc = "select" /\ r.step = k.step + 1 /\ r.day = k.day /\ r.cap = k.cap /\ r.at = k.at /\ r.result = k.result
    BY <2>1 DEF CallRecords
  <2>3. r \in CallRecords
    <3>1. "select" \in Phases /\ k.step + 1 \in Nat
      BY <2>1 DEF Phases
    <3> QED
      BY <2>1, <3>1 DEF CallRecords
  <2> QED
    BY <2>2, <2>3 DEF k
<1> HIDE DEF r
<1>4. CallOK(r, today, Len(ledger), Len(usage_file'))
  BY <1>1, <1>3 DEF CallOK, CallRecords
<1> QED
  BY <1>2, <1>3, <1>4, QuietMove

\* A call is over: it has its result, and an entry that is written.
LEMMA EndMove ==
  ASSUME RouterInv, NEW t \in Threads, NEW r \in CallRecords, r.pc \in {"recorded", "done"},
         r.step = calls[t].step, r.at <= Len(ledger), r.result = "error" => r.at = 0, r.pc = "done" => r.at <= Len(usage_file'),
         Moved(calls, calls', t, r), UNCHANGED <<today, ledger>>, usage_file' \in {usage_file, ledger}
  PROVE  RouterInv'
<1>1. CallOK(calls[t], today, Len(ledger), Len(usage_file))
  BY CallIs
<1>2. CallOK(r, today, Len(ledger), Len(usage_file'))
  BY <1>1 DEF CallOK
<1> QED
  BY <1>2, QuietMove

\* The call of t is over with a result and an entry.
Over(t, pc, result, at) == [calls[t] EXCEPT !.pc = pc, !.result = result, !.at = at]

IsOver(r, t, pc, result, at) ==
    r \in CallRecords /\ r.pc = pc /\ r.step = calls[t].step /\ r.at = at /\ r.result = result

LEMMA OverIs ==
  ASSUME RouterInv, NEW t \in Threads, NEW pc \in Phases, NEW result \in Results, NEW at \in Nat
  PROVE  IsOver(Over(t, pc, result, at), t, pc, result, at)
<1> DEFINE k == calls[t]
<1> DEFINE r == Over(t, pc, result, at)
<1>1. k \in CallRecords /\ r = [k EXCEPT !.pc = pc, !.result = result, !.at = at]
  BY CallIs DEF Over
<1> HIDE DEF k, r
<1>2. r.pc = pc /\ r.step = k.step /\ r.at = at /\ r.result = result
  BY <1>1 DEF CallRecords
<1>3. r \in CallRecords
  BY <1>1 DEF CallRecords
<1> QED
  BY <1>2, <1>3 DEF k, r, IsOver

LEMMA SelectKeeps ==
  ASSUME RouterInv, NEW t \in Threads, Select(t)
  PROVE  RouterInv'
<1>1. /\ calls[t] \in CallRecords /\ CallOK(calls[t], today, Len(ledger), Len(usage_file))
      /\ InCall(t, "select") /\ UNCHANGED <<today, usage_file>> /\ Len(ledger) \in Nat /\ Len(Route) \in Nat
      /\ ledger \in Seq(UsageEntries)
  BY CallIs DEF Select
<1>2. CASE calls[t].step > Len(Route)
  <2> DEFINE e == [profile |-> "no_model", day |-> calls[t].day, cost |-> 0, estimated |-> FALSE]
  <2> DEFINE r == Over(t, "recorded", "no model", Len(ledger) + 1)
  <2>1. e \in UsageEntries
    <3>1. calls[t].day \in 1 .. LastDay
      BY <1>1, ModelRouterAssumption DEF CallOK, InCall, RouterInv, ValidRouting
    <3> QED
      BY <3>1, DearestIs DEF UsageEntries
  <2>2. Booking(t, e)
    BY <2>1 DEF Booking
  <2>3. ledger' = Append(ledger, e)
    BY <1>2 DEF Select
  <2>4. Len(ledger') = Len(ledger) + 1
    <3> HIDE DEF e
    <3> QED
      BY <1>1, <2>1, <2>3
  <2>5. Moved(calls, calls', t, r)
    <3>1. Set(t, Over(t, "recorded", "no model", Len(ledger')))
      BY <1>2 DEF Select, Over
    <3> QED
      BY <2>4, <3>1 DEF Set, Moved
  <2>6. Len(ledger) + 1 \in Nat /\ "recorded" \in Phases /\ "no model" \in Results
    BY <1>1 DEF Phases, Results
  <2>7. /\ r \in CallRecords /\ r.pc = "recorded" /\ r.step = calls[t].step
        /\ r.at = Len(ledger) + 1 /\ r.result = "no model"
    <3> HIDE DEF e, r
    <3>1. IsOver(Over(t, "recorded", "no model", Len(ledger) + 1), t, "recorded", "no model", Len(ledger) + 1)
      BY <2>6, OverIs
    <3> QED
      BY <3>1 DEF IsOver, r
  <2> HIDE DEF e, r
  <2> QED
    BY <1>1, <2>2, <2>3, <2>5, <2>7, BookMove DEF InCall
<1>3. CASE ~(calls[t].step > Len(Route))
  <2>1. calls[t].step <= Len(Route)
    BY <1>1, <1>3 DEF CallRecords
  <2>2. UNCHANGED <<today, ledger, usage_file>>
    BY <1>1, <1>3 DEF Select
  <2>3. CASE Filtered(t, Asked(t))
    <3>1. Skip(t)
      BY <1>3, <2>3 DEF Select
    <3> QED
      BY <1>1, <2>1, <2>2, <3>1, SkipMove DEF InCall
  <2>4. CASE ~Filtered(t, Asked(t))
    <3>1. GoTo(t, "selected")
      BY <1>3, <2>4 DEF Select
    <3> QED
      BY <1>1, <2>1, <2>2, <2>4, <3>1, PickMove
  <2> QED
    BY <2>3, <2>4
<1> QED
  BY <1>2, <1>3

LEMMA CheckCapKeeps ==
  ASSUME RouterInv, NEW t \in Threads, CheckCap(t)
  PROVE  RouterInv'
<1>1. InCall(t, "selected") /\ UNCHANGED <<today, ledger, usage_file>>
  BY DEF CheckCap
<1>2. CASE WithinCap(t)
  BY <1>1, <1>2, AskMove DEF CheckCap
<1>3. CASE ~WithinCap(t)
  <2>1. Skip(t)
    BY <1>3 DEF CheckCap
  <2>2. calls[t].step <= Len(Route)
    BY <1>1, CallIs DEF CallOK, InCall
  <2> QED
    BY <1>1, <2>1, <2>2, SkipMove DEF InCall
<1> QED
  BY <1>2, <1>3

LEMMA AnswersKeeps ==
  ASSUME RouterInv, NEW t \in Threads, Answers(t)
  PROVE  RouterInv'
<1>1. /\ calls[t] \in CallRecords /\ CallOK(calls[t], today, Len(ledger), Len(usage_file))
      /\ InCall(t, "asking") /\ UNCHANGED <<today, usage_file>> /\ Len(ledger) \in Nat
      /\ ledger \in Seq(UsageEntries) /\ Len(Route) \in Nat /\ DOMAIN Route = 1 .. Len(Route)
  BY CallIs DEF Answers
<1>2. Asked(t) \in Profiles /\ calls[t].day \in 1 .. LastDay
  <2>1. calls[t].step \in 1 .. Len(Route) /\ calls[t].day \in 1 .. today
    BY <1>1 DEF CallOK, InCall, CallRecords
  <2> QED
    BY <1>1, <2>1, ModelRouterAssumption DEF Profiles, Asked, RouterInv, ValidRouting
<1>3. PICK cost \in Costs \cup {Estimate}, estimated \in BOOLEAN :
         ledger' = Append(ledger, UsageEntry(Asked(t), calls[t].day, cost, estimated))
  BY DEF Answers
<1> DEFINE e == UsageEntry(Asked(t), calls[t].day, cost, estimated)
<1> DEFINE r == Over(t, "recorded", "answer", Len(ledger) + 1)
<1>4. /\ e \in UsageEntries /\ e.day = calls[t].day /\ e.profile = Asked(t)
      /\ Asked(t) \in Free => e.cost = 0
  <2>1. cost \in 0 .. Dearest /\ 0 \in 0 .. Dearest
    BY DearestIs
  <2> QED
    BY <1>2, <2>1 DEF UsageEntries, UsageEntry, Profiles
<1>5. Booking(t, e)
  BY <1>1, <1>4 DEF Booking
<1>6. Len(ledger') = Len(ledger) + 1
  <2> HIDE DEF e
  <2> QED
    BY <1>1, <1>3, <1>4 DEF e
<1>7. Moved(calls, calls', t, r)
  BY <1>6 DEF Answers, Set, Moved, Over
<1>8. Len(ledger) + 1 \in Nat /\ "recorded" \in Phases /\ "answer" \in Results
  BY <1>1 DEF Phases, Results
<1>9. r \in CallRecords /\ r.pc = "recorded" /\ r.step = calls[t].step /\ r.at = Len(ledger) + 1
      /\ r.result = "answer"
  BY <1>8, OverIs DEF IsOver
<1>10. ledger' = Append(ledger, e)
  BY <1>3
<1> HIDE DEF e, r
<1> QED
  BY <1>1, <1>5, <1>7, <1>9, <1>10, BookMove DEF InCall

\* The end of a call that books nothing.
LEMMA OverKeeps ==
  ASSUME RouterInv, NEW t \in Threads, NEW pc \in {"recorded", "done"}, NEW result \in Results,
         Set(t, Over(t, pc, result, 0)), UNCHANGED <<today, ledger, usage_file>>
  PROVE  RouterInv'
<1> DEFINE r == Over(t, pc, result, 0)
<1>1. pc \in Phases /\ 0 \in Nat /\ Len(ledger) \in Nat /\ Len(usage_file) \in Nat
  BY CallIs DEF Phases
<1>2. r \in CallRecords /\ r.pc = pc /\ r.step = calls[t].step /\ r.at = 0
  BY <1>1, OverIs DEF IsOver
<1>3. Moved(calls, calls', t, r) /\ usage_file' \in {usage_file, ledger} /\ Len(usage_file') = Len(usage_file)
  BY DEF Moved, Set
<1> HIDE DEF r
<1> QED
  BY <1>1, <1>2, <1>3, EndMove

LEMMA FailsKeeps ==
  ASSUME RouterInv, NEW t \in Threads, Fails(t)
  PROVE  RouterInv'
<1>1. InCall(t, "asking") /\ UNCHANGED <<today, ledger, usage_file>>
  BY DEF Fails
<1>2. Skip(t)
  BY DEF Fails
<1>3. calls[t].step <= Len(Route)
  BY <1>1, CallIs DEF CallOK, InCall
<1> QED
  BY <1>1, <1>2, <1>3, SkipMove DEF InCall

LEMMA PersistKeeps ==
  ASSUME RouterInv, NEW t \in Threads, Persist(t)
  PROVE  RouterInv'
<1> DEFINE k == calls[t]
<1> DEFINE r == [k EXCEPT !.pc = "done"]
<1>1. /\ k \in CallRecords /\ CallOK(k, today, Len(ledger), Len(usage_file)) /\ k.pc = "recorded"
      /\ UNCHANGED <<today, ledger>> /\ usage_file' = ledger
      /\ Len(ledger) \in Nat /\ Len(usage_file) \in Nat /\ Moved(calls, calls', t, r)
  BY CallIs DEF Persist, InCall, GoTo, Set, Moved
<1>3. r.pc = "done" /\ r.step = k.step /\ r.at = k.at /\ r.result = k.result
  BY <1>1 DEF CallRecords
<1>4. r \in CallRecords
  <2>1. "done" \in Phases
    BY DEF Phases
  <2> QED
    BY <1>1, <2>1 DEF CallRecords
<1> HIDE DEF r
<1>5. r.at <= Len(ledger) /\ r.at <= Len(usage_file') /\ (r.result = "error" => r.at = 0)
  <2>1. r.at <= Len(ledger) /\ (r.result = "error" => r.at = 0)
    BY <1>1, <1>3 DEF CallOK
  <2> QED
    BY <1>1, <2>1
<1> QED
  BY <1>1, <1>3, <1>4, <1>5, EndMove

LEMMA PersistFailsKeeps ==
  ASSUME RouterInv, NEW t \in Threads, PersistFails(t)
  PROVE  RouterInv'
<1>1. Set(t, Over(t, "done", "error", 0)) /\ UNCHANGED <<today, ledger, usage_file>> /\ "error" \in Results
  BY DEF PersistFails, Over, Results
<1> QED
  BY <1>1, OverKeeps

LEMMA CallStepKeeps ==
  ASSUME RouterInv, NEW t \in Threads, CallStep(t)
  PROVE  RouterInv'
BY SelectKeeps, CheckCapKeeps, AnswersKeeps, FailsKeeps, PersistKeeps DEF CallStep

\* The file is a part of the ledger, and nobody calls.
LEMMA RouterRestartsKeeps ==
  ASSUME RouterInv, RouterRestarts
  PROVE  RouterInv'
<1>1. ledger' = usage_file /\ calls' = [t \in Threads |-> NoCall] /\ today' = today /\ usage_file' = usage_file
  BY DEF RouterRestarts
<1>2. /\ ledger \in Seq(UsageEntries) /\ Len(usage_file) \in 0 .. Len(ledger)
      /\ usage_file = SubSeq(ledger, 1, Len(usage_file)) /\ Afford(calls, ledger) /\ Hushed(calls, ledger)
      /\ calls \in [Threads -> CallRecords] /\ today \in 1 .. LastDay
      /\ \A i \in DOMAIN ledger : ledger[i].day <= today
  BY DEF RouterInv
<1>3. /\ usage_file \in Seq(UsageEntries) /\ \A i \in 1 .. Len(usage_file) : usage_file[i] = ledger[i]
      /\ \A d : TotalOf(usage_file, d) <= TotalOf(ledger, d)
      /\ \A p, d : Cardinality(SilentOf(usage_file, p, d)) <= Cardinality(SilentOf(ledger, p, d))
  BY <1>2, LedgerCut
<1>4. /\ Len(ledger) \in Nat /\ DOMAIN ledger = 1 .. Len(ledger)
      /\ \A d : TotalOf(ledger, d) \in Nat
      /\ \A p, d : Cardinality(SilentOf(ledger, p, d)) \in Nat
  BY <1>2, LedgerIs
<1>5. /\ Len(usage_file) \in Nat /\ DOMAIN usage_file = 1 .. Len(usage_file)
      /\ \A d : TotalOf(usage_file, d) \in Nat
      /\ \A p, d : Cardinality(SilentOf(usage_file, p, d)) \in Nat
  BY <1>3, LedgerIs
<1>6. /\ IsFiniteSet(Threads) /\ Cardinality(Threads) \in Nat /\ DayCap \in Nat /\ Estimate \in Nat
      /\ Dearest \in Nat /\ Len(Route) \in Nat
  BY ModelRouterAssumption, DearestIs, FS_CardinalityType DEF ValidRouting
<1>7. NoCall \in CallRecords /\ NoCall.pc = "none" /\ NoCall.step = 0 /\ NoCall.at = 0
  BY DEF NoCall, CallRecords, Phases, Results
<1>8. calls' \in [Threads -> CallRecords] /\ \A t \in Threads : calls'[t] = NoCall
  BY <1>1, <1>7
<1>9. \A t \in Threads : CallOK(calls'[t], today, Len(usage_file), Len(usage_file))
  BY <1>5, <1>6, <1>7, <1>8 DEF CallOK
<1>10. \A d, p : Paying(calls', d) = {} /\ Heading(calls', p, d) = {}
  BY <1>7, <1>8 DEF Paying, Heading
<1>11. \A d, p : Cardinality(Paying(calls', d)) = 0 /\ Cardinality(Heading(calls', p, d)) = 0
  BY <1>10, FS_EmptySet
<1>12. Afford(calls', usage_file)
  <2> SUFFICES ASSUME NEW d \in 1 .. LastDay
               PROVE  TotalOf(usage_file, d) + Estimate + Cardinality(Paying(calls', d)) * Dearest
                        <= DayCap + Cardinality(Threads) * Dearest
    BY DEF Afford
  <2> DEFINE a == Cardinality(Paying(calls, d))
  <2> DEFINE k == Cardinality(Threads)
  <2> DEFINE spent == TotalOf(ledger, d)
  <2> DEFINE kept == TotalOf(usage_file, d)
  <2>1. a \in Nat
    <3>1. IsFiniteSet(Paying(calls, d))
      BY <1>6, FS_Subset DEF Paying
    <3> QED
      BY <3>1, FS_CardinalityType
  <2>2. /\ spent \in Nat /\ kept \in Nat /\ kept <= spent /\ k \in Nat
        /\ spent + Estimate + a * Dearest <= DayCap + k * Dearest
    BY <1>2, <1>3, <1>4, <1>5, <1>6 DEF Afford
  <2> HIDE DEF a, k, spent, kept
  <2>3. a * Dearest \in Nat /\ k * Dearest \in Nat /\ 0 * Dearest = 0
    BY <1>6, <2>1, <2>2, Times
  <2> DEFINE x == a * Dearest
  <2> DEFINE z == k * Dearest
  <2>4. kept + Estimate + 0 <= DayCap + z
    <3>1. x \in Nat /\ z \in Nat /\ spent + Estimate + x <= DayCap + z
      BY <2>2, <2>3
    <3> HIDE DEF x, z
    <3> QED
      BY <1>6, <2>2, <3>1
  <2> QED
    BY <1>11, <2>3, <2>4 DEF k, kept
<1>13. Hushed(calls', usage_file)
  <2> SUFFICES ASSUME NEW d \in 1 .. LastDay, NEW p \in Profiles \ Free
               PROVE  Cardinality(SilentOf(usage_file, p, d)) + Cardinality(Heading(calls', p, d))
                        <= Cardinality(Threads)
    BY DEF Hushed
  <2> DEFINE a == Cardinality(Heading(calls, p, d))
  <2>1. a \in Nat
    <3>1. IsFiniteSet(Heading(calls, p, d))
      BY <1>6, FS_Subset DEF Heading
    <3> QED
      BY <3>1, FS_CardinalityType
  <2>2. Cardinality(SilentOf(ledger, p, d)) + a <= Cardinality(Threads)
    BY <1>2 DEF Hushed
  <2>3. Cardinality(SilentOf(usage_file, p, d)) <= Cardinality(Threads)
    <3> HIDE DEF a
    <3> QED
      BY <1>3, <1>4, <1>5, <1>6, <2>1, <2>2
  <2> QED
    BY <1>5, <1>11, <2>3
<1>14. \A i \in DOMAIN usage_file : usage_file[i].day <= today
  BY <1>2, <1>3, <1>4, <1>5
<1>15. Len(usage_file) \in 0 .. Len(usage_file) /\ usage_file = SubSeq(usage_file, 1, Len(usage_file))
  BY <1>3, <1>5
<1> QED
  BY <1>1, <1>2, <1>3, <1>8, <1>9, <1>12, <1>13, <1>14, <1>15 DEF RouterInv

LEMMA MidnightKeeps ==
  ASSUME RouterInv, MidnightPasses
  PROVE  RouterInv'
<1>1. today' = today + 1 /\ today < LastDay /\ UNCHANGED <<ledger, usage_file, calls>>
  BY DEF MidnightPasses
<1>2. LastDay \in Nat /\ today \in 1 .. LastDay /\ today' \in 1 .. LastDay
  BY <1>1, ModelRouterAssumption DEF RouterInv, ValidRouting
<1>3. \A t \in Threads : CallOK(calls[t], today', Len(ledger), Len(usage_file))
  BY <1>1, <1>2 DEF RouterInv, CallOK
<1>4. \A i \in DOMAIN ledger : ledger[i].day <= today'
  <2> TAKE i \in DOMAIN ledger
  <2>1. ledger[i].day \in Nat /\ ledger[i].day <= today
    <3>1. ledger[i] \in UsageEntries
      BY LedgerIs DEF RouterInv
    <3> QED
      BY <1>2, <3>1 DEF RouterInv, UsageEntries
  <2> QED
    BY <1>1, <1>2, <2>1
<1> QED
  BY <1>1, <1>2, <1>3, <1>4 DEF RouterInv

LEMMA RouterInvBounds == RouterInv => LedgerIsBounded
<1> SUFFICES ASSUME RouterInv
             PROVE  LedgerIsBounded
  OBVIOUS
<1>1. ledger \in Seq(UsageEntries) /\ Afford(calls, ledger) /\ Hushed(calls, ledger)
  BY DEF RouterInv
<1>2. /\ IsFiniteSet(Threads) /\ Cardinality(Threads) \in Nat /\ DayCap \in Nat /\ Estimate \in Nat
      /\ Dearest \in Nat
  BY ModelRouterAssumption, DearestIs, FS_CardinalityType DEF ValidRouting
<1>3. RouterTypeOK
  <2>1. ASSUME NEW t \in Threads
        PROVE  /\ calls[t].step \in 0 .. Len(Route) + 1 /\ calls[t].at \in 0 .. Len(ledger)
               /\ calls[t].pc \in {"none", "select", "selected", "asking", "recorded", "done"}
               /\ InCall(t, "asking") /\ calls[t].local => Asked(t) \in Free
    <3>1. /\ calls[t] \in CallRecords /\ CallOK(calls[t], today, Len(ledger), Len(usage_file))
          /\ Len(ledger) \in Nat /\ Len(Route) \in Nat
      BY CallIs
    <3> QED
      BY <3>1 DEF CallOK, CallRecords, Phases, InCall, Asked
  <2> QED
    BY <2>1 DEF RouterTypeOK, RouterInv
<1>4. DayIsBounded
  <2> SUFFICES ASSUME NEW d \in 1 .. LastDay
               PROVE  Total(d) + Estimate <= DayCap + Cardinality(Threads) * Dearest
    BY DEF DayIsBounded, Dearest
  <2> DEFINE a == Cardinality(Paying(calls, d))
  <2> DEFINE k == Cardinality(Threads)
  <2> DEFINE spent == TotalOf(ledger, d)
  <2>1. a \in Nat
    <3>1. IsFiniteSet(Paying(calls, d))
      BY <1>2, FS_Subset DEF Paying
    <3> QED
      BY <3>1, FS_CardinalityType
  <2>2. spent \in Nat /\ k \in Nat /\ spent + Estimate + a * Dearest <= DayCap + k * Dearest
    BY <1>1, <1>2, LedgerIs DEF Afford
  <2>3. Total(d) = spent
    BY DEF Total, TotalOf, Entries, EntriesOf
  <2> DEFINE x == a * Dearest
  <2> DEFINE z == k * Dearest
  <2> HIDE DEF a, k, spent
  <2>4. x \in Nat /\ z \in Nat /\ spent + Estimate + x <= DayCap + z
    BY <1>2, <2>1, <2>2, Times
  <2> HIDE DEF x, z
  <2>5. spent + Estimate <= DayCap + z
    BY <1>2, <2>2, <2>4
  <2> QED
    BY <2>3, <2>5 DEF z, k
<1>5. UnreportedStops
  <2> SUFFICES ASSUME NEW d \in 1 .. LastDay, NEW p \in Profiles \ Free
               PROVE  Cardinality(SilentOf(ledger, p, d)) <= Cardinality(Threads)
    BY DEF UnreportedStops, Profiles, SilentOf, Entries, EntriesOf
  <2>1. IsFiniteSet(Heading(calls, p, d))
    BY <1>2, FS_Subset DEF Heading
  <2>2. Cardinality(Heading(calls, p, d)) \in Nat
    BY <2>1, FS_CardinalityType
  <2>3. Cardinality(SilentOf(ledger, p, d)) + Cardinality(Heading(calls, p, d)) <= Cardinality(Threads)
    BY <1>1 DEF Hushed
  <2>4. Cardinality(SilentOf(ledger, p, d)) \in Nat
    BY <1>1, LedgerIs
  <2> QED
    BY <1>2, <2>2, <2>3, <2>4
<1>6. UsageIsKept
  <2>1. ASSUME NEW t \in Threads, InCall(t, "done")
        PROVE  calls[t].at <= Len(usage_file)
    BY <2>1 DEF RouterInv, CallOK, InCall
  <2> QED
    BY <2>1 DEF UsageIsKept, RouterInv
<1> QED
  BY <1>3, <1>4, <1>5, <1>6 DEF LedgerIsBounded

\* A router that nobody touches.
LEMMA RouterRests ==
  ASSUME RouterInv, UNCHANGED router_vars
  PROVE  RouterInv'
<1>1. today' = today /\ ledger' = ledger /\ usage_file' = usage_file /\ calls' = calls
  BY DEF router_vars
<1> QED
  BY <1>1 DEF RouterInv

LEMMA BeginKeeps ==
  ASSUME RouterInv, NEW t \in Threads, NEW cap \in Nat, cap <= DayCap, NEW local \in BOOLEAN, Begin(t, cap, local)
  PROVE  RouterInv'
<1>1. Set(t, Fresh(cap, local)) /\ UNCHANGED <<today, ledger, usage_file>>
  BY DEF Begin, Fresh
<1> QED
  BY <1>1, StartMove

\* No step of the server breaks the invariant of its router.
LEMMA RouterKeeps ==
  ASSUME RouterInv, [ServicesNext]_<<chat_vars, router_vars>>
  PROVE  RouterInv'
<1>0. DayCap \in Nat /\ DayCap <= DayCap /\ CallCap \in Nat /\ "chat" \in Threads
  BY ModelRouterAssumption DEF ValidRouting
<1>1. ASSUME NEW h \in Handlers, NEW id, NEW by, Send(h, id, by)
      PROVE  RouterInv'
  BY <1>1, RouterRests DEF Send
<1>2. ASSUME NEW h \in Handlers,
             \/ HandlerStep(h) \/ AdmitFails(h) \/ CompleteFails(h) \/ Disconnect(h) \/ ForgetRequest(h)
      PROVE  RouterInv'
  BY <1>2, RouterRests DEF HandlerStep, Admit, Complete, AdmitFails, CompleteFails, Disconnect, ForgetRequest
<1>3. ASSUME Curate
      PROVE  RouterInv'
  BY <1>0, <1>3, BeginKeeps DEF Curate
<1>4. ASSUME AskReply
      PROVE  RouterInv'
  BY <1>0, <1>4, BeginKeeps DEF AskReply
<1>5. ASSUME Curated
      PROVE  RouterInv'
  <2>1. Set("chat", Fresh(DayCap, TRUE)) /\ UNCHANGED <<today, ledger, usage_file>>
    BY <1>5 DEF Curated, Fresh
  <2> QED
    BY <1>0, <2>1, StartMove
<1>6. ASSUME TaskEnds
      PROVE  RouterInv'
  BY <1>0, <1>6, ReturnMove DEF TaskEnds, Return
<1>7. ASSUME NEW t \in Threads, WorkerCalls(t)
      PROVE  RouterInv'
  <2>1. PICK cap \in {DayCap, Min({DayCap, Total(today) + CallCap})} : Begin(t, cap, FALSE)
    BY <1>7 DEF WorkerCalls
  <2>2. Total(today) + CallCap \in Nat
    <3>1. TotalOf(ledger, today) \in Nat
      BY LedgerIs DEF RouterInv
    <3> QED
      BY <1>0, <3>1 DEF Total, TotalOf, Entries, EntriesOf
  <2>3. cap \in Nat /\ cap <= DayCap
    BY <1>0, <2>1, <2>2, LeastOfTwo
  <2> QED
    BY <2>1, <2>3, BeginKeeps
<1>8. ASSUME NEW t \in Threads, WorkerReturns(t)
      PROVE  RouterInv'
  BY <1>8, ReturnMove DEF WorkerReturns, Return
<1>9. ASSUME NEW t \in Threads, CallGoesOn(t)
      PROVE  RouterInv'
  BY <1>9, CallStepKeeps DEF CallGoesOn
<1>10. ASSUME NEW t \in Threads, UsageWriteFails(t)
       PROVE  RouterInv'
  BY <1>10, PersistFailsKeeps DEF UsageWriteFails
<1>11. ASSUME Restart
       PROVE  RouterInv'
  BY <1>11, RouterRestartsKeeps DEF Restart
<1>12. ASSUME Midnight
       PROVE  RouterInv'
  BY <1>12, MidnightKeeps DEF Midnight
<1>13. ASSUME UNCHANGED <<chat_vars, router_vars>>
       PROVE  RouterInv'
  BY <1>13, RouterRests
<1> QED
  BY <1>1, <1>2, <1>3, <1>4, <1>5, <1>6, <1>7, <1>8, <1>9, <1>10, <1>11, <1>12, <1>13 DEF ServicesNext, TaskStep

\* Whatever the chat and the worker ask for, together or one after the other,
\* through failures, restarts and midnights: a day costs no more than its cap
\* and one call of each thread, a silent profile is left alone, and the file
\* keeps what a caller was told it keeps (model.rs, complete_with_budget and
\* persist_model_usage).
THEOREM LedgerStaysBounded == ServicesSpec => []LedgerIsBounded
<1>1. ServicesInit => RouterInv
  BY RouterStartsOK DEF ServicesInit
<1>2. RouterInv /\ [ServicesNext]_<<chat_vars, router_vars>> => RouterInv'
  BY RouterKeeps
<1> QED
  BY <1>1, <1>2, RouterInvBounds, PTL DEF ServicesSpec

-----------------------------------------------------------------------------
(* The invariant of the conversation                                        *)

Statuses == {"pending", "completed", "failed", "interrupted"}
TurnRecords == [id : Requests, status : Statuses]
Places == {"idle", "candidates", "waiting", "dropped"}
HandlerRecords == [id : SUBSET Requests, by : {"http", "mcp"}, pc : Places]

\* The turns are those of the file, and a request has one.
StoreOK ==
    /\ turns \in Seq(TurnRecords) /\ turns_file = turns /\ Len(turns) <= MaxTurns

\* A handler serves one request.  The one that waits has a pending turn, and
\* no other waits for that turn.
HandlersOK ==
    /\ handlers \in [Handlers -> HandlerRecords]
    /\ \A h \in Handlers : ~At(h, "idle") => \E r \in Requests : handlers[h].id = {r}
    /\ \A h \in Handlers : At(h, "waiting") =>
          /\ handlers[h].id \subseteq Ids
          /\ \A i \in DOMAIN turns : turns[i].id \in handlers[h].id => turns[i].status = "pending"
    /\ \A g, h \in Handlers : At(g, "waiting") /\ At(h, "waiting") /\ handlers[g].id = handlers[h].id => g = h

\* One request has the permit: while its candidates are gathered, and from
\* its turn on as long as the blocking task runs, whether its handler lives
\* or not.
PermitOK ==
    /\ permit = {} \/ \E h \in Handlers : permit = {h}
    /\ phase \in {"off", "ready", "curate", "answer"}
    /\ permit = {} => phase = "off"
    /\ \A h \in Handlers : At(h, "candidates") => permit = {h} /\ phase = "off"
    /\ \A h \in permit : phase = "off" => At(h, "candidates")
    /\ \A h \in permit : phase # "off" => At(h, "waiting") \/ At(h, "dropped")
    /\ phase \in {"off", "ready"} => calls["chat"].pc = "none"

\* What a task came to is for a handler that still waits and let go of the
\* permit.
OutcomesOK ==
    /\ outcome \in [Handlers -> SUBSET {"completed", "failed"}]
    /\ \A h \in Handlers : outcome[h] # {} => At(h, "waiting") /\ h \notin permit

\* Only a request that has a turn was asked; the one whose task has not come
\* to its reply was not.
AskedOK ==
    /\ asked \in [Requests -> 0 .. 1]
    /\ \A r \in Requests : asked[r] = 1 => r \in Ids
    /\ phase \in {"ready", "curate"} =>
          \A h \in permit, r \in Requests : handlers[h].id = {r} => asked[r] = 0 /\ r \in Ids

ChatInv == StoreOK /\ HandlersOK /\ PermitOK /\ OutcomesOK /\ AskedOK

\* The handler h becomes r, or what it was with another place.
LEMMA HandlerMoves ==
  ASSUME NEW c \in [Handlers -> HandlerRecords], NEW n, NEW h \in Handlers,
         \/ \E r \in HandlerRecords : n = [c EXCEPT ![h] = r]
         \/ \E pc \in Places : n = [c EXCEPT ![h].pc = pc]
  PROVE  n \in [Handlers -> HandlerRecords] /\ \A g \in Handlers \ {h} : n[g] = c[g]
BY DEF HandlerRecords

LEMMA HandlerGoes ==
  ASSUME NEW c \in [Handlers -> HandlerRecords], NEW n, NEW h \in Handlers, NEW pc \in Places,
         n = [c EXCEPT ![h].pc = pc]
  PROVE  n[h].id = c[h].id /\ n[h].by = c[h].by /\ n[h].pc = pc
BY DEF HandlerRecords

LEMMA NoRequestIs ==
  NoRequest \in HandlerRecords /\ NoRequest.id = {} /\ NoRequest.pc = "idle"
BY DEF NoRequest, HandlerRecords, Places

\* A turn more.
LEMMA TurnAppends ==
  ASSUME NEW s \in Seq(TurnRecords), NEW r \in Requests
  PROVE  LET v == Append(s, [id |-> r, status |-> "pending"])
         IN  /\ v \in Seq(TurnRecords) /\ Len(v) = Len(s) + 1 /\ DOMAIN s = 1 .. Len(s) /\ DOMAIN v = 1 .. Len(v)
             /\ Len(s) \in Nat /\ \A i \in DOMAIN s : v[i] = s[i]
             /\ v[Len(s) + 1].id = r /\ v[Len(s) + 1].status = "pending"
<1> DEFINE e == [id |-> r, status |-> "pending"]
<1>1. e \in TurnRecords /\ e.id = r /\ e.status = "pending"
  BY DEF TurnRecords, Statuses
<1> HIDE DEF e
<1>2. /\ Append(s, e) \in Seq(TurnRecords) /\ Len(Append(s, e)) = Len(s) + 1
      /\ DOMAIN s = 1 .. Len(s) /\ DOMAIN Append(s, e) = 1 .. Len(Append(s, e))
      /\ Len(s) \in Nat /\ (\A i \in DOMAIN s : Append(s, e)[i] = s[i]) /\ Append(s, e)[Len(s) + 1] = e
  BY <1>1
<1> QED
  BY <1>1, <1>2 DEF e

\* Turns keep their requests when their status changes.
SameTurns(s, v) ==
    /\ v \in Seq(TurnRecords) /\ DOMAIN v = DOMAIN s /\ Len(v) = Len(s)
    /\ \A i \in DOMAIN s : v[i].id = s[i].id

\* The turn of a request comes to something.
LEMMA StatusChanges ==
  ASSUME NEW s \in Seq(TurnRecords), NEW r, NEW status \in Statuses
  PROVE  LET v == WithStatus(s, r, status)
         IN  SameTurns(s, v) /\ \A i \in DOMAIN s : s[i].id # r => v[i] = s[i]
<1> DEFINE f == [i \in DOMAIN s |-> IF s[i].id = r THEN [s[i] EXCEPT !.status = status] ELSE s[i]]
<1>1. DOMAIN s = 1 .. Len(s) /\ Len(s) \in Nat /\ \A i \in DOMAIN s : s[i] \in TurnRecords
  OBVIOUS
<1>2. ASSUME NEW i \in DOMAIN s
      PROVE  f[i] \in TurnRecords /\ f[i].id = s[i].id /\ (s[i].id # r => f[i] = s[i])
  BY <1>1 DEF TurnRecords
<1>3. f \in [1 .. Len(s) -> TurnRecords] /\ DOMAIN f = DOMAIN s
  BY <1>1, <1>2
<1>4. f \in Seq(TurnRecords)
  <2> HIDE DEF f
  <2> QED
    BY <1>1, <1>3
<1>5. Len(f) = Len(s)
  <2> HIDE DEF f
  <2> QED
    BY <1>1, <1>3, <1>4, LenProperties
<1> QED
  BY <1>2, <1>3, <1>4, <1>5 DEF SameTurns, WithStatus

\* What open makes of the turns.
LEMMA TurnsInterrupted ==
  ASSUME NEW s \in Seq(TurnRecords), turns_file = s
  PROVE  SameTurns(s, Interrupted) /\ \A i \in DOMAIN s : s[i].status # "pending" => Interrupted[i] = s[i]
<1> DEFINE f == [i \in DOMAIN s |-> IF s[i].status = "pending" THEN [s[i] EXCEPT !.status = "interrupted"] ELSE s[i]]
<1>1. DOMAIN s = 1 .. Len(s) /\ Len(s) \in Nat /\ \A i \in DOMAIN s : s[i] \in TurnRecords
  OBVIOUS
<1>2. ASSUME NEW i \in DOMAIN s
      PROVE  f[i] \in TurnRecords /\ f[i].id = s[i].id /\ (s[i].status # "pending" => f[i] = s[i])
  BY <1>1 DEF TurnRecords, Statuses
<1>3. f \in [1 .. Len(s) -> TurnRecords] /\ DOMAIN f = DOMAIN s
  BY <1>1, <1>2
<1>4. f \in Seq(TurnRecords)
  <2> HIDE DEF f
  <2> QED
    BY <1>1, <1>3
<1>5. Len(f) = Len(s)
  <2> HIDE DEF f
  <2> QED
    BY <1>1, <1>3, <1>4, LenProperties
<1> QED
  BY <1>2, <1>3, <1>4, <1>5 DEF SameTurns, Interrupted

-----------------------------------------------------------------------------
(* The steps of the conversation                                            *)

\* Steps that leave the conversation alone.
LEMMA ChatRests ==
  ASSUME ChatInv, UNCHANGED <<turns, turns_file, permit, phase, outcome, handlers, asked>>,
         phase \in {"off", "ready"} => calls'["chat"].pc = "none"
  PROVE  ChatInv'
<1>1. turns' = turns /\ turns_file' = turns_file /\ permit' = permit /\ phase' = phase /\ outcome' = outcome
      /\ handlers' = handlers /\ asked' = asked
  OBVIOUS
<1>2. StoreOK' /\ HandlersOK' /\ OutcomesOK' /\ AskedOK'
  BY <1>1 DEF ChatInv, StoreOK, HandlersOK, OutcomesOK, AskedOK, At, Ids
<1>3. PermitOK'
  BY <1>1 DEF ChatInv, PermitOK, At
<1> QED
  BY <1>2, <1>3 DEF ChatInv

\* A call that nobody made does not move.
LEMMA NoCallRests ==
  ASSUME RouterInv, NEW t \in Threads, CallStep(t) \/ PersistFails(t), calls["chat"].pc = "none"
  PROVE  calls'["chat"].pc = "none"
<1>1. "chat" \in Threads /\ calls \in [Threads -> CallRecords]
  BY ModelRouterAssumption DEF RouterInv
<1>2. t # "chat"
  BY DEF CallStep, Select, CheckCap, Answers, Fails, Persist, PersistFails, InCall
<1>3. \E r : calls' = [calls EXCEPT ![t] = r]
  <2>1. CASE Select(t)
    BY <2>1 DEF Select, Skip, GoTo, Set
  <2>2. CASE CheckCap(t)
    BY <2>2 DEF CheckCap, Skip, GoTo, Set
  <2>3. CASE Answers(t)
    BY <2>3 DEF Answers, Set
  <2>4. CASE Fails(t)
    BY <2>4 DEF Fails, Skip, Set
  <2>5. CASE Persist(t)
    BY <2>5 DEF Persist, GoTo, Set
  <2>6. CASE PersistFails(t)
    BY <2>6 DEF PersistFails, Set
  <2> QED
    BY <2>1, <2>2, <2>3, <2>4, <2>5, <2>6 DEF CallStep
<1> QED
  BY <1>1, <1>2, <1>3

LEMMA SendKeeps ==
  ASSUME RouterInv, ChatInv, NEW h \in Handlers, NEW id \in Requests, NEW by \in {"http", "mcp"}, Send(h, id, by)
  PROVE  ChatInv'
<1> DEFINE r == [id |-> {id}, by |-> by, pc |-> "candidates"]
<1>1. /\ At(h, "idle") /\ permit = {} /\ permit' = {h} /\ handlers' = [handlers EXCEPT ![h] = r]
      /\ UNCHANGED <<turns, turns_file, phase, outcome, asked, today, ledger, usage_file, calls>>
  BY DEF Send, store, router_vars
<1>2. r \in HandlerRecords /\ r.id = {id} /\ r.pc = "candidates"
  BY DEF HandlerRecords, Places
<1>3. handlers \in [Handlers -> HandlerRecords]
  BY DEF ChatInv, HandlersOK
<1> HIDE DEF r
<1>4. /\ handlers' \in [Handlers -> HandlerRecords] /\ handlers'[h] = r
      /\ \A g \in Handlers \ {h} : handlers'[g] = handlers[g]
  BY <1>1, <1>2, <1>3
<1>5. phase = "off" /\ (\A g \in Handlers : ~At(g, "candidates")) /\ calls["chat"].pc = "none"
  BY <1>1 DEF ChatInv, PermitOK
<1>6. StoreOK'
  BY <1>1 DEF ChatInv, StoreOK
<1>7. HandlersOK'
  BY <1>1, <1>2, <1>4 DEF ChatInv, HandlersOK, At, Ids
<1>8. PermitOK'
  BY <1>1, <1>2, <1>4, <1>5 DEF PermitOK, At
<1>9. OutcomesOK'
  BY <1>1, <1>2, <1>4 DEF ChatInv, OutcomesOK, At
<1>10. AskedOK'
  BY <1>1, <1>5 DEF ChatInv, AskedOK, Ids
<1> QED
  BY <1>6, <1>7, <1>8, <1>9, <1>10 DEF ChatInv

\* A request that goes away before it has a turn.
LEMMA GoesAway ==
  ASSUME ChatInv, NEW h \in Handlers, At(h, "candidates"), Rests(h), permit' = {}, phase' = phase,
         outcome' \in {outcome, [outcome EXCEPT ![h] = {}]},
         UNCHANGED <<turns, turns_file, asked, calls>>
  PROVE  ChatInv'
<1>1. handlers' = [handlers EXCEPT ![h] = NoRequest] /\ handlers \in [Handlers -> HandlerRecords]
      /\ permit = {h} /\ phase = "off"
  BY DEF Rests, ChatInv, HandlersOK, PermitOK
<1>2. /\ handlers' \in [Handlers -> HandlerRecords] /\ handlers'[h] = NoRequest
      /\ \A g \in Handlers \ {h} : handlers'[g] = handlers[g]
  BY <1>1, NoRequestIs
<1>3. \A g \in Handlers : At(g, "candidates") => g = h
  BY <1>1 DEF ChatInv, PermitOK
<1>4. outcome' = outcome
  <2>1. outcome[h] = {} /\ outcome \in [Handlers -> SUBSET {"completed", "failed"}]
    BY <1>1 DEF ChatInv, OutcomesOK
  <2> QED
    BY <2>1
<1>5. StoreOK'
  BY DEF ChatInv, StoreOK
<1>6. HandlersOK'
  BY <1>2, NoRequestIs DEF ChatInv, HandlersOK, At, Ids
<1>7. PermitOK'
  BY <1>1, <1>2, <1>3, NoRequestIs DEF ChatInv, PermitOK, At
<1>8. OutcomesOK'
  BY <1>1, <1>2, <1>4, NoRequestIs DEF ChatInv, OutcomesOK, At
<1>9. AskedOK'
  BY <1>1 DEF ChatInv, AskedOK, Ids
<1> QED
  BY <1>5, <1>6, <1>7, <1>8, <1>9 DEF ChatInv

LEMMA AdmitKeeps ==
  ASSUME RouterInv, ChatInv, NEW h \in Handlers, Admit(h)
  PROVE  ChatInv'
<1>1. /\ At(h, "candidates") /\ UNCHANGED <<outcome, asked, today, ledger, usage_file, calls>>
  BY DEF Admit, router_vars
<1>2. PICK id \in handlers[h].id :
          IF id \in Ids \/ Len(turns) >= MaxTurns
          THEN Rests(h) /\ permit' = {} /\ UNCHANGED <<store, phase>>
          ELSE /\ turns' = Append(turns, [id |-> id, status |-> "pending"])
               /\ turns_file' = turns'
               /\ Moves(h, "waiting") /\ phase' = "ready" /\ UNCHANGED permit
  BY DEF Admit
<1>3. handlers \in [Handlers -> HandlerRecords] /\ permit = {h} /\ phase = "off" /\ calls["chat"].pc = "none"
      /\ handlers[h].pc = "candidates"
  BY <1>1 DEF ChatInv, HandlersOK, PermitOK, At
<1>4. id \in Requests /\ handlers[h].id = {id}
  BY <1>1, <1>2, <1>3 DEF ChatInv, HandlersOK, At, HandlerRecords
<1>5. CASE id \in Ids \/ Len(turns) >= MaxTurns
  BY <1>1, <1>2, <1>5, GoesAway DEF store
<1>6. CASE ~(id \in Ids \/ Len(turns) >= MaxTurns)
  <2>1. /\ turns' = Append(turns, [id |-> id, status |-> "pending"]) /\ turns_file' = turns'
        /\ handlers' = [handlers EXCEPT ![h].pc = "waiting"] /\ phase' = "ready" /\ permit' = permit
    BY <1>2, <1>6 DEF Moves
  <2>2. turns \in Seq(TurnRecords) /\ turns_file = turns /\ Len(turns) <= MaxTurns /\ MaxTurns \in Nat
    BY ChatSessionsAssumption DEF ChatInv, StoreOK
  <2>3. /\ turns' \in Seq(TurnRecords) /\ Len(turns') = Len(turns) + 1 /\ Len(turns) \in Nat
        /\ DOMAIN turns = 1 .. Len(turns) /\ DOMAIN turns' = 1 .. Len(turns')
        /\ \A i \in DOMAIN turns : turns'[i] = turns[i]
        /\ turns'[Len(turns) + 1].id = id /\ turns'[Len(turns) + 1].status = "pending"
    BY <1>4, <2>1, <2>2, TurnAppends
  <2>4. Ids' = Ids \cup {id} /\ id \notin Ids
    BY <1>6, <2>3 DEF Ids
  <2>5. handlers'[h].id = {id} /\ handlers'[h].pc = "waiting"
    BY <1>3, <1>4, <2>1, HandlerGoes DEF Places
  <2>6. handlers' \in [Handlers -> HandlerRecords] /\ \A g \in Handlers \ {h} : handlers'[g] = handlers[g]
    BY <1>3, <2>1, HandlerMoves DEF Places
  <2>7. StoreOK'
    BY <1>6, <2>1, <2>2, <2>3 DEF StoreOK
  <2>8. HandlersOK'
    <3>1. ASSUME NEW g \in Handlers, At(g, "idle")' = FALSE
          PROVE  \E r \in Requests : handlers'[g].id = {r}
      BY <1>4, <2>5, <2>6, <3>1 DEF ChatInv, HandlersOK, At
    <3>2. ASSUME NEW g \in Handlers, handlers'[g].pc = "waiting"
          PROVE  /\ handlers'[g].id \subseteq Ids'
                 /\ \A i \in DOMAIN turns' : turns'[i].id \in handlers'[g].id => turns'[i].status = "pending"
                 /\ g # h => id \notin handlers'[g].id
      <4>1. CASE g = h
        <5>1. ASSUME NEW i \in DOMAIN turns', turns'[i].id \in {id}
              PROVE  turns'[i].status = "pending"
          <6>1. i \notin DOMAIN turns
            BY <2>3, <2>4, <5>1 DEF Ids
          <6>2. i = Len(turns) + 1
            BY <2>3, <6>1
          <6> QED
            BY <2>3, <6>2
        <5> QED
          BY <2>4, <2>5, <4>1, <5>1
      <4>2. CASE g # h
        <5>1. /\ handlers'[g] = handlers[g] /\ handlers[g].id \subseteq Ids
              /\ \A i \in DOMAIN turns : turns[i].id \in handlers[g].id => turns[i].status = "pending"
          BY <2>6, <3>2, <4>2 DEF ChatInv, HandlersOK, At
        <5>2. ASSUME NEW i \in DOMAIN turns', turns'[i].id \in handlers[g].id
              PROVE  turns'[i].status = "pending"
          <6>1. CASE i \in DOMAIN turns
            BY <2>3, <5>1, <5>2, <6>1
          <6>2. CASE i \notin DOMAIN turns
            <7>1. i = Len(turns) + 1
              BY <2>3, <6>2
            <7> QED
              BY <2>3, <7>1
          <6> QED
            BY <6>1, <6>2
        <5> QED
          BY <2>4, <5>1, <5>2
      <4> QED
        BY <4>1, <4>2
    <3>3. ASSUME NEW g \in Handlers, NEW k \in Handlers, handlers'[g].pc = "waiting", handlers'[k].pc = "waiting",
                 handlers'[g].id = handlers'[k].id
          PROVE  g = k
      <4>1. CASE g = h
        BY <2>5, <3>2, <3>3, <4>1
      <4>2. CASE k = h
        BY <2>5, <3>2, <3>3, <4>2
      <4>3. CASE g # h /\ k # h
        BY <2>6, <3>3, <4>3 DEF ChatInv, HandlersOK, At
      <4> QED
        BY <4>1, <4>2, <4>3
    <3> QED
      BY <2>6, <3>1, <3>2, <3>3 DEF HandlersOK, At
  <2>9. PermitOK'
    BY <1>1, <1>3, <2>1, <2>5, <2>6 DEF ChatInv, PermitOK, At
  <2>10. OutcomesOK'
    BY <1>1, <1>3, <2>1, <2>5, <2>6 DEF ChatInv, OutcomesOK, At
  <2>11. AskedOK'
    <3>1. asked[id] = 0
      BY <1>4, <2>4 DEF ChatInv, AskedOK
    <3> QED
      BY <1>1, <1>3, <1>4, <2>1, <2>4, <2>5, <3>1 DEF ChatInv, AskedOK
  <2> QED
    BY <2>7, <2>8, <2>9, <2>10, <2>11 DEF ChatInv
<1> QED
  BY <1>5, <1>6

\* A handler that waits no longer: it rests, or is dropped.
LEMMA LetsGo ==
  ASSUME ChatInv, NEW h \in Handlers, At(h, "waiting") \/ At(h, "dropped"),
         \/ Rests(h) /\ h \notin permit
         \/ Moves(h, "dropped"),
         outcome' = [outcome EXCEPT ![h] = {}], SameTurns(turns, turns'), turns_file' = turns',
         \A i \in DOMAIN turns : turns'[i] = turns[i] \/ (At(h, "waiting") /\ turns[i].id \in handlers[h].id),
         UNCHANGED <<permit, phase, asked, calls>>
  PROVE  ChatInv'
<1>1. handlers \in [Handlers -> HandlerRecords] /\ outcome \in [Handlers -> SUBSET {"completed", "failed"}]
  BY DEF ChatInv, HandlersOK, OutcomesOK
<1>2. handlers' \in [Handlers -> HandlerRecords] /\ \A g \in Handlers \ {h} : handlers'[g] = handlers[g]
  <2>1. CASE Rests(h)
    BY <1>1, <2>1, NoRequestIs DEF Rests
  <2>2. CASE Moves(h, "dropped")
    <3>1. handlers' = [handlers EXCEPT ![h].pc = "dropped"] /\ "dropped" \in Places
      BY <2>2 DEF Moves, Places
    <3> QED
      BY <1>1, <3>1, HandlerMoves
  <2> QED
    BY <2>1, <2>2
<1>3. \/ handlers'[h].pc = "idle" /\ h \notin permit
      \/ handlers'[h].pc = "dropped" /\ handlers'[h].id = handlers[h].id
  <2>1. CASE Rests(h) /\ h \notin permit
    BY <1>1, <2>1, NoRequestIs DEF Rests
  <2>2. CASE Moves(h, "dropped")
    <3>1. handlers' = [handlers EXCEPT ![h].pc = "dropped"] /\ "dropped" \in Places
      BY <2>2 DEF Moves, Places
    <3> QED
      BY <1>1, <3>1, HandlerGoes
  <2> QED
    BY <2>1, <2>2
<1>4. /\ outcome' \in [Handlers -> SUBSET {"completed", "failed"}] /\ outcome'[h] = {}
      /\ \A g \in Handlers \ {h} : outcome'[g] = outcome[g]
  BY <1>1
<1>5. /\ turns \in Seq(TurnRecords) /\ turns' \in Seq(TurnRecords) /\ DOMAIN turns' = DOMAIN turns
      /\ Len(turns') = Len(turns) /\ \A i \in DOMAIN turns : turns'[i].id = turns[i].id
  BY DEF ChatInv, StoreOK, SameTurns
<1>6. Ids' = Ids
  BY <1>5 DEF Ids
<1>7. StoreOK'
  BY <1>5 DEF ChatInv, StoreOK
<1>8. HandlersOK'
  <2>1. ASSUME NEW g \in Handlers, handlers'[g].pc # "idle"
        PROVE  \E r \in Requests : handlers'[g].id = {r}
    BY <1>2, <1>3, <2>1 DEF ChatInv, HandlersOK, At
  <2>2. ASSUME NEW g \in Handlers, handlers'[g].pc = "waiting"
        PROVE  /\ handlers'[g].id \subseteq Ids'
               /\ \A i \in DOMAIN turns' : turns'[i].id \in handlers'[g].id => turns'[i].status = "pending"
    <3>1. g # h /\ handlers'[g] = handlers[g] /\ handlers[g].pc = "waiting"
      BY <1>2, <1>3, <2>2
    <3>2. /\ handlers[g].id \subseteq Ids
          /\ \A i \in DOMAIN turns : turns[i].id \in handlers[g].id => turns[i].status = "pending"
          /\ \E r \in Requests : handlers[g].id = {r}
          /\ \E r \in Requests : handlers[h].id = {r}
          /\ handlers[h].pc = "waiting" => handlers[g].id # handlers[h].id
      BY <3>1 DEF ChatInv, HandlersOK, At
    <3>3. ASSUME NEW i \in DOMAIN turns, turns[i].id \in handlers[g].id
          PROVE  turns'[i].status = "pending"
      <4>1. ~(handlers[h].pc = "waiting" /\ turns[i].id \in handlers[h].id)
        BY <3>2, <3>3
      <4> QED
        BY <3>2, <3>3, <4>1 DEF At
    <3> QED
      BY <1>5, <1>6, <3>1, <3>2, <3>3
  <2>3. ASSUME NEW g \in Handlers, NEW k \in Handlers, handlers'[g].pc = "waiting", handlers'[k].pc = "waiting",
               handlers'[g].id = handlers'[k].id
        PROVE  g = k
    BY <1>2, <1>3, <2>3 DEF ChatInv, HandlersOK, At
  <2> QED
    BY <1>2, <2>1, <2>2, <2>3 DEF HandlersOK, At
<1>9. PermitOK'
  BY <1>2, <1>3 DEF ChatInv, PermitOK, At
<1>10. OutcomesOK'
  BY <1>2, <1>3, <1>4 DEF ChatInv, OutcomesOK, At
<1>11. AskedOK'
  <2>1. ASSUME phase \in {"ready", "curate"}, NEW g \in permit, NEW r \in Requests, handlers'[g].id = {r}
        PROVE  asked[r] = 0 /\ r \in Ids
    <3>1. g \in Handlers
      BY <2>1 DEF ChatInv, PermitOK
    <3>2. handlers'[g].id = handlers[g].id
      BY <1>2, <1>3, <2>1, <3>1
    <3> QED
      BY <2>1, <3>2 DEF ChatInv, AskedOK
  <2> QED
    BY <1>6, <2>1 DEF ChatInv, AskedOK
<1> QED
  BY <1>7, <1>8, <1>9, <1>10, <1>11 DEF ChatInv

LEMMA TurnsRest ==
  ASSUME ChatInv, UNCHANGED <<turns, turns_file>>
  PROVE  SameTurns(turns, turns') /\ turns_file' = turns' /\ \A i \in DOMAIN turns : turns'[i] = turns[i]
BY DEF ChatInv, StoreOK, SameTurns

LEMMA CompleteKeeps ==
  ASSUME ChatInv, NEW h \in Handlers, Complete(h)
  PROVE  ChatInv'
<1>1. PICK status \in outcome[h], id \in handlers[h].id : turns' = WithStatus(turns, id, status)
  BY DEF Complete
<1>2. /\ At(h, "waiting") /\ turns_file' = turns' /\ Rests(h) /\ outcome' = [outcome EXCEPT ![h] = {}]
      /\ UNCHANGED <<permit, phase, asked, calls>>
  BY DEF Complete, router_vars
<1>3. status \in Statuses /\ h \notin permit
  BY <1>1 DEF ChatInv, OutcomesOK, Statuses
<1>4. turns \in Seq(TurnRecords)
  BY DEF ChatInv, StoreOK
<1>5. SameTurns(turns, turns') /\ \A i \in DOMAIN turns : turns[i].id # id => turns'[i] = turns[i]
  BY <1>1, <1>3, <1>4, StatusChanges
<1>6. \A i \in DOMAIN turns : turns'[i] = turns[i] \/ (At(h, "waiting") /\ turns[i].id \in handlers[h].id)
  BY <1>1, <1>2, <1>5
<1> QED
  BY <1>2, <1>3, <1>5, <1>6, LetsGo

LEMMA CompleteFailsKeeps ==
  ASSUME ChatInv, NEW h \in Handlers, CompleteFails(h)
  PROVE  ChatInv'
<1>1. /\ At(h, "waiting") /\ outcome[h] # {} /\ Rests(h) /\ outcome' = [outcome EXCEPT ![h] = {}]
      /\ UNCHANGED <<turns, turns_file, permit, phase, asked, calls>>
  BY DEF CompleteFails, store, router_vars
<1>2. h \notin permit
  BY <1>1 DEF ChatInv, OutcomesOK
<1>3. SameTurns(turns, turns') /\ turns_file' = turns' /\ \A i \in DOMAIN turns : turns'[i] = turns[i]
  BY <1>1, TurnsRest
<1> QED
  BY <1>1, <1>2, <1>3, LetsGo

LEMMA DisconnectKeeps ==
  ASSUME ChatInv, NEW h \in Handlers, Disconnect(h)
  PROVE  ChatInv'
<1>1. /\ At(h, "candidates") \/ At(h, "waiting")
      /\ outcome' = [outcome EXCEPT ![h] = {}]
      /\ UNCHANGED <<turns, turns_file, phase, asked, calls>>
  BY DEF Disconnect, store, router_vars
<1>2. CASE At(h, "waiting")
  <2>1. Moves(h, "dropped") /\ permit' = permit
    BY <1>2 DEF Disconnect
  <2>2. SameTurns(turns, turns') /\ turns_file' = turns' /\ \A i \in DOMAIN turns : turns'[i] = turns[i]
    BY <1>1, TurnsRest
  <2> QED
    BY <1>1, <1>2, <2>1, <2>2, LetsGo
<1>3. CASE ~At(h, "waiting")
  <2>1. At(h, "candidates") /\ Rests(h) /\ permit' = {}
    BY <1>1, <1>3 DEF Disconnect
  <2> QED
    BY <1>1, <2>1, GoesAway
<1> QED
  BY <1>2, <1>3

LEMMA ForgetRequestKeeps ==
  ASSUME ChatInv, NEW h \in Handlers, ForgetRequest(h)
  PROVE  ChatInv'
<1>1. /\ At(h, "dropped") /\ h \notin permit /\ Rests(h)
      /\ UNCHANGED <<turns, turns_file, permit, phase, outcome, asked, calls>>
  BY DEF ForgetRequest, store, task, router_vars
<1>2. outcome' = [outcome EXCEPT ![h] = {}]
  <2>1. outcome \in [Handlers -> SUBSET {"completed", "failed"}] /\ outcome[h] = {}
    BY <1>1 DEF ChatInv, OutcomesOK, At
  <2> QED
    BY <1>1, <2>1
<1>3. SameTurns(turns, turns') /\ turns_file' = turns' /\ \A i \in DOMAIN turns : turns'[i] = turns[i]
  BY <1>1, TurnsRest
<1> QED
  BY <1>1, <1>2, <1>3, LetsGo

\* The task calls the curator, or is done without an answer of it; what it
\* does ends with the permit.
LEMMA CurateKeeps ==
  ASSUME ChatInv, Curate
  PROVE  ChatInv'
<1>1. /\ phase = "ready" /\ phase' = "curate"
      /\ UNCHANGED <<turns, turns_file, permit, outcome, handlers, asked>>
  BY DEF Curate, store
<1>2. StoreOK' /\ HandlersOK' /\ OutcomesOK'
  BY <1>1 DEF ChatInv, StoreOK, HandlersOK, OutcomesOK, At, Ids
<1>3. PermitOK'
  BY <1>1 DEF ChatInv, PermitOK, At
<1>4. AskedOK'
  BY <1>1 DEF ChatInv, AskedOK, Ids
<1> QED
  BY <1>2, <1>3, <1>4 DEF ChatInv

\* The one place where a model is asked for the reply of a request.
LEMMA AskKeeps ==
  ASSUME ChatInv, phase \in {"ready", "curate"}, phase' = "answer",
         \E h \in permit : asked' = [r \in Requests |-> IF handlers[h].id = {r} THEN asked[r] + 1 ELSE asked[r]],
         UNCHANGED <<turns, turns_file, permit, outcome, handlers>>
  PROVE  ChatInv'
<1>1. PICK h \in permit : asked' = [r \in Requests |-> IF handlers[h].id = {r} THEN asked[r] + 1 ELSE asked[r]]
  OBVIOUS
<1>2. asked \in [Requests -> 0 .. 1] /\ \A r \in Requests : handlers[h].id = {r} => asked[r] = 0 /\ r \in Ids
  BY <1>1 DEF ChatInv, AskedOK
<1>3. ASSUME NEW r \in Requests
      PROVE  asked'[r] \in 0 .. 1 /\ (asked'[r] = 1 => r \in Ids)
  BY <1>1, <1>2 DEF ChatInv, AskedOK
<1>4. AskedOK'
  BY <1>1, <1>3 DEF AskedOK, Ids
<1>5. StoreOK' /\ HandlersOK' /\ OutcomesOK'
  BY DEF ChatInv, StoreOK, HandlersOK, OutcomesOK, At, Ids
<1>6. PermitOK'
  BY DEF ChatInv, PermitOK, At
<1> QED
  BY <1>4, <1>5, <1>6 DEF ChatInv

LEMMA TaskEndsKeeps ==
  ASSUME RouterInv, ChatInv, TaskEnds
  PROVE  ChatInv'
<1>1. /\ calls["chat"].pc = "done" /\ phase' = "off" /\ permit' = {}
      /\ calls' = [calls EXCEPT !["chat"] = NoCall]
      /\ UNCHANGED <<turns, turns_file, handlers, asked>>
  BY DEF TaskEnds, Return, Set, InCall, store
<1>2. outcome' = [h \in Handlers |-> IF h \in permit /\ At(h, "waiting")
                                     THEN {IF calls["chat"].result = "answer" THEN "completed" ELSE "failed"}
                                     ELSE outcome[h]]
  BY DEF TaskEnds
<1>3. phase \notin {"off", "ready"}
  BY <1>1 DEF ChatInv, PermitOK
<1>4. \A h \in Handlers : ~At(h, "candidates")
  BY <1>3 DEF ChatInv, PermitOK
<1>5. calls'["chat"].pc = "none"
  BY <1>1, ModelRouterAssumption DEF RouterInv, NoCall
<1>6. StoreOK' /\ HandlersOK'
  BY <1>1 DEF ChatInv, StoreOK, HandlersOK, At, Ids
<1>7. PermitOK'
  BY <1>1, <1>4, <1>5 DEF PermitOK, At
<1>8. OutcomesOK'
  <2>1. ASSUME NEW h \in Handlers
        PROVE  /\ outcome'[h] \in SUBSET {"completed", "failed"}
               /\ outcome'[h] # {} => At(h, "waiting")
    BY <1>2 DEF ChatInv, OutcomesOK
  <2>2. outcome' \in [Handlers -> SUBSET {"completed", "failed"}]
    BY <1>2, <2>1
  <2> QED
    BY <1>1, <2>1, <2>2 DEF OutcomesOK, At
<1>9. AskedOK'
  BY <1>1 DEF ChatInv, AskedOK, Ids
<1> QED
  BY <1>6, <1>7, <1>8, <1>9 DEF ChatInv

LEMMA RestartKeeps ==
  ASSUME ChatInv, Restart
  PROVE  ChatInv'
<1>1. /\ turns' = Interrupted /\ turns_file' = turns' /\ permit' = {} /\ phase' = "off"
      /\ outcome' = [h \in Handlers |-> {}] /\ handlers' = [h \in Handlers |-> NoRequest]
      /\ asked' = asked /\ calls' = [t \in Threads |-> NoCall]
  BY DEF Restart, RouterRestarts
<1>2. turns \in Seq(TurnRecords) /\ turns_file = turns /\ Len(turns) <= MaxTurns
  BY DEF ChatInv, StoreOK
<1>3. SameTurns(turns, turns')
  BY <1>1, <1>2, TurnsInterrupted
<1>4. Ids' = Ids
  BY <1>3 DEF SameTurns, Ids
<1>5. StoreOK'
  BY <1>1, <1>2, <1>3 DEF StoreOK, SameTurns
<1>6. handlers' \in [Handlers -> HandlerRecords] /\ \A h \in Handlers : handlers'[h].pc = "idle"
  BY <1>1, NoRequestIs
<1>7. HandlersOK'
  BY <1>6 DEF HandlersOK, At
<1>8. PermitOK'
  BY <1>1, <1>6, ModelRouterAssumption DEF PermitOK, At, NoCall
<1>9. OutcomesOK'
  BY <1>1 DEF OutcomesOK
<1>10. AskedOK'
  BY <1>1, <1>4 DEF ChatInv, AskedOK
<1> QED
  BY <1>5, <1>7, <1>8, <1>9, <1>10 DEF ChatInv

LEMMA ChatStartsOK == ServicesInit => ChatInv
<1> SUFFICES ASSUME ServicesInit
             PROVE  ChatInv
  OBVIOUS
<1>1. /\ turns = <<>> /\ turns_file = <<>> /\ permit = {} /\ phase = "off"
      /\ outcome = [h \in Handlers |-> {}] /\ handlers = [h \in Handlers |-> NoRequest]
      /\ asked = [r \in Requests |-> 0] /\ calls = [t \in Threads |-> NoCall]
  BY DEF ServicesInit, ChatInit, RouterInit
<1>2. handlers \in [Handlers -> HandlerRecords] /\ \A h \in Handlers : handlers[h].pc = "idle"
  BY <1>1, NoRequestIs
<1>3. StoreOK
  <2>1. <<>> \in Seq(TurnRecords) /\ Len(<<>>) = 0
    OBVIOUS
  <2> QED
    BY <1>1, <2>1, ChatSessionsAssumption DEF StoreOK
<1>4. HandlersOK
  BY <1>2 DEF HandlersOK, At
<1>5. PermitOK
  BY <1>1, <1>2, ModelRouterAssumption DEF PermitOK, At, NoCall
<1>6. OutcomesOK
  BY <1>1 DEF OutcomesOK
<1>7. AskedOK
  BY <1>1 DEF AskedOK
<1> QED
  BY <1>3, <1>4, <1>5, <1>6, <1>7 DEF ChatInv

\* No step of the server breaks the invariant of its conversation.
LEMMA ChatKeeps ==
  ASSUME RouterInv, ChatInv, [ServicesNext]_<<chat_vars, router_vars>>
  PROVE  ChatInv'
<1>0. calls \in [Threads -> CallRecords]
  BY DEF RouterInv
<1>1. ASSUME NEW h \in Handlers, NEW id \in Requests, NEW by \in {"http", "mcp"}, Send(h, id, by)
      PROVE  ChatInv'
  BY <1>1, SendKeeps
<1>2. ASSUME NEW h \in Handlers, HandlerStep(h)
      PROVE  ChatInv'
  BY <1>2, AdmitKeeps, CompleteKeeps DEF HandlerStep
<1>3. ASSUME NEW h \in Handlers, AdmitFails(h)
      PROVE  ChatInv'
  BY <1>3, GoesAway DEF AdmitFails, store, router_vars
<1>4. ASSUME NEW h \in Handlers, CompleteFails(h) \/ Disconnect(h) \/ ForgetRequest(h)
      PROVE  ChatInv'
  BY <1>4, CompleteFailsKeeps, DisconnectKeeps, ForgetRequestKeeps
<1>5. ASSUME Curate
      PROVE  ChatInv'
  BY <1>5, CurateKeeps
<1>6. ASSUME AskReply \/ Curated
      PROVE  ChatInv'
  BY <1>6, AskKeeps DEF AskReply, Curated, store
<1>7. ASSUME TaskEnds
      PROVE  ChatInv'
  BY <1>7, TaskEndsKeeps
<1>8. ASSUME NEW t \in Threads, WorkerCalls(t) \/ WorkerReturns(t)
      PROVE  ChatInv'
  <2>1. t # "chat" /\ UNCHANGED <<turns, turns_file, permit, phase, outcome, handlers, asked>>
    BY <1>8 DEF WorkerCalls, WorkerReturns, store, task
  <2>2. \E r : calls' = [calls EXCEPT ![t] = r]
    <3>1. CASE WorkerCalls(t)
      BY <3>1 DEF WorkerCalls, Begin, Set
    <3>2. CASE WorkerReturns(t)
      BY <3>2 DEF WorkerReturns, Return, Set
    <3> QED
      BY <1>8, <3>1, <3>2
  <2>3. calls'["chat"] = calls["chat"]
    BY <1>0, <2>1, <2>2, ModelRouterAssumption
  <2>4. phase \in {"off", "ready"} => calls'["chat"].pc = "none"
    BY <2>3 DEF ChatInv, PermitOK
  <2> QED
    BY <2>1, <2>4, ChatRests
<1>9. ASSUME NEW t \in Threads, CallGoesOn(t) \/ UsageWriteFails(t)
      PROVE  ChatInv'
  <2>1. /\ CallStep(t) \/ PersistFails(t)
        /\ UNCHANGED <<turns, turns_file, permit, phase, outcome, handlers, asked>>
    BY <1>9 DEF CallGoesOn, UsageWriteFails, chat_vars, store, task
  <2>2. phase \in {"off", "ready"} => calls'["chat"].pc = "none"
    BY <2>1, NoCallRests DEF ChatInv, PermitOK
  <2> QED
    BY <2>1, <2>2, ChatRests
<1>10. ASSUME Restart
       PROVE  ChatInv'
  BY <1>10, RestartKeeps
<1>11. ASSUME Midnight \/ UNCHANGED <<chat_vars, router_vars>>
       PROVE  ChatInv'
  <2>1. UNCHANGED <<turns, turns_file, permit, phase, outcome, handlers, asked, calls>>
    BY <1>11 DEF Midnight, MidnightPasses, store, task, chat_vars, router_vars
  <2>2. phase \in {"off", "ready"} => calls'["chat"].pc = "none"
    BY <2>1 DEF ChatInv, PermitOK
  <2> QED
    BY <2>1, <2>2, ChatRests
<1> QED
  BY <1>1, <1>2, <1>3, <1>4, <1>5, <1>6, <1>7, <1>8, <1>9, <1>10, <1>11 DEF ServicesNext, TaskStep

LEMMA ServicesInvariant == ServicesSpec => [](RouterInv /\ ChatInv)
<1>1. ServicesInit => RouterInv /\ ChatInv
  BY RouterStartsOK, ChatStartsOK DEF ServicesInit
<1>2. RouterInv /\ ChatInv /\ [ServicesNext]_<<chat_vars, router_vars>> => (RouterInv /\ ChatInv)'
  BY RouterKeeps, ChatKeeps
<1> QED
  BY <1>1, <1>2, PTL DEF ServicesSpec

\* Retries, dropped connections and restarts never have a second model call
\* made for the reply of a request (chat.rs, converse).
THEOREM RequestsAreAskedOnce == ServicesSpec => []AskedOnce
<1>1. ChatInv => AskedOnce
  BY DEF ChatInv, AskedOK, AskedOnce
<1> QED
  BY <1>1, ServicesInvariant, PTL

\* The permit is held exactly while a request is on its way: no end of a
\* request, and no handler that was dropped, leaves it taken, and the turns
\* in memory are those of the file.
THEOREM ThePermitComesBack == ServicesSpec => []ChatTypeOK
<1>1. ChatInv => ChatTypeOK
  <2> SUFFICES ASSUME ChatInv
               PROVE  ChatTypeOK
    OBVIOUS
  <2>1. Len(turns) <= MaxTurns /\ turns = turns_file
    BY DEF ChatInv, StoreOK
  <2>2. \A i \in DOMAIN turns : turns[i].status \in Statuses
    <3>1. \A i \in DOMAIN turns : turns[i] \in TurnRecords
      BY DEF ChatInv, StoreOK
    <3> QED
      BY <3>1 DEF TurnRecords
  <2>3. \A h \in permit : h \in Handlers /\ ~At(h, "idle")
    BY DEF ChatInv, PermitOK, At
  <2>4. (permit = {}) <=> (phase = "off" /\ \A h \in Handlers : ~At(h, "candidates"))
    BY <2>3 DEF ChatInv, PermitOK
  <2> QED
    BY <2>1, <2>2, <2>3, <2>4 DEF ChatTypeOK, Statuses
<1> QED
  BY <1>1, ServicesInvariant, PTL

\* A step of the server keeps every turn, and what it came to.
LEMMA TurnsKeep ==
  ASSUME RouterInv, ChatInv, [ServicesNext]_<<chat_vars, router_vars>>
  PROVE  /\ Len(turns') >= Len(turns)
         /\ \A i \in DOMAIN turns : /\ turns'[i].id = turns[i].id
                                    /\ turns[i].status # "pending" => turns'[i].status = turns[i].status
<1> DEFINE Kept == /\ Len(turns') >= Len(turns)
                   /\ \A i \in DOMAIN turns : /\ turns'[i].id = turns[i].id
                                              /\ turns[i].status # "pending" => turns'[i].status = turns[i].status
<1>0. turns \in Seq(TurnRecords) /\ turns_file = turns /\ Len(turns) \in Nat
  BY DEF ChatInv, StoreOK
<1>1. ASSUME turns' = turns
      PROVE  Kept
  BY <1>0, <1>1
<1>2. ASSUME NEW h \in Handlers, Admit(h)
      PROVE  Kept
  <2>1. PICK id \in handlers[h].id :
            turns' = turns \/ turns' = Append(turns, [id |-> id, status |-> "pending"])
    BY <1>2 DEF Admit, store
  <2>2. id \in Requests
    BY <1>2, <2>1 DEF Admit, ChatInv, HandlersOK, HandlerRecords
  <2>3. CASE turns' = Append(turns, [id |-> id, status |-> "pending"])
    <3>1. Len(turns') = Len(turns) + 1 /\ \A i \in DOMAIN turns : turns'[i] = turns[i]
      BY <1>0, <2>2, <2>3, TurnAppends
    <3> QED
      BY <1>0, <3>1
  <2> QED
    BY <1>1, <2>1, <2>3
<1>3. ASSUME NEW h \in Handlers, Complete(h)
      PROVE  Kept
  <2>1. PICK status \in outcome[h], id \in handlers[h].id : turns' = WithStatus(turns, id, status)
    BY <1>3 DEF Complete
  <2>2. status \in Statuses /\ \A i \in DOMAIN turns : turns[i].id = id => turns[i].status = "pending"
    BY <1>3, <2>1 DEF Complete, ChatInv, OutcomesOK, HandlersOK, Statuses
  <2>3. SameTurns(turns, turns') /\ \A i \in DOMAIN turns : turns[i].id # id => turns'[i] = turns[i]
    BY <1>0, <2>1, <2>2, StatusChanges
  <2> QED
    BY <1>0, <2>2, <2>3 DEF SameTurns
<1>4. ASSUME Restart
      PROVE  Kept
  <2>1. turns' = Interrupted
    BY <1>4 DEF Restart
  <2>2. SameTurns(turns, turns') /\ \A i \in DOMAIN turns : turns[i].status # "pending" => turns'[i] = turns[i]
    BY <1>0, <2>1, TurnsInterrupted
  <2> QED
    BY <1>0, <2>2 DEF SameTurns
<1>5. \/ turns' = turns
      \/ Restart
      \/ \E h \in Handlers : Admit(h) \/ Complete(h)
  <2>1. ASSUME NEW h \in Handlers, NEW id, NEW by, Send(h, id, by)
        PROVE  turns' = turns
    BY <2>1 DEF Send, store
  <2>2. ASSUME NEW h \in Handlers, AdmitFails(h) \/ CompleteFails(h) \/ Disconnect(h) \/ ForgetRequest(h)
        PROVE  turns' = turns
    BY <2>2 DEF AdmitFails, CompleteFails, Disconnect, ForgetRequest, store
  <2>3. ASSUME Curate \/ TaskStep
        PROVE  turns' = turns
    BY <2>3 DEF Curate, TaskStep, AskReply, Curated, TaskEnds, store
  <2>4. ASSUME NEW t \in Threads, WorkerCalls(t) \/ WorkerReturns(t) \/ CallGoesOn(t) \/ UsageWriteFails(t)
        PROVE  turns' = turns
    BY <2>4 DEF WorkerCalls, WorkerReturns, CallGoesOn, UsageWriteFails, chat_vars, store
  <2>5. ASSUME Midnight \/ UNCHANGED <<chat_vars, router_vars>>
        PROVE  turns' = turns
    BY <2>5 DEF Midnight, chat_vars, store
  <2> QED
    BY <2>1, <2>2, <2>3, <2>4, <2>5 DEF ServicesNext, HandlerStep
<1> QED
  BY <1>1, <1>2, <1>3, <1>4, <1>5

\* Later requests, late completions and restarts take no turn away, and
\* change no turn that came to something (chat.rs, converse and open).
THEOREM TurnsStayFinal == ServicesSpec => TurnsAreFinal
<1>1. RouterInv /\ ChatInv /\ [ServicesNext]_<<chat_vars, router_vars>> =>
        [/\ Len(turns') >= Len(turns)
         /\ \A i \in DOMAIN turns :
               /\ turns'[i].id = turns[i].id
               /\ turns[i].status # "pending" => turns'[i].status = turns[i].status]_<<turns, turns_file>>
  BY TurnsKeep
<1>2. ServicesSpec => [][ServicesNext]_<<chat_vars, router_vars>>
  BY DEF ServicesSpec
<1> QED
  BY <1>1, <1>2, ServicesInvariant, PTL DEF TurnsAreFinal

-----------------------------------------------------------------------------
(***************************************************************************)
(* Search: what an operator forgot stays away, and the index is true       *)
(***************************************************************************)

\* The files of the corpus, listed.
LEMMA FilesAreListed ==
    /\ Len(FileSeq) \in Nat /\ FileSeq \in Seq(Files)
    /\ \A i \in 1 .. Len(FileSeq) : FileSeq[i] \in Files
    /\ \A i, j \in 1 .. Len(FileSeq) : FileSeq[i] = FileSeq[j] => i = j
<1>1. PICK n \in Nat : ExistsBijection(1 .. n, Files)
  BY SearchAssumption, FS_NatBijection
<1>2. Cardinality(Files) = n
  BY <1>1, SearchAssumption, FS_CountingElements
<1>3. \E f \in [1 .. n -> Files] : IsInjective(f)
  BY <1>1 DEF ExistsBijection, Bijection, Injection, IsInjective
<1>4. FileSeq \in [1 .. n -> Files] /\ IsInjective(FileSeq)
  BY <1>2, <1>3 DEF FileSeq, SetToSeq
<1>5. FileSeq \in Seq(Files) /\ Len(FileSeq) = n
  BY <1>4, SeqDef, LenProperties
<1> QED
  BY <1>4, <1>5 DEF IsInjective

\* FlattenSeq is computed in steps.
FlattenRun(f, n, seqs) ==
    f = [i \in 1 .. n |-> IF i = 1 THEN seqs[i] ELSE f[i - 1] \o seqs[i]]

LEMMA FlattenUnfolds ==
  ASSUME NEW seqs, Len(seqs) \in Nat, Len(seqs) # 0
  PROVE  \E f : FlattenRun(f, Len(seqs), seqs) /\ FlattenSeq(seqs) = f[Len(seqs)]
<1> DEFINE n == Len(seqs)
<1> DEFINE P == {m \in 0 .. n : \E f : FlattenRun(f, m, seqs)}
<1>1. 0 \in P
  <2>1. FlattenRun([i \in 1 .. 0 |-> <<>>], 0, seqs)
    BY DEF FlattenRun
  <2> QED
    BY <2>1
<1>2. ASSUME NEW m \in 1 .. n, m - 1 \in P
      PROVE  m \in P
  <2>1. PICK f : FlattenRun(f, m - 1, seqs)
    BY <1>2
  <2> DEFINE last == IF m = 1 THEN seqs[m] ELSE f[m - 1] \o seqs[m]
  <2> DEFINE g == [i \in 1 .. m |-> IF i = m THEN last ELSE f[i]]
  <2>2. ASSUME NEW i \in 1 .. m
        PROVE  g[i] = IF i = 1 THEN seqs[i] ELSE g[i - 1] \o seqs[i]
    <3>1. CASE i = m
      <4>1. i # 1 => m - 1 \in 1 .. m /\ m - 1 # m
        BY <3>1
      <4>2. i # 1 => g[i - 1] = f[m - 1]
        BY <3>1, <4>1
      <4>3. g[i] = last
        BY <3>1
      <4> QED
        BY <3>1, <4>2, <4>3
    <3>2. CASE i # m
      <4>1. i \in 1 .. m - 1
        BY <3>2
      <4>2. g[i] = f[i] /\ (i # 1 => g[i - 1] = f[i - 1])
        BY <3>2, <4>1
      <4>3. f[i] = IF i = 1 THEN seqs[i] ELSE f[i - 1] \o seqs[i]
        BY <2>1, <4>1 DEF FlattenRun
      <4> QED
        BY <4>2, <4>3
    <3> QED
      BY <3>1, <3>2
  <2>3. FlattenRun(g, m, seqs)
    <3>1. g = [i \in 1 .. m |-> g[i]]
      OBVIOUS
    <3> HIDE DEF g
    <3>2. [i \in 1 .. m |-> g[i]] = [i \in 1 .. m |-> IF i = 1 THEN seqs[i] ELSE g[i - 1] \o seqs[i]]
      BY <2>2
    <3> QED
      BY <3>1, <3>2 DEF FlattenRun
  <2> QED
    BY <2>3
<1>3. n \in P
  <2>1. n \in Nat /\ n \in 0 .. n
    OBVIOUS
  <2> HIDE DEF P, n
  <2>2. 0 .. n \subseteq P
    BY <1>1, <1>2, <2>1, IntervalInduction
  <2> QED
    BY <2>1, <2>2
<1>4. \E f : FlattenRun(f, n, seqs)
  BY <1>3
<1> DEFINE all == CHOOSE f : FlattenRun(f, n, seqs)
<1>5. FlattenRun(all, n, seqs)
  BY <1>4
<1>6. FlattenSeq(seqs) = all[n]
  BY DEF FlattenSeq, FlattenRun
<1> HIDE DEF all
<1> QED
  BY <1>5, <1>6

\* What is flattened holds what its parts hold.
LEMMA FlattenKeeps ==
  ASSUME NEW T, NEW seqs \in Seq(Seq(T))
  PROVE  FlattenSeq(seqs) \in Seq(T)
<1>1. CASE Len(seqs) = 0
  <2>1. seqs = <<>>
    BY <1>1, EmptySeq
  <2> QED
    BY <1>1, <2>1 DEF FlattenSeq
<1>2. CASE Len(seqs) # 0
  <2>1. Len(seqs) \in Nat
    OBVIOUS
  <2>2. PICK f : FlattenRun(f, Len(seqs), seqs) /\ FlattenSeq(seqs) = f[Len(seqs)]
    BY <1>2, <2>1, FlattenUnfolds
  <2> DEFINE n == Len(seqs)
  <2> DEFINE P == {i \in 0 .. n : i = 0 \/ f[i] \in Seq(T)}
  <2>3. ASSUME NEW i \in 1 .. n, i - 1 \in P
        PROVE  i \in P
    <3>1. seqs[i] \in Seq(T)
      OBVIOUS
    <3>2. f[i] = IF i = 1 THEN seqs[i] ELSE f[i - 1] \o seqs[i]
      BY <2>2 DEF FlattenRun
    <3>3. i # 1 => f[i - 1] \in Seq(T)
      BY <2>3
    <3>4. f[i] \in Seq(T)
      BY <3>1, <3>2, <3>3, ConcatProperties
    <3> QED
      BY <3>4
  <2>4. 0 \in P
    BY <2>1
  <2>5. n \in 0 .. n /\ n # 0
    BY <1>2, <2>1
  <2>6. 0 .. n \subseteq P
    <3> HIDE DEF P, n
    <3>1. n \in Nat
      BY <2>1 DEF n
    <3> QED
      BY <2>3, <2>4, <3>1, IntervalInduction
  <2> QED
    BY <2>2, <2>5, <2>6
<1> QED
  BY <1>1, <1>2

\* l holds some of the first i names, each of them once.
Once(l, i, names, T) ==
    /\ l \in Seq(T)
    /\ \A a \in 1 .. Len(l) : \E j \in 1 .. i : l[a] = names[j]
    /\ \A a, b \in 1 .. Len(l) : l[a] = l[b] => a = b

LEMMA OnceMore ==
  ASSUME NEW T, NEW names, NEW i \in Nat \ {0}, NEW l, NEW part \in Seq(T),
         Once(l, i - 1, names, T), part = <<>> \/ part = <<names[i]>>,
         \A j \in 1 .. i - 1 : names[j] # names[i]
  PROVE  Once(l \o part, i, names, T)
<1>0. l \in Seq(T) /\ Len(l) \in Nat
  BY DEF Once
<1>1. CASE part = <<>>
  <2>1. l \o part = l
    BY <1>0, <1>1, ConcatEmptySeq
  <2>2. \A j \in 1 .. i - 1 : j \in 1 .. i
    OBVIOUS
  <2>3. Once(l, i, names, T)
    BY <2>2 DEF Once
  <2> QED
    BY <2>1, <2>3
<1>2. CASE part = <<names[i]>>
  <2> DEFINE m == l \o part
  <2>1. Len(part) = 1 /\ part[1] = names[i]
    BY <1>2
  <2>2. m \in Seq(T) /\ Len(m) = Len(l) + 1
    <3>1. m \in Seq(T)
      BY <1>0, ConcatProperties
    <3>2. Len(m) = Len(l) + Len(part)
      BY <1>0, ConcatProperties
    <3> QED
      BY <2>1, <3>1, <3>2
  <2>3. \A a \in 1 .. Len(m) : m[a] = IF a <= Len(l) THEN l[a] ELSE part[a - Len(l)]
    BY <1>0, ConcatProperties
  <2> HIDE DEF m
  <2>4. \A a \in 1 .. Len(m) : IF a \in 1 .. Len(l) THEN m[a] = l[a] ELSE a = Len(l) + 1 /\ m[a] = names[i]
    <3> TAKE a \in 1 .. Len(m)
    <3>1. a <= Len(l) \/ a = Len(l) + 1
      BY <1>0, <2>2
    <3>2. a = Len(l) + 1 => a - Len(l) = 1 /\ ~(a <= Len(l))
      BY <1>0
    <3>3. a <= Len(l) <=> a \in 1 .. Len(l)
      BY <1>0, <2>2
    <3> QED
      BY <2>1, <2>3, <3>1, <3>2, <3>3
  <2>5. \A a \in 1 .. Len(l) : \E j \in 1 .. i - 1 : l[a] = names[j]
    BY DEF Once
  <2>6. \A a, b \in 1 .. Len(l) : l[a] = l[b] => a = b
    BY DEF Once
  <2>7. \A a \in 1 .. Len(l) : l[a] # names[i]
    BY <2>5
  <2>8. i \in 1 .. i /\ \A j \in 1 .. i - 1 : j \in 1 .. i
    OBVIOUS
  <2>9. \A a \in 1 .. Len(m) : \E j \in 1 .. i : m[a] = names[j]
    BY <2>4, <2>5, <2>8
  <2>10. \A a, b \in 1 .. Len(m) : m[a] = m[b] => a = b
    BY <2>4, <2>6, <2>7
  <2>11. Once(m, i, names, T)
    BY <2>2, <2>9, <2>10 DEF Once
  <2> QED
    BY <2>11 DEF m
<1> QED
  BY <1>1, <1>2

\* Parts of at most one element, no two the same, are flattened to different
\* elements.
LEMMA FlattenDiffers ==
  ASSUME NEW T, NEW seqs \in Seq(Seq(T)), NEW names,
         \A i \in 1 .. Len(seqs) : seqs[i] = <<>> \/ seqs[i] = <<names[i]>>,
         \A i, j \in 1 .. Len(seqs) : names[i] = names[j] => i = j
  PROVE  Once(FlattenSeq(seqs), Len(seqs), names, T)
<1>0. Once(<<>>, 0, names, T)
  <2>1. <<>> \in Seq(T) /\ 1 .. Len(<<>>) = {}
    OBVIOUS
  <2> QED
    BY <2>1 DEF Once
<1>1. CASE Len(seqs) = 0
  <2>1. seqs = <<>>
    BY <1>1, EmptySeq
  <2>2. FlattenSeq(seqs) = <<>>
    BY <1>1, <2>1 DEF FlattenSeq
  <2> QED
    BY <1>0, <1>1, <2>2
<1>2. CASE Len(seqs) # 0
  <2>1. Len(seqs) \in Nat
    OBVIOUS
  <2>2. PICK f : FlattenRun(f, Len(seqs), seqs) /\ FlattenSeq(seqs) = f[Len(seqs)]
    BY <1>2, <2>1, FlattenUnfolds
  <2> DEFINE n == Len(seqs)
  <2> DEFINE P == {i \in 0 .. n : i = 0 \/ Once(f[i], i, names, T)}
  <2>3. ASSUME NEW i \in 1 .. n, i - 1 \in P
        PROVE  i \in P
    <3>0. i \in Nat \ {0} /\ i \in 1 .. Len(seqs)
      OBVIOUS
    <3>a. seqs[i] \in Seq(T)
      BY <3>0
    <3>b. \A j \in 1 .. i - 1 : j \in 1 .. Len(seqs) /\ j # i
      BY <2>1, <3>0
    <3>1. /\ seqs[i] \in Seq(T) /\ (seqs[i] = <<>> \/ seqs[i] = <<names[i]>>)
          /\ i \in Nat \ {0} /\ \A j \in 1 .. i - 1 : names[j] # names[i]
      BY <3>0, <3>a, <3>b
    <3>2. f[i] = IF i = 1 THEN seqs[i] ELSE f[i - 1] \o seqs[i]
      BY <2>2 DEF FlattenRun
    <3> DEFINE part == seqs[i]
    <3> DEFINE before == IF i = 1 THEN <<>> ELSE f[i - 1]
    <3>3. Once(before, i - 1, names, T)
      <4>1. i = 1 => i - 1 = 0
        OBVIOUS
      <4> QED
        BY <1>0, <2>3, <4>1
    <3>4. f[i] = before \o part
      BY <3>1, <3>2, ConcatEmptySeq
    <3> HIDE DEF part, before
    <3>5. part \in Seq(T) /\ (part = <<>> \/ part = <<names[i]>>)
      BY <3>1 DEF part
    <3>6. Once(before \o part, i, names, T)
      BY <3>1, <3>3, <3>5, OnceMore
    <3>7. Once(f[i], i, names, T) /\ i \in 0 .. n
      BY <2>1, <3>4, <3>6
    <3> QED
      BY <3>7
  <2>4. 0 \in P
    BY <2>1
  <2>5. n \in 0 .. n /\ n # 0
    BY <1>2, <2>1
  <2>6. 0 .. n \subseteq P
    <3> HIDE DEF P, n
    <3>1. n \in Nat
      BY <2>1 DEF n
    <3> QED
      BY <2>3, <2>4, <3>1, IntervalInduction
  <2>7. Once(f[n], n, names, T)
    BY <2>5, <2>6
  <2> QED
    BY <2>2, <2>7
<1> QED
  BY <1>1, <1>2

-----------------------------------------------------------------------------
(* What a run is made of                                                    *)

Facts == Files \X STRING \X Nat \X STRING
SectionRecords == [title : STRING, at : Nat, text : STRING, entities : SUBSET Facts]
FileRecords == [mtime : Nat, sections : Seq(SectionRecords)]
TaskRecords == [file : Files, k : Nat]
ResultRecords == [task : Nat, ok : BOOLEAN]

RunFields == {"pc", "force", "todo", "seen", "cached_files", "had", "session", "back", "tasks", "next",
              "hands", "results", "outcome"}

TextsOf(sections) == [k \in DOMAIN sections |-> sections[k].text]

\* Titles and lines tell the sections of a file apart; entities are those of
\* the section they are at; and a file that was not edited since has the texts
\* it was read with, unless the edit is hidden by its time.
FileOK(f, file, cor, now) ==
    /\ file \in FileRecords /\ file.mtime <= now
    /\ f \in DOMAIN cor => file.mtime <= cor[f].mtime
    /\ \A j, k \in DOMAIN file.sections :
          file.sections[j].title = file.sections[k].title /\ file.sections[j].at = file.sections[k].at => j = k
    /\ \A k \in DOMAIN file.sections : \A e \in file.sections[k].entities :
          e[1] = f /\ e[2] = file.sections[k].title /\ e[3] = file.sections[k].at
    /\ f \in DOMAIN cor /\ IsText(cor[f].content) /\ cor[f].mtime = file.mtime /\ ~cor[f].hidden
          => TextsOf(file.sections) = TextsOf(Chunks(f, cor[f].content))

FilesOK(files, cor, now) ==
    /\ DOMAIN files \subseteq Files
    /\ \A f \in DOMAIN files : FileOK(f, files[f], cor, now)

CorpusOK(cor, now) ==
    /\ now \in Nat /\ DOMAIN cor \subseteq Files
    /\ \A f \in DOMAIN cor : cor[f].content \in Contents /\ cor[f].mtime \in Nat /\ cor[f].mtime <= now

\* The scan: files to come are listed once, and were not seen.
Scanned(r) == r.back \in {"state", "extract", "end"} \/ r.pc = "session"

PlaceOK(r) ==
    /\ r.pc \in {"idle", "scan", "session", "bm25", "spelling", "graph", "state", "extract", "end"}
    /\ r.back \in {"idle", "scan", "state", "extract", "end"}
    /\ r.pc \in {"scan", "session"} => r.back \in {"idle", "scan"}
    /\ r.pc = "state" => r.back = "state"
    /\ r.pc = "extract" => r.back \in {"state", "extract"}
    /\ r.pc = "end" => r.back = "end"
    /\ r.outcome = "done" => r.pc = "idle"

ScanOK(r) ==
    /\ r.todo \in Seq(Files)
    /\ \A i, j \in 1 .. Len(r.todo) : r.todo[i] = r.todo[j] => i = j
    /\ \A i \in 1 .. Len(r.todo) : r.todo[i] \notin r.seen
    /\ Scanned(r) => r.todo = <<>> /\ DOMAIN r.cached_files \subseteq r.seen

Named(f, sec) == <<f, sec.title, sec.at>>

\* What was known at the start is known: always of a cached section, and of
\* every section of a file that is still to come.
HadOK(r) ==
    ~r.force =>
        /\ \A f \in DOMAIN r.cached_files : \A k \in DOMAIN r.cached_files[f].sections :
              Named(f, r.cached_files[f].sections[k]) \in r.had => IsDone(r.cached_files[f].sections[k])
        /\ \A i \in 1 .. Len(r.todo) : \A x \in r.had :
              x[1] = r.todo[i] =>
                  /\ r.todo[i] \in DOMAIN r.cached_files
                  /\ \E k \in DOMAIN r.cached_files[r.todo[i]].sections :
                        /\ x = Named(r.todo[i], r.cached_files[r.todo[i]].sections[k])
                        /\ IsDone(r.cached_files[r.todo[i]].sections[k])

TaskOK(r, t) ==
    /\ t.file \in DOMAIN r.cached_files
    /\ t.k \in DOMAIN r.cached_files[t.file].sections
    /\ ~r.force => Named(t.file, r.cached_files[t.file].sections[t.k]) \notin r.had

\* A task is with one worker or in one result, after it was taken.
HandsOK(hands, results, next) ==
    /\ DOMAIN hands = Workers
    /\ \A w \in Workers : hands[w] = {} \/ \E n \in 1 .. next - 1 : hands[w] = {n}
    /\ results \in Seq(ResultRecords)
    /\ \A i \in 1 .. Len(results) : results[i].task \in 1 .. next - 1
    /\ \A i \in 1 .. Len(results) : \A w \in Workers : results[i].task \notin hands[w]
    /\ \A v, w \in Workers : v # w => hands[v] \intersect hands[w] = {}
    /\ \A i, j \in 1 .. Len(results) : results[i].task = results[j].task => i = j

\* The files of a run are all cached before its tasks are listed.
TasksPlaced(r) == r.tasks # <<>> => r.back \in {"extract", "end"} \/ r.pc = "extract"

TasksOK(r) ==
    /\ r.tasks \in Seq(TaskRecords)
    /\ \A i \in 1 .. Len(r.tasks) : TaskOK(r, r.tasks[i])
    /\ r.next \in Nat /\ r.next >= 1 /\ r.next <= Len(r.tasks) + 1
    /\ TasksPlaced(r)

RunOK(r, cor, now) ==
    /\ DOMAIN r = RunFields /\ r.force \in BOOLEAN
    /\ PlaceOK(r) /\ ScanOK(r) /\ HadOK(r) /\ TasksOK(r) /\ HandsOK(r.hands, r.results, r.next)
    /\ FilesOK(r.cached_files, cor, now)

\* The searchable index is that of the files of the run while it is written,
\* and that of the state after a run that ended well.
DbOK(d, r, cor, now) ==
    /\ DOMAIN d = {"state", "bm25", "others"} /\ DOMAIN d.others = {"spelling", "graph"}
    /\ FilesOK(d.state.cached_files, cor, now)
    /\ r.pc \in {"spelling", "graph", "end"} => d.bm25.sections = AllSections(r.cached_files)
    /\ r.outcome = "done" =>
          /\ d.bm25.whole => d.bm25.sections = AllSections(d.state.cached_files)
          /\ DOMAIN d.state.cached_files \subseteq r.seen

IndexInv == CorpusOK(corpus, clock) /\ RunOK(run, corpus, clock) /\ DbOK(db, run, corpus, clock)

-----------------------------------------------------------------------------
(* The store, the ledger and the bounds                                     *)

JobInv == job \in SearchJobs /\ (job.store_keeps => job.expiries = 0)

\* There is one record at most, and the store knows its session.
RecordsOK(kept, all) ==
    /\ DOMAIN all \subseteq 1 .. LastSession
    /\ kept = {} \/ \E r : kept = {r} /\ r.id \in DOMAIN all

LedgerOK(l) == l = [forgotten |-> l.forgotten, sealed |-> l.sealed] /\ l.forgotten \intersect l.sealed = {}

LedgerInv ==
    /\ LedgerOK(suppression)
    /\ DOMAIN edit = Operators
    /\ \A o \in Operators : LedgerOK(edit[o].ledger)

\* With one operator, the ledger a command is about to write is the one that
\* is there, changed by it; no write that dies loses what was forgotten.
EditInv(o) ==
    /\ edit[o].pc \in {"idle", "save"}
    /\ edit[o].pc = "save" =>
          \E h : /\ edit[o].hash = {h} /\ edit[o].verb \in {"forget", "seal", "restore"}
                 /\ edit[o].ledger = Apply(suppression, edit[o].verb, h)

ToldInv ==
    /\ gone \subseteq suppression.forgotten
    /\ put_away \subseteq suppression.forgotten \union suppression.sealed

SlipInv(o) ==
    job.slips > 0 =>
        /\ job.commands <= 1
        /\ job.commands = 1 \/ edit[o].pc = "save" => gone = {} /\ put_away = {}
        /\ edit[o].pc = "save" => job.commands = 0

SearchInv ==
    /\ IndexInv /\ JobInv /\ LedgerInv
    /\ RecordsOK(cached, sessions) /\ RecordsAreTrue /\ (queries = {} \/ \E q : queries = {q})

OperatorInv(o) == EditInv(o) /\ ToldInv /\ SlipInv(o) /\ ForgottenIsNoHit

-----------------------------------------------------------------------------
(* Lists of files, tasks and sections                                       *)

LEMMA ScanIs ==
  /\ Scan \in Seq(Files)
  /\ \A i, j \in 1 .. Len(Scan) : Scan[i] = Scan[j] => i = j
<1> DEFINE n == Len(FileSeq)
<1> DEFINE seqs == [i \in 1 .. n |-> IF FileSeq[i] \in DOMAIN corpus THEN <<FileSeq[i]>> ELSE <<>>]
<1>1. n \in Nat /\ \A i \in 1 .. n : FileSeq[i] \in Files
  BY FilesAreListed
<1>2. \A i \in 1 .. n : seqs[i] \in Seq(Files) /\ (seqs[i] = <<>> \/ seqs[i] = <<FileSeq[i]>>)
  BY <1>1
<1>3. \A i, j \in 1 .. n : FileSeq[i] = FileSeq[j] => i = j
  BY FilesAreListed
<1>4. Scan = FlattenSeq(seqs)
  BY DEF Scan
<1>4a. seqs = [i \in 1 .. n |-> seqs[i]]
  OBVIOUS
<1> HIDE DEF seqs, n
<1>5. seqs \in Seq(Seq(Files)) /\ Len(seqs) = n
  BY <1>1, <1>2, <1>4a
<1>6. Once(FlattenSeq(seqs), Len(seqs), FileSeq, Files)
  BY <1>2, <1>3, <1>5, FlattenDiffers
<1> QED
  BY <1>4, <1>6 DEF Once

\* The tasks of files: sections that are not done.
OpenTasks(files) ==
    {t \in TaskRecords : /\ t.file \in DOMAIN files
                         /\ t.k \in DOMAIN files[t.file].sections
                         /\ ~IsDone(files[t.file].sections[t.k])}

LEMMA UndoneIs ==
  ASSUME NEW files, NEW f \in Files, f \in DOMAIN files, files[f].sections \in Seq(SectionRecords)
  PROVE  Undone(f, files[f].sections) \in Seq(OpenTasks(files))
<1> DEFINE all == files[f].sections
<1> DEFINE seqs == [k \in DOMAIN all |-> IF IsDone(all[k]) THEN <<>> ELSE <<[file |-> f, k |-> k]>>]
<1>1. Len(all) \in Nat /\ DOMAIN all = 1 .. Len(all)
  OBVIOUS
<1>2. ASSUME NEW k \in DOMAIN all, ~IsDone(all[k])
      PROVE  [file |-> f, k |-> k] \in OpenTasks(files)
  <2>1. k \in Nat
    BY <1>1
  <2> QED
    BY <1>2, <2>1 DEF OpenTasks, TaskRecords
<1>3. \A k \in 1 .. Len(all) : seqs[k] \in Seq(OpenTasks(files))
  BY <1>1, <1>2
<1>4. seqs = [k \in 1 .. Len(all) |-> seqs[k]]
  BY <1>1
<1>5. Undone(f, all) = FlattenSeq(seqs)
  BY DEF Undone
<1> HIDE DEF seqs, all
<1>6. seqs \in Seq(Seq(OpenTasks(files)))
  BY <1>1, <1>3, <1>4
<1>7. FlattenSeq(seqs) \in Seq(OpenTasks(files))
  BY <1>6, FlattenKeeps
<1> QED
  BY <1>5, <1>7 DEF all

LEMMA WorklistIs ==
  ASSUME \A f \in DOMAIN run.cached_files : f \in Files /\ run.cached_files[f].sections \in Seq(SectionRecords)
  PROVE  Worklist \in Seq(OpenTasks(run.cached_files))
<1> DEFINE files == run.cached_files
<1> DEFINE n == Len(FileSeq)
<1> DEFINE seqs == [i \in 1 .. n |-> LET f == FileSeq[i]
                                     IN  IF f \in DOMAIN files THEN Undone(f, files[f].sections) ELSE <<>>]
<1>1. n \in Nat
  BY FilesAreListed
<1>2. ASSUME NEW i \in 1 .. n
      PROVE  seqs[i] \in Seq(OpenTasks(files))
  <2> DEFINE f == FileSeq[i]
  <2>1. seqs[i] = IF f \in DOMAIN files THEN Undone(f, files[f].sections) ELSE <<>>
    OBVIOUS
  <2>2. f \in DOMAIN files => f \in Files /\ files[f].sections \in Seq(SectionRecords)
    OBVIOUS
  <2> HIDE DEF f, seqs, files
  <2>3. <<>> \in Seq(OpenTasks(files))
    OBVIOUS
  <2> QED
    BY <2>1, <2>2, <2>3, UndoneIs
<1>3. seqs = [i \in 1 .. n |-> seqs[i]]
  OBVIOUS
<1>4. Worklist = FlattenSeq(seqs)
  BY DEF Worklist
<1> HIDE DEF seqs, n, files
<1>5. seqs \in Seq(Seq(OpenTasks(files)))
  BY <1>1, <1>2, <1>3
<1>6. FlattenSeq(seqs) \in Seq(OpenTasks(files))
  BY <1>5, FlattenKeeps
<1> QED
  BY <1>4, <1>6 DEF files

\* The listed sections depend on titles and texts only.
LEMMA SectionsAgree ==
  ASSUME NEW a, NEW b, DOMAIN a = DOMAIN b,
         \A f \in DOMAIN a :
             /\ DOMAIN a[f].sections = DOMAIN b[f].sections
             /\ \A k \in DOMAIN a[f].sections : /\ a[f].sections[k].title = b[f].sections[k].title
                                                /\ a[f].sections[k].text = b[f].sections[k].text
  PROVE  AllSections(a) = AllSections(b)
<1> DEFINE Part(c, f) ==
        IF f \in DOMAIN c
        THEN [k \in DOMAIN c[f].sections |->
                 [hash |-> Hash(f, c[f].sections[k]), title |-> c[f].sections[k].title]]
        ELSE <<>>
<1>1. ASSUME NEW f
      PROVE  Part(a, f) = Part(b, f)
  BY DEF Hash
<1>2. \A c : AllSections(c) = FlattenSeq([i \in 1 .. Len(FileSeq) |-> Part(c, FileSeq[i])])
  BY DEF AllSections
<1> HIDE DEF Part
<1>3. [i \in 1 .. Len(FileSeq) |-> Part(a, FileSeq[i])] = [i \in 1 .. Len(FileSeq) |-> Part(b, FileSeq[i])]
  BY <1>1
<1> QED
  BY <1>2, <1>3

-----------------------------------------------------------------------------
(* The steps of a run                                                       *)

LEMMA RestingRun ==
  ASSUME NEW r, NEW cor, NEW now,
         DOMAIN r = RunFields, r.pc = "idle", r.force = FALSE, r.todo = <<>>, r.cached_files = Empty,
         r.back = "idle", r.tasks = <<>>, r.next = 1, r.hands = [w \in Workers |-> {}], r.results = <<>>
  PROVE  RunOK(r, cor, now)
<1>1. PlaceOK(r)
  BY DEF PlaceOK
<1>2. ScanOK(r)
  BY DEF ScanOK, Scanned
<1>3. DOMAIN r.cached_files = {}
  BY DEF Empty
<1>4. HadOK(r) /\ FilesOK(r.cached_files, cor, now)
  BY <1>3 DEF HadOK, FilesOK
<1>5. TasksOK(r)
  BY DEF TasksOK, TasksPlaced
<1>6. HandsOK(r.hands, r.results, r.next)
  <2>1. r.results \in Seq(ResultRecords) /\ Len(r.results) = 0
    OBVIOUS
  <2> QED
    BY <2>1 DEF HandsOK
<1> QED
  BY <1>1, <1>2, <1>4, <1>5, <1>6 DEF RunOK

\* The run moves on and keeps what it has.
LEMMA SameFiles ==
  ASSUME NEW r, NEW n, NEW cor, NEW now, RunOK(r, cor, now),
         DOMAIN n = RunFields, n.force = r.force, n.todo = r.todo, n.seen = r.seen,
         n.cached_files = r.cached_files, n.had = r.had, n.tasks = r.tasks, n.next = r.next,
         n.hands = r.hands, n.results = r.results,
         PlaceOK(n), TasksPlaced(n), Scanned(n) => Scanned(r)
  PROVE  RunOK(n, cor, now)
<1>1. ScanOK(n)
  BY DEF RunOK, ScanOK
<1>2. HadOK(n)
  BY DEF RunOK, HadOK
<1>3. TasksOK(n)
  <2>1. \A t : TaskOK(r, t) <=> TaskOK(n, t)
    BY DEF TaskOK
  <2> QED
    BY <2>1 DEF RunOK, TasksOK
<1> QED
  BY <1>1, <1>2, <1>3 DEF RunOK

LEMMA IdleIs ==
  /\ DOMAIN Idle = RunFields /\ Idle.pc = "idle" /\ Idle.force = FALSE /\ Idle.todo = <<>> /\ Idle.seen = {}
  /\ Idle.cached_files = Empty /\ Idle.had = {} /\ Idle.back = "idle" /\ Idle.tasks = <<>> /\ Idle.next = 1
  /\ Idle.hands = [w \in Workers |-> {}] /\ Idle.results = <<>> /\ Idle.outcome = "none"
BY DEF Idle, RunFields

\* A run that stops short leaves nothing behind.
LEMMA StopsShort ==
  ASSUME NEW how, how # "done", IndexInv, run' = [Idle EXCEPT !.outcome = how]
  PROVE  RunOK(run', corpus, clock) /\ run'.pc = "idle" /\ run'.outcome # "done"
<1>1. /\ DOMAIN run' = RunFields /\ run'.pc = "idle" /\ run'.force = FALSE /\ run'.todo = <<>>
      /\ run'.cached_files = Empty /\ run'.back = "idle" /\ run'.tasks = <<>> /\ run'.next = 1
      /\ run'.hands = [w \in Workers |-> {}] /\ run'.results = <<>> /\ run'.outcome = how
  BY IdleIs DEF RunFields
<1> QED
  BY <1>1, RestingRun

LEMMA StartKeeps ==
  ASSUME IndexInv, NEW force \in BOOLEAN, NEW verb, Start(force, verb)
  PROVE  RunOK(run', corpus, clock) /\ DbOK(db', run', corpus, clock)
<1> DEFINE files == db.state.cached_files
<1>1. /\ DOMAIN run' = RunFields /\ run'.pc = "scan" /\ run'.force = force /\ run'.todo = Scan /\ run'.seen = {}
      /\ run'.cached_files = files /\ run'.had = Extracted(files) /\ run'.back = "idle" /\ run'.tasks = <<>>
      /\ run'.next = 1 /\ run'.hands = [w \in Workers |-> {}] /\ run'.results = <<>> /\ run'.outcome = "none"
  BY IdleIs DEF Start, RunFields
<1>2. FilesOK(files, corpus, clock)
  BY DEF IndexInv, DbOK
<1>3. PlaceOK(run')
  BY <1>1 DEF PlaceOK
<1>4. ScanOK(run')
  BY <1>1, ScanIs DEF ScanOK, Scanned
<1> HIDE DEF files
<1>5. ASSUME NEW x \in Extracted(files)
      PROVE  \E f \in DOMAIN files : \E k \in DOMAIN files[f].sections :
                /\ x = Named(f, files[f].sections[k]) /\ IsDone(files[f].sections[k])
  BY DEF Extracted, Named
<1>6. ASSUME NEW f \in DOMAIN files, NEW k \in DOMAIN files[f].sections,
             Named(f, files[f].sections[k]) \in Extracted(files)
      PROVE  IsDone(files[f].sections[k])
  <2>1. PICK g \in DOMAIN files : \E j \in DOMAIN files[g].sections :
           /\ Named(f, files[f].sections[k]) = Named(g, files[g].sections[j]) /\ IsDone(files[g].sections[j])
    BY <1>5, <1>6
  <2>2. PICK j \in DOMAIN files[g].sections :
           /\ Named(f, files[f].sections[k]) = Named(g, files[g].sections[j]) /\ IsDone(files[g].sections[j])
    BY <2>1
  <2>3. f = g /\ files[f].sections[k].title = files[g].sections[j].title
        /\ files[f].sections[k].at = files[g].sections[j].at
    BY <2>2 DEF Named
  <2>4. j = k
    BY <1>2, <2>3 DEF FilesOK, FileOK
  <2> QED
    BY <2>2, <2>3, <2>4
<1>7. ASSUME NEW f, NEW x \in Extracted(files), x[1] = f
      PROVE  f \in DOMAIN files /\ \E k \in DOMAIN files[f].sections :
                /\ x = Named(f, files[f].sections[k]) /\ IsDone(files[f].sections[k])
  <2>1. PICK g \in DOMAIN files : \E k \in DOMAIN files[g].sections :
                /\ x = Named(g, files[g].sections[k]) /\ IsDone(files[g].sections[k])
    BY <1>5
  <2>2. x[1] = g
    BY <2>1 DEF Named
  <2> QED
    BY <1>7, <2>1, <2>2
<1>8. HadOK(run')
  BY <1>1, <1>6, <1>7 DEF HadOK
<1>9. TasksOK(run')
  BY <1>1 DEF TasksOK, TasksPlaced
<1>10. HandsOK(run'.hands, run'.results, run'.next)
  <2>1. run'.results \in Seq(ResultRecords) /\ Len(run'.results) = 0
    BY <1>1
  <2> QED
    BY <1>1, <2>1 DEF HandsOK
<1>11. RunOK(run', corpus, clock)
  BY <1>1, <1>2, <1>3, <1>4, <1>8, <1>9, <1>10 DEF RunOK
<1>12. DbOK(db', run', corpus, clock)
  BY <1>1 DEF Start, IndexInv, DbOK
<1> QED
  BY <1>11, <1>12

\* A file that is chunked has the sections of its content, and what was known
\* of a section at its place.
LEMMA ChunkedIs ==
  ASSUME IndexInv, NEW f \in DOMAIN corpus
  PROVE  /\ Chunked(f) \in Seq(SectionRecords) /\ DOMAIN Chunked(f) = DOMAIN NewSections(f)
         /\ \A k \in DOMAIN Chunked(f) :
               /\ Chunked(f)[k].title = NewSections(f)[k].title /\ Chunked(f)[k].at = NewSections(f)[k].at
               /\ Chunked(f)[k].text = NewSections(f)[k].text
               /\ \A e \in Chunked(f)[k].entities :
                     e[1] = f /\ e[2] = Chunked(f)[k].title /\ e[3] = Chunked(f)[k].at
               /\ ~run.force /\ f \in DOMAIN run.cached_files =>
                     \A j \in DOMAIN run.cached_files[f].sections :
                        /\ run.cached_files[f].sections[j].title = Chunked(f)[k].title
                        /\ run.cached_files[f].sections[j].at = Chunked(f)[k].at
                        => run.cached_files[f].sections[j].entities \subseteq Chunked(f)[k].entities
<1> DEFINE new == NewSections(f)
<1> DEFINE old == IF f \in DOMAIN run.cached_files /\ ~run.force THEN run.cached_files[f].sections ELSE <<>>
<1> DEFINE known(sec) == UNION {old[k].entities : k \in {k \in DOMAIN old : old[k].title = sec.title /\ old[k].at = sec.at}}
<1>1. new \in Seq(Pieces)
  BY SearchAssumption DEF IndexInv, CorpusOK, NewSections
<1>2. Chunked(f) = [k \in DOMAIN new |-> [title |-> new[k].title, at |-> new[k].at, text |-> new[k].text,
                                          entities |-> known(new[k])]]
  BY DEF Chunked
<1>3. /\ f \in DOMAIN run.cached_files => FileOK(f, run.cached_files[f], corpus, clock)
  BY DEF IndexInv, RunOK, FilesOK
<1>4. old \in Seq(SectionRecords)
  <2>1. f \in DOMAIN run.cached_files => run.cached_files[f].sections \in Seq(SectionRecords)
    BY <1>3 DEF FileOK, FileRecords
  <2>2. <<>> \in Seq(SectionRecords)
    OBVIOUS
  <2> QED
    BY <2>1, <2>2
<1>5. \A k \in DOMAIN old : \A e \in old[k].entities : e[1] = f /\ e[2] = old[k].title /\ e[3] = old[k].at
  BY <1>3 DEF FileOK
<1>6. ASSUME NEW sec
      PROVE  /\ known(sec) \subseteq Facts
             /\ \A e \in known(sec) : e[1] = f /\ e[2] = sec.title /\ e[3] = sec.at
             /\ \A k \in DOMAIN old : old[k].title = sec.title /\ old[k].at = sec.at => old[k].entities \subseteq known(sec)
  <2> HIDE DEF old
  <2>1. ASSUME NEW k \in DOMAIN old
        PROVE  old[k].entities \subseteq Facts
    <3>1. old[k] \in SectionRecords
      BY <1>4
    <3> QED
      BY <3>1 DEF SectionRecords
  <2> QED
    BY <1>5, <2>1
<1>7. f \in DOMAIN run.cached_files /\ ~run.force => old = run.cached_files[f].sections
  OBVIOUS
<1> HIDE DEF known, new, old
<1>8. /\ Len(new) \in Nat /\ DOMAIN new = 1 .. Len(new)
      /\ \A k \in DOMAIN new : new[k] \in Pieces
  BY <1>1
<1>9. ASSUME NEW k \in DOMAIN new
      PROVE  [title |-> new[k].title, at |-> new[k].at, text |-> new[k].text, entities |-> known(new[k])]
                \in SectionRecords
  BY <1>6, <1>8 DEF Pieces, SectionRecords
<1>10. Chunked(f) \in Seq(SectionRecords) /\ DOMAIN Chunked(f) = DOMAIN new
  BY <1>2, <1>8, <1>9
<1>11. ASSUME NEW k \in DOMAIN new
       PROVE  /\ Chunked(f)[k].title = new[k].title /\ Chunked(f)[k].at = new[k].at
              /\ Chunked(f)[k].text = new[k].text /\ Chunked(f)[k].entities = known(new[k])
  BY <1>2
<1>12. ASSUME NEW k \in DOMAIN new
       PROVE  \A e \in Chunked(f)[k].entities : e[1] = f /\ e[2] = Chunked(f)[k].title /\ e[3] = Chunked(f)[k].at
  BY <1>6, <1>11
<1>13. ASSUME NEW k \in DOMAIN new, ~run.force, f \in DOMAIN run.cached_files,
              NEW j \in DOMAIN run.cached_files[f].sections,
              run.cached_files[f].sections[j].title = Chunked(f)[k].title,
              run.cached_files[f].sections[j].at = Chunked(f)[k].at
       PROVE  run.cached_files[f].sections[j].entities \subseteq Chunked(f)[k].entities
  BY <1>6, <1>7, <1>11, <1>13
<1> QED
  BY <1>10, <1>11, <1>12, <1>13 DEF new


\* A section that was known when the run began is known after its file is
\* chunked again.
LEMMA IndexFileKeeps ==
  ASSUME IndexInv, NEW flush \in BOOLEAN, IndexFile(flush)
  PROVE  RunOK(run', corpus, clock) /\ DbOK(db', run', corpus, clock)
<1> DEFINE f == Head(run.todo)
<1> DEFINE files == run.cached_files
<1> DEFINE taken == NeedsIndex(f) /\ IsReadable(f)
<1> DEFINE mine == [mtime |-> corpus[f].mtime, sections |-> Chunked(f)]
<1> DEFINE after == IF taken THEN [g \in DOMAIN files \union {f} |-> IF g = f THEN mine ELSE files[g]]
                    ELSE files
<1>0. /\ RunOK(run, corpus, clock) /\ DbOK(db, run, corpus, clock) /\ CorpusOK(corpus, clock)
      /\ DOMAIN run = RunFields
  BY DEF IndexInv, RunOK
<1>1. run.pc = "scan" /\ run.todo # <<>> /\ f \in DOMAIN corpus
  BY DEF IndexFile
<1>2. run' = [run EXCEPT !.todo = Tail(@), !.seen = @ \union {f}, !.cached_files = after,
                         !.pc = IF flush THEN "bm25" ELSE "scan", !.back = "scan"]
  BY DEF IndexFile
<1> HIDE DEF taken, mine
<1>3. /\ DOMAIN run' = RunFields /\ run'.force = run.force /\ run'.todo = Tail(run.todo)
      /\ run'.seen = run.seen \union {f} /\ run'.cached_files = after /\ run'.pc \in {"bm25", "scan"}
      /\ run'.back = "scan" /\ run'.had = run.had /\ run'.tasks = run.tasks /\ run'.next = run.next
      /\ run'.hands = run.hands /\ run'.results = run.results /\ run'.outcome = run.outcome
  <2> HIDE DEF after, f
  <2> QED
    BY <1>0, <1>2 DEF RunFields
<1>4. /\ run.todo \in Seq(Files) /\ f \in Files /\ f = run.todo[1] /\ Len(run.todo) \in Nat /\ 1 \in 1 .. Len(run.todo)
      /\ Tail(run.todo) \in Seq(Files) /\ Len(Tail(run.todo)) = Len(run.todo) - 1
      /\ \A i \in 1 .. Len(Tail(run.todo)) : i + 1 \in 1 .. Len(run.todo) /\ Tail(run.todo)[i] = run.todo[i + 1]
  <2>1. run.todo \in Seq(Files)
    BY <1>0 DEF RunOK, ScanOK
  <2>2. Len(run.todo) \in Nat /\ Len(run.todo) >= 1
    BY <1>1, <2>1
  <2>3. Tail(run.todo) \in Seq(Files) /\ Len(Tail(run.todo)) = Len(run.todo) - 1
    BY <1>1, <2>1
  <2>4. \A i \in 1 .. Len(Tail(run.todo)) : i + 1 \in 1 .. Len(run.todo) /\ Tail(run.todo)[i] = run.todo[i + 1]
    BY <1>1, <2>1, <2>3
  <2>5. f = run.todo[1] /\ f \in Files
    BY <1>1, <2>1, <2>2
  <2> QED
    BY <2>1, <2>2, <2>3, <2>4, <2>5
<1>5. PlaceOK(run')
  BY <1>0, <1>1, <1>3 DEF RunOK, PlaceOK
<1>6. ScanOK(run')
  <2>1. \A i, j \in 1 .. Len(run.todo) : run.todo[i] = run.todo[j] => i = j
    BY <1>0 DEF RunOK, ScanOK
  <2>2. \A i \in 1 .. Len(run.todo) : run.todo[i] \notin run.seen
    BY <1>0 DEF RunOK, ScanOK
  <2>3. ASSUME NEW i \in 1 .. Len(Tail(run.todo))
        PROVE  Tail(run.todo)[i] \notin run.seen \union {f}
    <3>1. i + 1 # 1
      BY <1>4
    <3> QED
      BY <1>4, <2>1, <2>2, <3>1
  <2>4. ASSUME NEW i \in 1 .. Len(Tail(run.todo)), NEW j \in 1 .. Len(Tail(run.todo)),
               Tail(run.todo)[i] = Tail(run.todo)[j]
        PROVE  i = j
    <3>1. i + 1 = j + 1
      BY <1>4, <2>1, <2>4
    <3> QED
      BY <1>4, <3>1
  <2>5. ~Scanned(run')
    BY <1>3 DEF Scanned
  <2> QED
    BY <1>3, <1>4, <2>3, <2>4, <2>5 DEF ScanOK
<1>7. DOMAIN files \subseteq Files /\ \A g \in DOMAIN files : FileOK(g, files[g], corpus, clock)
  BY <1>0 DEF RunOK, FilesOK
<1>8. FileOK(f, mine, corpus, clock)
  <2>1. corpus[f].content \in Contents /\ corpus[f].mtime \in Nat /\ corpus[f].mtime <= clock
    BY <1>0, <1>1 DEF CorpusOK
  <2>2. mine.mtime = corpus[f].mtime /\ mine.sections = Chunked(f) /\ mine = [mtime |-> mine.mtime, sections |-> mine.sections]
    BY DEF mine
  <2>3. Chunked(f) \in Seq(SectionRecords) /\ DOMAIN Chunked(f) = DOMAIN NewSections(f)
    BY <1>1, ChunkedIs
  <2>4. mine \in FileRecords
    BY <2>1, <2>2, <2>3 DEF FileRecords
  <2>5. \A k \in DOMAIN Chunked(f) :
           /\ Chunked(f)[k].title = NewSections(f)[k].title /\ Chunked(f)[k].at = NewSections(f)[k].at
           /\ Chunked(f)[k].text = NewSections(f)[k].text
           /\ \A e \in Chunked(f)[k].entities : e[1] = f /\ e[2] = Chunked(f)[k].title /\ e[3] = Chunked(f)[k].at
    BY <1>1, ChunkedIs
  <2>6. \A j, k \in DOMAIN NewSections(f) :
           NewSections(f)[j].title = NewSections(f)[k].title /\ NewSections(f)[j].at = NewSections(f)[k].at => j = k
    BY <1>4, <2>1, SearchAssumption DEF NewSections
  <2>7. TextsOf(Chunked(f)) = TextsOf(NewSections(f))
    BY <2>3, <2>5 DEF TextsOf
  <2>8. \A j, k \in DOMAIN mine.sections :
           mine.sections[j].title = mine.sections[k].title /\ mine.sections[j].at = mine.sections[k].at => j = k
    BY <2>2, <2>3, <2>5, <2>6
  <2>9. \A k \in DOMAIN mine.sections : \A e \in mine.sections[k].entities :
           e[1] = f /\ e[2] = mine.sections[k].title /\ e[3] = mine.sections[k].at
    BY <2>2, <2>5
  <2>10. mine.mtime <= clock /\ mine.mtime <= corpus[f].mtime
    BY <2>1, <2>2
  <2>11. TextsOf(mine.sections) = TextsOf(Chunks(f, corpus[f].content))
    BY <2>2, <2>7 DEF NewSections
  <2> QED
    BY <2>4, <2>8, <2>9, <2>10, <2>11 DEF FileOK
<1>9. DOMAIN after = IF taken THEN DOMAIN files \union {f} ELSE DOMAIN files
  BY Zenon
<1>10. \A g \in DOMAIN after : after[g] = IF taken /\ g = f THEN mine ELSE files[g]
  OBVIOUS
<1> HIDE DEF after
<1>11. FilesOK(run'.cached_files, corpus, clock)
  <2>1. DOMAIN after \subseteq Files
    BY <1>4, <1>7, <1>9
  <2>2. ASSUME NEW g \in DOMAIN after
        PROVE  FileOK(g, after[g], corpus, clock)
    <3>1. CASE taken /\ g = f
      BY <1>8, <1>10, <3>1
    <3>2. CASE ~(taken /\ g = f)
      BY <1>7, <1>9, <1>10, <3>2
    <3> QED
      BY <3>1, <3>2
  <2> QED
    BY <1>3, <2>1, <2>2 DEF FilesOK
<1>12. ASSUME ~run.force
       PROVE  \A g \in DOMAIN after : \A k \in DOMAIN after[g].sections :
                Named(g, after[g].sections[k]) \in run.had => IsDone(after[g].sections[k])
  <2> TAKE g \in DOMAIN after
  <2>1. CASE taken /\ g = f
    <3> TAKE k \in DOMAIN after[g].sections
    <3> HAVE Named(g, after[g].sections[k]) \in run.had
    <3>1. after[g].sections = Chunked(f)
      BY <1>10, <2>1 DEF mine
    <3> DEFINE x == Named(f, Chunked(f)[k])
    <3>2. x \in run.had /\ x[1] = f /\ k \in DOMAIN Chunked(f)
      BY <2>1, <3>1 DEF Named
    <3>3. f \in DOMAIN files /\ \E j \in DOMAIN files[f].sections :
             x = Named(f, files[f].sections[j]) /\ IsDone(files[f].sections[j])
      BY <1>0, <1>4, <1>12, <3>2 DEF RunOK, HadOK
    <3>4. PICK j \in DOMAIN files[f].sections : x = Named(f, files[f].sections[j]) /\ IsDone(files[f].sections[j])
      BY <3>3
    <3>5. files[f].sections[j].title = Chunked(f)[k].title /\ files[f].sections[j].at = Chunked(f)[k].at
      BY <3>4 DEF Named
    <3>6. files[f].sections[j].entities \subseteq Chunked(f)[k].entities
      BY <1>1, <1>12, <3>2, <3>3, <3>5, ChunkedIs
    <3>7. IsDone(Chunked(f)[k])
      BY <3>4, <3>6 DEF IsDone
    <3> QED
      BY <3>1, <3>7
  <2>2. CASE ~(taken /\ g = f)
    <3>1. g \in DOMAIN files /\ after[g] = files[g]
      BY <1>9, <1>10, <2>2
    <3> QED
      BY <1>0, <1>12, <3>1 DEF RunOK, HadOK
  <2> QED
    BY <2>1, <2>2
<1>13. ASSUME ~run.force
       PROVE  \A i \in 1 .. Len(Tail(run.todo)) : \A x \in run.had :
              x[1] = Tail(run.todo)[i] =>
                  /\ Tail(run.todo)[i] \in DOMAIN after
                  /\ \E k \in DOMAIN after[Tail(run.todo)[i]].sections :
                        /\ x = Named(Tail(run.todo)[i], after[Tail(run.todo)[i]].sections[k])
                        /\ IsDone(after[Tail(run.todo)[i]].sections[k])
  <2> TAKE i \in 1 .. Len(Tail(run.todo))
  <2> TAKE x \in run.had
  <2> DEFINE g == Tail(run.todo)[i]
  <2> HAVE x[1] = g
  <2>1. i + 1 \in 1 .. Len(run.todo) /\ g = run.todo[i + 1] /\ i + 1 # 1
    BY <1>4
  <2>2. \A a, b \in 1 .. Len(run.todo) : run.todo[a] = run.todo[b] => a = b
    BY <1>0 DEF RunOK, ScanOK
  <2>3. g # f
    BY <1>4, <2>1, <2>2
  <2>4. g \in DOMAIN files /\ \E k \in DOMAIN files[g].sections :
           x = Named(g, files[g].sections[k]) /\ IsDone(files[g].sections[k])
    BY <1>0, <1>13, <2>1 DEF RunOK, HadOK
  <2>5. g \in DOMAIN after /\ after[g] = files[g]
    BY <1>9, <1>10, <2>3, <2>4
  <2> QED
    BY <2>4, <2>5
<1>14. HadOK(run')
  BY <1>3, <1>12, <1>13 DEF HadOK
<1>15. run.tasks = <<>>
  BY <1>0, <1>1 DEF RunOK, TasksOK, TasksPlaced, PlaceOK
<1>16. TasksOK(run')
  BY <1>0, <1>3, <1>15 DEF RunOK, TasksOK, TasksPlaced
<1>17. HandsOK(run'.hands, run'.results, run'.next)
  BY <1>0, <1>3 DEF RunOK
<1>18. RunOK(run', corpus, clock)
  BY <1>0, <1>3, <1>5, <1>6, <1>11, <1>14, <1>16, <1>17 DEF RunOK
<1>19. run.outcome # "done" /\ db' = db
  BY <1>0, <1>1 DEF RunOK, PlaceOK, IndexFile
<1>20. DbOK(db', run', corpus, clock)
  BY <1>0, <1>3, <1>19 DEF DbOK
<1> QED
  BY <1>18, <1>20


\* What the cached files say stays true while the corpus moves on.
CorpusMoves(cor, now, cor2, now2) ==
    /\ now \in Nat /\ now2 \in Nat /\ now <= now2
    /\ \A f \in DOMAIN cor2 :
          \/ f \in DOMAIN cor /\ cor2[f] = cor[f]
          \/ /\ cor2[f].mtime \in Nat /\ cor2[f].mtime >= now
             /\ \/ cor2[f].hidden \/ cor2[f].mtime > now
                \/ f \in DOMAIN cor /\ cor[f].mtime < now /\ cor[f].mtime \in Nat

LEMMA FilesStay ==
  ASSUME NEW files, NEW cor, NEW now, NEW cor2, NEW now2,
         CorpusMoves(cor, now, cor2, now2), FilesOK(files, cor, now)
  PROVE  FilesOK(files, cor2, now2)
<1>1. ASSUME NEW f \in DOMAIN files
      PROVE  FileOK(f, files[f], cor2, now2)
  <2>1. FileOK(f, files[f], cor, now)
    BY DEF FilesOK
  <2>2. files[f].mtime \in Nat /\ files[f].mtime <= now
    BY <2>1 DEF FileOK, FileRecords
  <2>3. files[f].mtime <= now2
    BY <2>2 DEF CorpusMoves
  <2>5. f \in DOMAIN cor => files[f].mtime <= cor[f].mtime
    BY <2>1 DEF FileOK
  <2>4. ASSUME f \in DOMAIN cor2, IsText(cor2[f].content), cor2[f].mtime = files[f].mtime, ~cor2[f].hidden
        PROVE  TextsOf(files[f].sections) = TextsOf(Chunks(f, cor2[f].content))
    <3>1. ~(cor2[f].mtime > now) /\ now \in Nat
      BY <2>2, <2>4 DEF CorpusMoves
    <3>2. ~(cor2[f].mtime >= now /\ cor2[f].mtime \in Nat /\ f \in DOMAIN cor /\ cor[f].mtime < now /\ cor[f].mtime \in Nat)
      BY <2>2, <2>4, <2>5, <3>1
    <3>3. f \in DOMAIN cor /\ cor2[f] = cor[f]
      BY <2>4, <3>1, <3>2 DEF CorpusMoves
    <3> QED
      BY <2>1, <2>4, <3>3 DEF FileOK
  <2>6. f \in DOMAIN cor2 => files[f].mtime <= cor2[f].mtime
    <3>1. now \in Nat
      BY DEF CorpusMoves
    <3> SUFFICES ASSUME f \in DOMAIN cor2 PROVE files[f].mtime <= cor2[f].mtime
      OBVIOUS
    <3>2. CASE f \in DOMAIN cor /\ cor2[f] = cor[f]
      BY <2>5, <3>2
    <3>3. CASE cor2[f].mtime \in Nat /\ cor2[f].mtime >= now
      BY <2>2, <3>1, <3>3
    <3> QED
      BY <3>2, <3>3 DEF CorpusMoves
  <2> QED
    BY <2>1, <2>3, <2>4, <2>6 DEF FileOK
<1> QED
  BY <1>1 DEF FilesOK

LEMMA CorpusKeeps ==
  ASSUME IndexInv, CorpusMoves(corpus, clock, corpus', clock'), UNCHANGED <<db, run>>
  PROVE  RunOK(run', corpus', clock') /\ DbOK(db', run', corpus', clock')
<1>1. FilesOK(run.cached_files, corpus', clock')
  BY FilesStay DEF IndexInv, RunOK
<1>2. FilesOK(db.state.cached_files, corpus', clock')
  BY FilesStay DEF IndexInv, DbOK
<1>3. RunOK(run', corpus', clock')
  BY <1>1 DEF IndexInv, RunOK
<1> QED
  BY <1>2, <1>3 DEF IndexInv, DbOK

LEMMA EditKeeps ==
  ASSUME IndexInv, NEW f \in Files, NEW c \in Contents, Edit(f, c)
  PROVE  IndexInv'
<1> DEFINE new == [content |-> c, mtime |-> clock', hidden |-> Hides(f)]
<1>1. clock \in Nat /\ clock' \in {clock, clock + 1} /\ UNCHANGED <<db, run>>
  BY DEF Edit, IndexInv, CorpusOK
<1>2. corpus' = [g \in DOMAIN corpus \union {f} |-> IF g = f THEN new ELSE corpus[g]]
  BY DEF Edit
<1>7. new.content = c /\ new.mtime = clock' /\ (new.hidden <=> Hides(f))
  OBVIOUS
<1> HIDE DEF new
<1>3. ASSUME NEW g \in DOMAIN corpus'
      PROVE  (g = f /\ corpus'[g] = new) \/ (g \in DOMAIN corpus /\ corpus'[g] = corpus[g])
  BY <1>2
<1>4. DOMAIN corpus' \subseteq Files
  BY <1>2 DEF IndexInv, CorpusOK
<1>5. CorpusMoves(corpus, clock, corpus', clock')
  <2>1. clock' >= clock /\ clock' \in Nat
    BY <1>1
  <2>2. new.mtime \in Nat /\ new.mtime >= clock
    BY <1>7, <2>1
  <2>3. \/ new.hidden \/ new.mtime > clock
        \/ f \in DOMAIN corpus /\ corpus[f].mtime < clock /\ corpus[f].mtime \in Nat
    <3>1. f \in DOMAIN corpus => corpus[f].mtime \in Nat /\ corpus[f].mtime <= clock
      BY DEF IndexInv, CorpusOK
    <3>2. CASE clock' = clock + 1
      BY <1>1, <1>7, <3>2
    <3>3. CASE clock' = clock
      BY <1>1, <1>7, <3>1, <3>3 DEF Hides
    <3> QED
      BY <1>1, <3>2, <3>3
  <2> QED
    BY <1>1, <1>3, <2>1, <2>2, <2>3 DEF CorpusMoves
<1>6. CorpusOK(corpus', clock')
  <2>1. ASSUME NEW g \in DOMAIN corpus'
        PROVE  corpus'[g].content \in Contents /\ corpus'[g].mtime \in Nat /\ corpus'[g].mtime <= clock'
    <3>1. CASE g = f /\ corpus'[g] = new
      BY <1>1, <1>7, <3>1
    <3>2. CASE g \in DOMAIN corpus /\ corpus'[g] = corpus[g]
      <4>1. corpus[g].content \in Contents /\ corpus[g].mtime \in Nat /\ corpus[g].mtime <= clock
        BY <3>2 DEF IndexInv, CorpusOK
      <4> QED
        BY <1>1, <3>2, <4>1
    <3> QED
      BY <1>3, <3>1, <3>2
  <2> QED
    BY <1>1, <1>4, <2>1 DEF CorpusOK
<1> QED
  BY <1>1, <1>5, <1>6, CorpusKeeps DEF IndexInv

LEMMA DeleteKeeps ==
  ASSUME IndexInv, NEW f \in Files, Delete(f)
  PROVE  IndexInv'
<1>1. clock \in Nat /\ clock' = clock /\ UNCHANGED <<db, run>>
  BY DEF Delete, IndexInv, CorpusOK
<1>2. corpus' = [g \in DOMAIN corpus \ {f} |-> corpus[g]]
  BY DEF Delete
<1>3. \A g \in DOMAIN corpus' : g \in DOMAIN corpus /\ corpus'[g] = corpus[g]
  BY <1>2
<1>4. CorpusMoves(corpus, clock, corpus', clock')
  BY <1>1, <1>3 DEF CorpusMoves
<1>5. CorpusOK(corpus', clock')
  BY <1>1, <1>3 DEF IndexInv, CorpusOK
<1> QED
  BY <1>1, <1>4, <1>5, CorpusKeeps DEF IndexInv

LEMMA FailsKeepsIndex ==
  ASSUME IndexInv, IndexFileFails
  PROVE  RunOK(run', corpus, clock) /\ DbOK(db', run', corpus, clock)
<1>1. run' = [Idle EXCEPT !.outcome = "failed"] /\ db' = db
  BY DEF IndexFileFails
<1>2. RunOK(run', corpus, clock) /\ run'.pc = "idle" /\ run'.outcome # "done"
  BY <1>1, StopsShort
<1> QED
  BY <1>1, <1>2 DEF IndexInv, DbOK

LEMMA CrashKeeps ==
  ASSUME IndexInv, Crash
  PROVE  RunOK(run', corpus, clock) /\ DbOK(db', run', corpus, clock)
<1>1. run' = [Idle EXCEPT !.outcome = "crashed"]
  BY DEF Crash
<1>2. RunOK(run', corpus, clock) /\ run'.pc = "idle" /\ run'.outcome # "done"
  BY <1>1, StopsShort
<1>3. /\ DOMAIN db = {"state", "bm25", "others"} /\ DOMAIN db.others = {"spelling", "graph"}
      /\ FilesOK(db.state.cached_files, corpus, clock)
  BY DEF IndexInv, DbOK
<1>4. FilesOK(NoState.cached_files, corpus, clock)
  BY DEF FilesOK, NoState, Empty
<1>5. /\ DOMAIN db' = {"state", "bm25", "others"} /\ DOMAIN db'.others = {"spelling", "graph"}
      /\ db'.state = db.state \/ db'.state = NoState
  <2>1. CASE db' = db
    BY <1>3, <2>1
  <2>2. CASE db' = [db EXCEPT !.state = NoState]
    BY <1>3, <2>2
  <2>3. CASE db' = [db EXCEPT !.bm25 = NoIndex.bm25]
    BY <1>3, <2>3
  <2>4. CASE db' = [db EXCEPT !.others.spelling = FALSE]
    BY <1>3, <2>4
  <2>5. CASE db' = [db EXCEPT !.others.graph = FALSE]
    BY <1>3, <2>5
  <2> QED
    BY <2>1, <2>2, <2>3, <2>4, <2>5 DEF Crash
<1> QED
  BY <1>2, <1>3, <1>4, <1>5 DEF DbOK

LEMMA DropDeletedKeeps ==
  ASSUME IndexInv, DropDeleted
  PROVE  RunOK(run', corpus, clock) /\ DbOK(db', run', corpus, clock)
<1> DEFINE files == [f \in DOMAIN run.cached_files \intersect run.seen |-> run.cached_files[f]]
<1>0. RunOK(run, corpus, clock) /\ DOMAIN run = RunFields /\ DbOK(db, run, corpus, clock)
  BY DEF IndexInv, RunOK
<1>1. run.pc = "scan" /\ run.todo = <<>> /\ db' = db
  BY DEF DropDeleted
<1>2. CASE run' = [Idle EXCEPT !.outcome = "empty"]
  <2>1. RunOK(run', corpus, clock) /\ run'.pc = "idle" /\ run'.outcome # "done"
    BY <1>2, StopsShort
  <2> QED
    BY <1>0, <1>1, <2>1 DEF DbOK
<1>3. CASE run' = [run EXCEPT !.pc = "session", !.cached_files = files]
  <2>1. DOMAIN files \subseteq DOMAIN run.cached_files /\ DOMAIN files \subseteq run.seen
        /\ \A f \in DOMAIN files : files[f] = run.cached_files[f]
    OBVIOUS
  <2> HIDE DEF files
  <2>2. /\ DOMAIN run' = RunFields /\ run'.force = run.force /\ run'.todo = run.todo /\ run'.seen = run.seen
        /\ run'.cached_files = files /\ run'.pc = "session" /\ run'.back = run.back /\ run'.had = run.had
        /\ run'.tasks = run.tasks /\ run'.next = run.next /\ run'.hands = run.hands
        /\ run'.results = run.results /\ run'.outcome = run.outcome
    BY <1>0, <1>3 DEF RunFields
  <2>3. PlaceOK(run')
    BY <1>0, <1>1, <2>2 DEF RunOK, PlaceOK
  <2>4. ScanOK(run')
    BY <1>0, <1>1, <2>1, <2>2 DEF RunOK, ScanOK
  <2>5. HadOK(run')
    <3>1. 1 .. Len(run'.todo) = {}
      BY <1>1, <2>2
    <3>2. ~run.force => \A f \in DOMAIN files : \A k \in DOMAIN files[f].sections :
              Named(f, files[f].sections[k]) \in run.had => IsDone(files[f].sections[k])
      BY <1>0, <2>1 DEF RunOK, HadOK
    <3> QED
      BY <2>2, <3>1, <3>2 DEF HadOK
  <2>6. run.tasks = <<>>
    BY <1>0, <1>1 DEF RunOK, TasksOK, TasksPlaced, PlaceOK
  <2>7. TasksOK(run')
    BY <1>0, <2>2, <2>6 DEF RunOK, TasksOK, TasksPlaced
  <2>8. FilesOK(files, corpus, clock)
    BY <1>0, <2>1 DEF RunOK, FilesOK
  <2>9. RunOK(run', corpus, clock)
    BY <1>0, <2>2, <2>3, <2>4, <2>5, <2>7, <2>8 DEF RunOK
  <2> QED
    BY <1>0, <1>1, <2>2, <2>9 DEF DbOK, RunOK, PlaceOK
<1> QED
  BY <1>2, <1>3 DEF DropDeleted

LEMMA EmbedKeeps ==
  ASSUME IndexInv, Embed
  PROVE  RunOK(run', corpus, clock) /\ DbOK(db', run', corpus, clock)
<1>0. RunOK(run, corpus, clock) /\ DOMAIN run = RunFields /\ DbOK(db, run, corpus, clock)
  BY DEF IndexInv, RunOK
<1>1. run.pc = "session" /\ db' = db
  BY DEF Embed
<1>2. PICK got : run' = [run EXCEPT !.session = got, !.pc = "bm25", !.back = "state"]
  BY DEF Embed
<1>3. /\ DOMAIN run' = RunFields /\ run'.force = run.force /\ run'.todo = run.todo /\ run'.seen = run.seen
      /\ run'.cached_files = run.cached_files /\ run'.pc = "bm25" /\ run'.back = "state" /\ run'.had = run.had
      /\ run'.tasks = run.tasks /\ run'.next = run.next /\ run'.hands = run.hands
      /\ run'.results = run.results /\ run'.outcome = run.outcome
  BY <1>0, <1>2 DEF RunFields
<1>4. PlaceOK(run') /\ Scanned(run)
  BY <1>0, <1>1, <1>3 DEF RunOK, PlaceOK, Scanned
<1>5. TasksPlaced(run')
  BY <1>0, <1>1, <1>3 DEF RunOK, TasksOK, TasksPlaced, PlaceOK
<1>6. RunOK(run', corpus, clock)
  BY <1>0, <1>3, <1>4, <1>5, SameFiles
<1> QED
  BY <1>0, <1>1, <1>3, <1>6 DEF DbOK, RunOK, PlaceOK

LEMMA FlushKeeps ==
  ASSUME IndexInv, Flush
  PROVE  RunOK(run', corpus, clock) /\ DbOK(db', run', corpus, clock)
<1>0. RunOK(run, corpus, clock) /\ DOMAIN run = RunFields /\ DbOK(db, run, corpus, clock)
  BY DEF IndexInv, RunOK
<1>1. PICK pc : /\ run' = [run EXCEPT !.pc = pc]
                /\ \/ run.pc = "bm25" /\ pc = "spelling"
                      /\ db' = [db EXCEPT !.bm25 = [whole |-> TRUE, sections |-> AllSections(run.cached_files)]]
                   \/ run.pc = "spelling" /\ pc = "graph" /\ db' = [db EXCEPT !.others.spelling = TRUE]
                   \/ run.pc = "graph" /\ pc = run.back /\ db' = [db EXCEPT !.others.graph = TRUE]
  BY DEF Flush, MovesTo
<1>2. /\ DOMAIN run' = RunFields /\ run'.force = run.force /\ run'.todo = run.todo /\ run'.seen = run.seen
      /\ run'.cached_files = run.cached_files /\ run'.pc = pc /\ run'.back = run.back /\ run'.had = run.had
      /\ run'.tasks = run.tasks /\ run'.next = run.next /\ run'.hands = run.hands
      /\ run'.results = run.results /\ run'.outcome = run.outcome
  BY <1>0, <1>1 DEF RunFields
<1>3. PlaceOK(run)
  BY <1>0 DEF RunOK
<1>4. PlaceOK(run') /\ (Scanned(run') => Scanned(run)) /\ run.outcome # "done"
  BY <1>1, <1>2, <1>3 DEF PlaceOK, Scanned
<1>5. TasksPlaced(run')
  BY <1>0, <1>1, <1>2 DEF RunOK, TasksOK, TasksPlaced
<1>6. RunOK(run', corpus, clock)
  BY <1>0, <1>2, <1>4, <1>5, SameFiles
<1>7. DOMAIN db = {"state", "bm25", "others"} /\ DOMAIN db.others = {"spelling", "graph"}
      /\ FilesOK(db.state.cached_files, corpus, clock)
      /\ (run.pc \in {"spelling", "graph", "end"} => db.bm25.sections = AllSections(run.cached_files))
  BY <1>0 DEF DbOK
<1>8. /\ DOMAIN db' = {"state", "bm25", "others"} /\ DOMAIN db'.others = {"spelling", "graph"}
      /\ db'.state = db.state /\ db'.bm25.sections = AllSections(run.cached_files)
  <2>1. CASE run.pc = "bm25" /\ db' = [db EXCEPT !.bm25 = [whole |-> TRUE, sections |-> AllSections(run.cached_files)]]
    BY <1>7, <2>1
  <2>2. CASE run.pc = "spelling" /\ db' = [db EXCEPT !.others.spelling = TRUE]
    BY <1>7, <2>2
  <2>3. CASE run.pc = "graph" /\ db' = [db EXCEPT !.others.graph = TRUE]
    BY <1>7, <2>3
  <2> QED
    BY <1>1, <2>1, <2>2, <2>3
<1>9. DbOK(db', run', corpus, clock)
  BY <1>2, <1>4, <1>7, <1>8 DEF DbOK
<1> QED
  BY <1>6, <1>9

LEMMA SaveEarlyStateKeeps ==
  ASSUME IndexInv, SaveEarlyState
  PROVE  RunOK(run', corpus, clock) /\ DbOK(db', run', corpus, clock)
<1>0. RunOK(run, corpus, clock) /\ DOMAIN run = RunFields /\ DbOK(db, run, corpus, clock)
  BY DEF IndexInv, RunOK
<1>1. run.pc = "state" /\ run.back = "state" /\ run.outcome # "done"
  BY <1>0 DEF SaveEarlyState, RunOK, PlaceOK
<1>2. DOMAIN db = {"state", "bm25", "others"} /\ DOMAIN db.others = {"spelling", "graph"}
  BY <1>0 DEF DbOK
<1>3. /\ DOMAIN db' = {"state", "bm25", "others"} /\ db'.others = db.others
      /\ db'.state.cached_files = run.cached_files
  BY <1>2 DEF SaveEarlyState, State
<1>4. FilesOK(run.cached_files, corpus, clock)
  BY <1>0 DEF RunOK
<1>5. CASE run' = [run EXCEPT !.pc = "extract", !.tasks = Worklist]
  <2>1. /\ DOMAIN run' = RunFields /\ run'.force = run.force /\ run'.todo = run.todo /\ run'.seen = run.seen
        /\ run'.cached_files = run.cached_files /\ run'.pc = "extract" /\ run'.back = "state"
        /\ run'.had = run.had /\ run'.tasks = Worklist /\ run'.next = run.next /\ run'.hands = run.hands
        /\ run'.results = run.results /\ run'.outcome = run.outcome
    BY <1>0, <1>1, <1>5 DEF RunFields
  <2>2. PlaceOK(run')
    BY <1>0, <1>1, <2>1 DEF RunOK, PlaceOK
  <2>3. ScanOK(run')
    BY <1>0, <1>1, <2>1 DEF RunOK, ScanOK, Scanned
  <2>4. HadOK(run')
    BY <1>0, <2>1 DEF RunOK, HadOK
  <2>5. Worklist \in Seq(OpenTasks(run.cached_files))
    <3>1. \A f \in DOMAIN run.cached_files : f \in Files /\ run.cached_files[f].sections \in Seq(SectionRecords)
      BY <1>4 DEF FilesOK, FileOK, FileRecords
    <3> QED
      BY <3>1, WorklistIs
  <2>6. Worklist \in Seq(TaskRecords) /\ Len(Worklist) \in Nat
        /\ \A i \in 1 .. Len(Worklist) : Worklist[i] \in OpenTasks(run.cached_files)
    <3>1. OpenTasks(run.cached_files) \subseteq TaskRecords
      BY DEF OpenTasks
    <3> QED
      BY <2>5, <3>1
  <2>7. ASSUME NEW i \in 1 .. Len(Worklist)
        PROVE  TaskOK(run', Worklist[i])
    <3> DEFINE t == Worklist[i]
    <3>1. t.file \in DOMAIN run.cached_files /\ t.k \in DOMAIN run.cached_files[t.file].sections
          /\ ~IsDone(run.cached_files[t.file].sections[t.k])
      BY <2>6 DEF OpenTasks
    <3> HIDE DEF t
    <3>2. ~run.force => Named(t.file, run.cached_files[t.file].sections[t.k]) \notin run.had
      BY <1>0, <3>1 DEF RunOK, HadOK
    <3>3. TaskOK(run', t)
      BY <2>1, <3>1, <3>2 DEF TaskOK
    <3> QED
      BY <3>3 DEF t
  <2>8. run.tasks = <<>>
    BY <1>0, <1>1 DEF RunOK, TasksOK, TasksPlaced
  <2>9. run.next = 1
    BY <1>0, <2>8 DEF RunOK, TasksOK
  <2>10. TasksOK(run')
    BY <2>1, <2>6, <2>7, <2>9 DEF TasksOK, TasksPlaced
  <2>11. RunOK(run', corpus, clock)
    BY <1>0, <2>1, <2>2, <2>3, <2>4, <2>10 DEF RunOK
  <2> QED
    BY <1>1, <1>2, <1>3, <1>4, <2>1, <2>11 DEF DbOK
<1>6. CASE run' = [run EXCEPT !.pc = "bm25", !.back = "end"]
  <2>1. /\ DOMAIN run' = RunFields /\ run'.force = run.force /\ run'.todo = run.todo /\ run'.seen = run.seen
        /\ run'.cached_files = run.cached_files /\ run'.pc = "bm25" /\ run'.back = "end"
        /\ run'.had = run.had /\ run'.tasks = run.tasks /\ run'.next = run.next /\ run'.hands = run.hands
        /\ run'.results = run.results /\ run'.outcome = run.outcome
    BY <1>0, <1>1, <1>6 DEF RunFields
  <2>2. PlaceOK(run') /\ Scanned(run) /\ TasksPlaced(run')
    BY <1>0, <1>1, <2>1 DEF RunOK, PlaceOK, Scanned, TasksPlaced
  <2>3. RunOK(run', corpus, clock)
    BY <1>0, <2>1, <2>2, SameFiles
  <2> QED
    BY <1>1, <1>2, <1>3, <1>4, <2>1, <2>3 DEF DbOK
<1> QED
  BY <1>5, <1>6 DEF SaveEarlyState

LEMMA ExtractionKeeps ==
  ASSUME IndexInv, Extraction
  PROVE  RunOK(run', corpus, clock) /\ DbOK(db', run', corpus, clock)
<1>0. RunOK(run, corpus, clock) /\ DOMAIN run = RunFields /\ DbOK(db, run, corpus, clock)
  BY DEF IndexInv, RunOK
<1>1. run.pc = "extract" /\ run' = [run EXCEPT !.pc = "bm25", !.back = "end"] /\ db' = db
  BY DEF Extraction
<1>2. /\ DOMAIN run' = RunFields /\ run'.force = run.force /\ run'.todo = run.todo /\ run'.seen = run.seen
      /\ run'.cached_files = run.cached_files /\ run'.pc = "bm25" /\ run'.back = "end"
      /\ run'.had = run.had /\ run'.tasks = run.tasks /\ run'.next = run.next /\ run'.hands = run.hands
      /\ run'.results = run.results /\ run'.outcome = run.outcome
  BY <1>0, <1>1 DEF RunFields
<1>3. PlaceOK(run)
  BY <1>0 DEF RunOK
<1>4. PlaceOK(run') /\ Scanned(run) /\ TasksPlaced(run') /\ run.outcome # "done"
  BY <1>1, <1>2, <1>3 DEF PlaceOK, Scanned, TasksPlaced
<1>5. RunOK(run', corpus, clock)
  BY <1>0, <1>2, <1>4, SameFiles
<1> QED
  BY <1>0, <1>1, <1>2, <1>4, <1>5 DEF DbOK

LEMMA SaveStateKeeps ==
  ASSUME IndexInv, SaveState
  PROVE  RunOK(run', corpus, clock) /\ DbOK(db', run', corpus, clock)
<1>0. RunOK(run, corpus, clock) /\ DbOK(db, run, corpus, clock)
  BY DEF IndexInv
<1>1. run.pc = "end" /\ run.back = "end" /\ run' = [Idle EXCEPT !.outcome = "done", !.seen = run.seen]
  BY <1>0 DEF SaveState, RunOK, PlaceOK
<1>2. /\ DOMAIN run' = RunFields /\ run'.pc = "idle" /\ run'.force = FALSE /\ run'.todo = <<>>
      /\ run'.cached_files = Empty /\ run'.back = "idle" /\ run'.tasks = <<>> /\ run'.next = 1
      /\ run'.hands = [w \in Workers |-> {}] /\ run'.results = <<>> /\ run'.outcome = "done"
      /\ run'.seen = run.seen
  BY <1>1, IdleIs DEF RunFields
<1>3. RunOK(run', corpus, clock)
  BY <1>2, RestingRun
<1>4. DOMAIN db = {"state", "bm25", "others"} /\ DOMAIN db.others = {"spelling", "graph"}
      /\ db.bm25.sections = AllSections(run.cached_files)
  BY <1>0, <1>1 DEF DbOK
<1>5. /\ DOMAIN db' = {"state", "bm25", "others"} /\ db'.others = db.others /\ db'.bm25 = db.bm25
      /\ db'.state.cached_files = run.cached_files
  BY <1>4 DEF SaveState, State
<1>6. FilesOK(run.cached_files, corpus, clock) /\ DOMAIN run.cached_files \subseteq run.seen
  BY <1>0, <1>1 DEF RunOK, ScanOK, Scanned
<1>7. DbOK(db', run', corpus, clock)
  BY <1>2, <1>4, <1>5, <1>6 DEF DbOK
<1> QED
  BY <1>3, <1>7


LEMMA TakeKeeps ==
  ASSUME IndexInv, NEW w \in Workers, Take(w)
  PROVE  RunOK(run', corpus, clock) /\ DbOK(db', run', corpus, clock)
<1>0. RunOK(run, corpus, clock) /\ DOMAIN run = RunFields /\ DbOK(db, run, corpus, clock)
  BY DEF IndexInv, RunOK
<1>1. /\ run.tasks # <<>> /\ run.back # "end" /\ run.hands[w] = {} /\ run.next <= Len(run.tasks)
      /\ run' = [run EXCEPT !.hands[w] = {run.next}, !.next = @ + 1] /\ db' = db
  BY DEF Take, Extracting
<1>2. HandsOK(run.hands, run.results, run.next) /\ TasksOK(run) /\ PlaceOK(run)
  BY <1>0 DEF RunOK
<1> DEFINE n == run.next
<1> DEFINE hands == [run.hands EXCEPT ![w] = {n}]
<1>3. /\ DOMAIN run' = RunFields /\ run'.force = run.force /\ run'.todo = run.todo /\ run'.seen = run.seen
      /\ run'.cached_files = run.cached_files /\ run'.pc = run.pc /\ run'.back = run.back
      /\ run'.had = run.had /\ run'.tasks = run.tasks /\ run'.next = n + 1 /\ run'.hands = hands
      /\ run'.results = run.results /\ run'.outcome = run.outcome
  BY <1>0, <1>1 DEF RunFields
<1>4. n \in Nat /\ n >= 1 /\ Len(run.tasks) \in Nat /\ n <= Len(run.tasks)
  BY <1>1, <1>2 DEF TasksOK
<1>5. DOMAIN run.hands = Workers
  BY <1>2 DEF HandsOK
<1>6. DOMAIN hands = Workers /\ hands[w] = {n} /\ \A v \in Workers : v # w => hands[v] = run.hands[v]
  BY <1>5
<1>7. \A v \in Workers : n \notin run.hands[v]
  BY <1>2, <1>4 DEF HandsOK
<1>8. \A i \in 1 .. Len(run.results) : run.results[i].task # n
  BY <1>2, <1>4 DEF HandsOK
<1> HIDE DEF n, hands
<1>9. (1 .. (n - 1)) \subseteq 1 .. ((n + 1) - 1) /\ n \in 1 .. ((n + 1) - 1)
  BY <1>4
<1>10. HandsOK(hands, run.results, n + 1)
  <2>1. HandsOK(run.hands, run.results, n)
    BY <1>2 DEF n
  <2>2. \A v \in Workers : hands[v] = {} \/ \E m \in 1 .. ((n + 1) - 1) : hands[v] = {m}
    BY <1>6, <1>9, <2>1 DEF HandsOK
  <2>3. run.results \in Seq(ResultRecords) /\ \A i \in 1 .. Len(run.results) : run.results[i].task \in 1 .. ((n + 1) - 1)
    BY <1>9, <2>1 DEF HandsOK
  <2>4. \A i \in 1 .. Len(run.results) : \A v \in Workers : run.results[i].task \notin hands[v]
    BY <1>6, <1>8, <2>1 DEF HandsOK
  <2>5. \A u, v \in Workers : u # v => hands[u] \intersect hands[v] = {}
    BY <1>6, <1>7, <2>1 DEF HandsOK
  <2>6. \A i, j \in 1 .. Len(run.results) : run.results[i].task = run.results[j].task => i = j
    BY <2>1 DEF HandsOK
  <2> QED
    BY <1>6, <2>2, <2>3, <2>4, <2>5, <2>6 DEF HandsOK
<1>11. TasksOK(run')
  <2>1. \A t : TaskOK(run, t) <=> TaskOK(run', t)
    BY <1>3 DEF TaskOK
  <2>2. n + 1 \in Nat /\ n + 1 >= 1 /\ n + 1 <= Len(run.tasks) + 1
    BY <1>4
  <2> QED
    BY <1>2, <1>3, <2>1, <2>2 DEF TasksOK, TasksPlaced
<1>12. PlaceOK(run') /\ ScanOK(run') /\ HadOK(run')
  BY <1>0, <1>3 DEF RunOK, PlaceOK, ScanOK, Scanned, HadOK
<1>13. RunOK(run', corpus, clock)
  BY <1>0, <1>3, <1>10, <1>11, <1>12 DEF RunOK
<1> QED
  BY <1>0, <1>1, <1>3, <1>13 DEF DbOK

LEMMA ExtractKeeps ==
  ASSUME IndexInv, NEW w \in Workers, NEW ok \in BOOLEAN, Extract(w, ok)
  PROVE  RunOK(run', corpus, clock) /\ DbOK(db', run', corpus, clock)
<1>0. RunOK(run, corpus, clock) /\ DOMAIN run = RunFields /\ DbOK(db, run, corpus, clock)
  BY DEF IndexInv, RunOK
<1>1. PICK t \in run.hands[w] :
         run' = [run EXCEPT !.hands[w] = {}, !.results = Append(@, [task |-> t, ok |-> ok])]
  BY DEF Extract
<1>2. HandsOK(run.hands, run.results, run.next) /\ TasksOK(run) /\ db' = db
  BY <1>0 DEF RunOK, Extract
<1> DEFINE hands == [run.hands EXCEPT ![w] = {}]
<1> DEFINE got == [task |-> t, ok |-> ok]
<1> DEFINE results == Append(run.results, got)
<1>3. /\ DOMAIN run' = RunFields /\ run'.force = run.force /\ run'.todo = run.todo /\ run'.seen = run.seen
      /\ run'.cached_files = run.cached_files /\ run'.pc = run.pc /\ run'.back = run.back
      /\ run'.had = run.had /\ run'.tasks = run.tasks /\ run'.next = run.next /\ run'.hands = hands
      /\ run'.results = results /\ run'.outcome = run.outcome
  BY <1>0, <1>1 DEF RunFields
<1>4. DOMAIN hands = Workers /\ hands[w] = {} /\ \A v \in Workers : v # w => hands[v] = run.hands[v]
  BY <1>2 DEF HandsOK
<1>5. run.hands[w] = {t} /\ t \in 1 .. run.next - 1 /\ run.next \in Nat
  BY <1>1, <1>2 DEF HandsOK, TasksOK
<1>6. got \in ResultRecords /\ got.task = t
  BY <1>5 DEF ResultRecords
<1>7. run.results \in Seq(ResultRecords) /\ Len(run.results) \in Nat
  BY <1>2 DEF HandsOK
<1>8. results \in Seq(ResultRecords) /\ Len(results) = Len(run.results) + 1
  BY <1>6, <1>7
<1>9. \A i \in 1 .. Len(results) : IF i \in 1 .. Len(run.results) THEN results[i] = run.results[i]
                                  ELSE i = Len(run.results) + 1 /\ results[i] = got
  BY <1>6, <1>7, <1>8
<1> HIDE DEF hands, got, results
<1>10. \A i \in 1 .. Len(run.results) : run.results[i].task # t
  BY <1>2, <1>5 DEF HandsOK
<1>11. HandsOK(hands, results, run.next)
  <2>1. \A v \in Workers : hands[v] = {} \/ \E m \in 1 .. run.next - 1 : hands[v] = {m}
    BY <1>2, <1>4 DEF HandsOK
  <2>2. \A i \in 1 .. Len(results) : results[i].task \in 1 .. run.next - 1
    BY <1>2, <1>5, <1>6, <1>9 DEF HandsOK
  <2>3. \A v \in Workers : t \notin hands[v]
    BY <1>2, <1>4, <1>5 DEF HandsOK
  <2>4. \A i \in 1 .. Len(results) : \A v \in Workers : results[i].task \notin hands[v]
    BY <1>2, <1>4, <1>6, <1>9, <2>3 DEF HandsOK
  <2>5. \A u, v \in Workers : u # v => hands[u] \intersect hands[v] = {}
    BY <1>2, <1>4 DEF HandsOK
  <2>6. \A i, j \in 1 .. Len(results) : results[i].task = results[j].task => i = j
    BY <1>2, <1>6, <1>9, <1>10 DEF HandsOK
  <2> QED
    BY <1>4, <1>8, <2>1, <2>2, <2>4, <2>5, <2>6 DEF HandsOK
<1>12. TasksOK(run')
  <2>1. \A t2 : TaskOK(run, t2) <=> TaskOK(run', t2)
    BY <1>3 DEF TaskOK
  <2> QED
    BY <1>2, <1>3, <2>1 DEF TasksOK, TasksPlaced
<1>13. PlaceOK(run') /\ ScanOK(run') /\ HadOK(run')
  BY <1>0, <1>3 DEF RunOK, PlaceOK, ScanOK, Scanned, HadOK
<1>14. RunOK(run', corpus, clock)
  BY <1>0, <1>3, <1>11, <1>12, <1>13 DEF RunOK
<1> QED
  BY <1>0, <1>2, <1>3, <1>14 DEF DbOK

\* The element of a sequence at a place.
LEMMA InSeq ==
  ASSUME NEW T, NEW q \in Seq(T), NEW k \in DOMAIN q
  PROVE  q[k] \in T
OBVIOUS

WithEntities(files, f, k, e) == [files EXCEPT ![f].sections[k].entities = e]

\* One section of the cached files gets entities, and nothing else changes.
LEMMA OneSection ==
  ASSUME NEW files, NEW f \in DOMAIN files, files[f] \in FileRecords,
         NEW k \in DOMAIN files[f].sections, NEW e \in SUBSET Facts,
         NEW new, new = WithEntities(files, f, k, e)
  PROVE  /\ DOMAIN new = DOMAIN files /\ \A g \in DOMAIN files : g # f => new[g] = files[g]
         /\ new[f] \in FileRecords /\ new[f].mtime = files[f].mtime
         /\ DOMAIN new[f].sections = DOMAIN files[f].sections
         /\ \A j \in DOMAIN files[f].sections :
               /\ j # k => new[f].sections[j] = files[f].sections[j]
               /\ new[f].sections[j].title = files[f].sections[j].title
               /\ new[f].sections[j].at = files[f].sections[j].at
               /\ new[f].sections[j].text = files[f].sections[j].text
         /\ new[f].sections[k].entities = e
<1> DEFINE old == files[f].sections
<1> DEFINE all == [old EXCEPT ![k] = [old[k] EXCEPT !.entities = e]]
<1>1. old \in Seq(SectionRecords) /\ files[f].mtime \in Nat /\ DOMAIN files[f] = {"mtime", "sections"}
  BY DEF FileRecords
<1>2. DOMAIN new = DOMAIN files /\ \A g \in DOMAIN files : g # f => new[g] = files[g]
  BY DEF WithEntities
<1>3. new[f] = [files[f] EXCEPT !.sections = all]
  BY DEF WithEntities
<1>4. old[k] \in SectionRecords
  BY <1>1
<1>5. /\ [old[k] EXCEPT !.entities = e] \in SectionRecords
      /\ [old[k] EXCEPT !.entities = e].title = old[k].title /\ [old[k] EXCEPT !.entities = e].at = old[k].at
      /\ [old[k] EXCEPT !.entities = e].text = old[k].text /\ [old[k] EXCEPT !.entities = e].entities = e
  BY <1>4 DEF SectionRecords
<1>6. /\ DOMAIN all = DOMAIN old /\ all[k] = [old[k] EXCEPT !.entities = e]
      /\ \A j \in DOMAIN old : j # k => all[j] = old[j]
  OBVIOUS
<1>7. all \in Seq(SectionRecords)
  BY <1>1, <1>5
<1> HIDE DEF old, all
<1>8. new[f].sections = all /\ new[f].mtime = files[f].mtime
  BY <1>1, <1>3
<1>9. new[f] = [mtime |-> files[f].mtime, sections |-> all]
  <2>1. files[f] = [mtime |-> files[f].mtime, sections |-> files[f].sections]
    BY DEF FileRecords
  <2> QED
    BY <1>3, <2>1
<1>10. new[f] \in FileRecords
  BY <1>1, <1>7, <1>9 DEF FileRecords
<1>11. DOMAIN new[f].sections = DOMAIN files[f].sections /\ new[f].sections[k].entities = e
  BY <1>5, <1>6, <1>8 DEF old
<1>12. ASSUME NEW j \in DOMAIN files[f].sections
       PROVE  /\ j # k => new[f].sections[j] = files[f].sections[j]
              /\ new[f].sections[j].title = files[f].sections[j].title
              /\ new[f].sections[j].at = files[f].sections[j].at
              /\ new[f].sections[j].text = files[f].sections[j].text
  <2>1. new[f].sections[j] = all[j] /\ j \in DOMAIN old /\ files[f].sections[j] = old[j]
    BY <1>8 DEF old
  <2>2. CASE j = k
    BY <1>5, <1>6, <2>1, <2>2
  <2>3. CASE j # k
    BY <1>6, <2>1, <2>3
  <2> QED
    BY <2>2, <2>3
<1> QED
  BY <1>2, <1>8, <1>10, <1>11, <1>12

LEMMA CollectKeeps ==
  ASSUME IndexInv, NEW flush \in BOOLEAN, Collect(flush)
  PROVE  RunOK(run', corpus, clock) /\ DbOK(db', run', corpus, clock)
<1> DEFINE got == Head(run.results)
<1> DEFINE t == run.tasks[got.task]
<1> DEFINE files == run.cached_files
<1> DEFINE new == [files EXCEPT ![t.file].sections[t.k].entities = {Source(t)}]
<1> DEFINE rest == Tail(run.results)
<1>0. RunOK(run, corpus, clock) /\ DOMAIN run = RunFields /\ DbOK(db, run, corpus, clock)
  BY DEF IndexInv, RunOK
<1>1. run.pc = "extract" /\ run.results # <<>>
  BY DEF Collect
<1>2. HandsOK(run.hands, run.results, run.next) /\ TasksOK(run) /\ PlaceOK(run)
  BY <1>0 DEF RunOK
<1>3. \/ /\ run' = [run EXCEPT !.results = rest, !.cached_files = new,
                               !.pc = IF flush THEN "bm25" ELSE run.pc, !.back = "extract"]
         /\ db' = [db EXCEPT !.state = [State EXCEPT !.cached_files = new]]
      \/ run' = [run EXCEPT !.results = rest] /\ db' = db
  <2>1. CASE got.ok
    <3>1. /\ run' = [run EXCEPT !.results = rest, !.cached_files[t.file].sections[t.k].entities = {Source(t)},
                                !.pc = IF flush THEN "bm25" ELSE @, !.back = "extract"]
          /\ db' = [db EXCEPT !.state = [State EXCEPT !.cached_files = run'.cached_files]]
      BY <2>1 DEF Collect
    <3>2. run' = [run EXCEPT !.results = rest, !.cached_files = new,
                             !.pc = IF flush THEN "bm25" ELSE run.pc, !.back = "extract"]
      BY <3>1
    <3> HIDE DEF new, rest
    <3>3. run'.cached_files = new
      BY <1>0, <3>2 DEF RunFields
    <3> QED
      BY <3>1, <3>2, <3>3
  <2>2. CASE ~got.ok
    <3>1. run' = [run EXCEPT !.results = Tail(@)] /\ db' = db
      BY <2>2 DEF Collect
    <3> QED
      BY <3>1
  <2> QED
    BY <2>1, <2>2
<1>4. run.results \in Seq(ResultRecords) /\ Len(run.results) \in Nat /\ 1 \in 1 .. Len(run.results)
      /\ got = run.results[1]
  BY <1>1, <1>2 DEF HandsOK
<1>5. /\ rest \in Seq(ResultRecords) /\ Len(rest) = Len(run.results) - 1
      /\ \A i \in 1 .. Len(rest) : i + 1 \in 1 .. Len(run.results) /\ rest[i] = run.results[i + 1]
  <2>1. rest \in Seq(ResultRecords) /\ Len(rest) = Len(run.results) - 1
    BY <1>1, <1>4
  <2>2. \A i \in 1 .. Len(rest) : i + 1 \in 1 .. Len(run.results) /\ rest[i] = run.results[i + 1]
    BY <1>1, <1>4, <2>1
  <2> QED
    BY <2>1, <2>2
<1>6. got.task \in 1 .. Len(run.tasks)
  <2>1. got.task \in 1 .. run.next - 1
    BY <1>2, <1>4 DEF HandsOK
  <2>2. run.next \in Nat /\ run.next <= Len(run.tasks) + 1 /\ Len(run.tasks) \in Nat
    BY <1>2 DEF TasksOK
  <2> QED
    BY <2>1, <2>2
<1>7. TaskOK(run, t)
  BY <1>2, <1>6 DEF TasksOK
<1>8. t.file \in DOMAIN files /\ t.k \in DOMAIN files[t.file].sections
  BY <1>7 DEF TaskOK
<1>9. \A g \in DOMAIN files : g \in Files /\ FileOK(g, files[g], corpus, clock)
  BY <1>0 DEF RunOK, FilesOK
<1> DEFINE f == t.file
<1> DEFINE sec == files[f].sections[t.k]
<1> DEFINE facts == {Source(t)}
<1>10. facts \in SUBSET Facts /\ \A e \in facts : e[1] = f /\ e[2] = sec.title /\ e[3] = sec.at
  <2>1. files[f] \in FileRecords
    BY <1>8, <1>9 DEF FileOK
  <2>2. files[f].sections \in Seq(SectionRecords)
    BY <2>1 DEF FileRecords
  <2>3. sec \in SectionRecords
    <3> HIDE DEF files, t
    <3> QED
      BY <1>8, <2>2, InSeq
  <2>4. sec.title \in STRING /\ sec.at \in Nat /\ sec.text \in STRING /\ f \in Files
    BY <1>8, <1>9, <2>3 DEF SectionRecords
  <2>5. Source(t) = <<f, sec.title, sec.at, sec.text>>
    BY DEF Source
  <2> HIDE DEF sec, f
  <2> QED
    BY <2>4, <2>5 DEF Facts
<1>11. new = WithEntities(files, f, t.k, facts)
  BY DEF WithEntities
<1>12. f \in DOMAIN files /\ files[f] \in FileRecords /\ t.k \in DOMAIN files[f].sections
  BY <1>8, <1>9 DEF FileOK
<1> HIDE DEF facts, new, files, t, got, rest
<1>13. /\ DOMAIN new = DOMAIN files /\ \A g \in DOMAIN files : g # f => new[g] = files[g]
       /\ new[f] \in FileRecords /\ new[f].mtime = files[f].mtime
       /\ DOMAIN new[f].sections = DOMAIN files[f].sections
       /\ \A j \in DOMAIN files[f].sections :
             /\ j # t.k => new[f].sections[j] = files[f].sections[j]
             /\ new[f].sections[j].title = files[f].sections[j].title
             /\ new[f].sections[j].at = files[f].sections[j].at
             /\ new[f].sections[j].text = files[f].sections[j].text
       /\ new[f].sections[t.k].entities = facts
  <2>1. facts \in SUBSET Facts
    BY <1>10
  <2> HIDE DEF f
  <2> QED
    BY <1>11, <1>12, <2>1, OneSection
<1>14. facts # {}
  BY DEF facts
<1>15. FileOK(f, new[f], corpus, clock)
  <2>0. FileOK(f, files[f], corpus, clock)
    BY <1>9, <1>12
  <2>1. \A j, k \in DOMAIN new[f].sections :
           new[f].sections[j].title = new[f].sections[k].title /\ new[f].sections[j].at = new[f].sections[k].at => j = k
    BY <1>13, <2>0 DEF FileOK
  <2>2. \A k \in DOMAIN new[f].sections : \A e \in new[f].sections[k].entities :
           e[1] = f /\ e[2] = new[f].sections[k].title /\ e[3] = new[f].sections[k].at
    <3> TAKE k \in DOMAIN new[f].sections
    <3>1. CASE k = t.k
      BY <1>10, <1>13, <3>1
    <3>2. CASE k # t.k
      BY <1>13, <2>0, <3>2 DEF FileOK
    <3> QED
      BY <3>1, <3>2
  <2>3. TextsOf(new[f].sections) = TextsOf(files[f].sections)
    BY <1>13 DEF TextsOf
  <2>4. new[f].mtime <= clock /\ (f \in DOMAIN corpus => new[f].mtime <= corpus[f].mtime)
    BY <1>13, <2>0 DEF FileOK
  <2> QED
    BY <1>13, <2>0, <2>1, <2>2, <2>3, <2>4 DEF FileOK
<1>16. FilesOK(new, corpus, clock)
  BY <1>9, <1>13, <1>15 DEF FilesOK
<1>17. HandsOK(run.hands, rest, run.next)
  <2>0. HandsOK(run.hands, run.results, run.next)
    BY <1>2
  <2>1. \A i \in 1 .. Len(rest) : rest[i].task \in 1 .. run.next - 1
    BY <1>5, <2>0 DEF HandsOK
  <2>2. \A i \in 1 .. Len(rest) : \A w \in Workers : rest[i].task \notin run.hands[w]
    BY <1>5, <2>0 DEF HandsOK
  <2>3. ASSUME NEW i \in 1 .. Len(rest), NEW j \in 1 .. Len(rest), rest[i].task = rest[j].task
        PROVE  i = j
    <3>1. i + 1 = j + 1
      BY <1>5, <2>0, <2>3 DEF HandsOK
    <3> QED
      BY <1>4, <1>5, <3>1
  <2> QED
    BY <1>5, <2>0, <2>1, <2>2, <2>3 DEF HandsOK
<1>18. run.outcome # "done" /\ DOMAIN db = {"state", "bm25", "others"} /\ DOMAIN db.others = {"spelling", "graph"}
       /\ Scanned(run)
  BY <1>0, <1>1, <1>2 DEF PlaceOK, DbOK, Scanned
<1>19. CASE /\ run' = [run EXCEPT !.results = rest, !.cached_files = new,
                                  !.pc = IF flush THEN "bm25" ELSE run.pc, !.back = "extract"]
            /\ db' = [db EXCEPT !.state = [State EXCEPT !.cached_files = new]]
  <2>1. /\ DOMAIN run' = RunFields /\ run'.force = run.force /\ run'.todo = run.todo /\ run'.seen = run.seen
        /\ run'.cached_files = new /\ run'.pc \in {"bm25", "extract"} /\ run'.back = "extract"
        /\ run'.had = run.had /\ run'.tasks = run.tasks /\ run'.next = run.next /\ run'.hands = run.hands
        /\ run'.results = rest /\ run'.outcome = run.outcome
    BY <1>0, <1>1, <1>19 DEF RunFields
  <2>2. PlaceOK(run')
    BY <1>18, <2>1 DEF PlaceOK
  <2>3. ScanOK(run')
    BY <1>0, <1>13, <1>18, <2>1 DEF RunOK, ScanOK, files
  <2>4. HadOK(run')
    <3>1. ASSUME ~run.force, NEW g \in DOMAIN new, NEW k \in DOMAIN new[g].sections,
                 Named(g, new[g].sections[k]) \in run.had
          PROVE  IsDone(new[g].sections[k])
      <4>1. CASE g = f /\ k = t.k
        BY <1>13, <1>14, <4>1 DEF IsDone
      <4>2. CASE g # f
        BY <1>0, <1>13, <3>1, <4>2 DEF RunOK, HadOK, files
      <4>3. CASE g = f /\ k # t.k
        <5>1. k \in DOMAIN files[f].sections /\ new[f].sections[k] = files[f].sections[k]
          BY <1>13, <4>3
        <5> QED
          BY <1>0, <1>12, <3>1, <4>3, <5>1 DEF RunOK, HadOK, files
      <4> QED
        BY <4>1, <4>2, <4>3
    <3>2. 1 .. Len(run.todo) = {}
      BY <1>0, <1>18 DEF RunOK, ScanOK
    <3> QED
      BY <2>1, <3>1, <3>2 DEF HadOK
  <2>5. ASSUME NEW u, TaskOK(run, u)
        PROVE  TaskOK(run', u)
    <3>1. u.file \in DOMAIN files /\ u.k \in DOMAIN files[u.file].sections
          /\ (~run.force => Named(u.file, files[u.file].sections[u.k]) \notin run.had)
      BY <2>5 DEF TaskOK, files
    <3>2. u.file \in DOMAIN new /\ u.k \in DOMAIN new[u.file].sections
          /\ Named(u.file, new[u.file].sections[u.k]) = Named(u.file, files[u.file].sections[u.k])
      <4>1. CASE u.file = f
        BY <1>13, <3>1, <4>1 DEF Named
      <4>2. CASE u.file # f
        BY <1>13, <3>1, <4>2
      <4> QED
        BY <4>1, <4>2
    <3> QED
      BY <2>1, <3>1, <3>2 DEF TaskOK
  <2>6. TasksOK(run')
    BY <1>2, <2>1, <2>5 DEF TasksOK, TasksPlaced
  <2>7. RunOK(run', corpus, clock)
    BY <1>0, <1>16, <1>17, <2>1, <2>2, <2>3, <2>4, <2>6 DEF RunOK
  <2>8. db'.state.cached_files = new /\ DOMAIN db' = DOMAIN db /\ db'.others = db.others
    BY <1>18, <1>19 DEF State
  <2> QED
    BY <1>16, <1>18, <2>1, <2>7, <2>8 DEF DbOK
<1>20. CASE run' = [run EXCEPT !.results = rest] /\ db' = db
  <2>1. /\ DOMAIN run' = RunFields /\ run'.force = run.force /\ run'.todo = run.todo /\ run'.seen = run.seen
        /\ run'.cached_files = run.cached_files /\ run'.pc = run.pc /\ run'.back = run.back
        /\ run'.had = run.had /\ run'.tasks = run.tasks /\ run'.next = run.next /\ run'.hands = run.hands
        /\ run'.results = rest /\ run'.outcome = run.outcome
    BY <1>0, <1>20 DEF RunFields
  <2>2. PlaceOK(run') /\ ScanOK(run') /\ HadOK(run')
    BY <1>0, <2>1 DEF RunOK, PlaceOK, ScanOK, Scanned, HadOK
  <2>3. TasksOK(run')
    <3>1. \A u : TaskOK(run, u) <=> TaskOK(run', u)
      BY <2>1 DEF TaskOK
    <3> QED
      BY <1>2, <2>1, <3>1 DEF TasksOK, TasksPlaced
  <2>4. RunOK(run', corpus, clock)
    BY <1>0, <1>17, <2>1, <2>2, <2>3 DEF RunOK
  <2> QED
    BY <1>0, <1>20, <2>1, <2>4 DEF DbOK
<1> QED
  BY <1>3, <1>19, <1>20 DEF files


-----------------------------------------------------------------------------
(* The bounds and the semantic store                                        *)

Counters == {"edits", "runs", "faults", "crashes", "flushes", "expiries", "searches", "streams",
             "commands", "slips"}

LEMMA BoundedKeeps ==
  ASSUME JobInv, NEW what \in Counters, Bounded(what)
  PROVE  /\ JobInv' /\ job'.store_keeps = job.store_keeps
         /\ \A c \in Counters : job'[c] = IF c = what THEN job[c] - 1 ELSE job[c]
         /\ \A c \in Counters : job[c] \in Nat
         /\ job[what] > 0
<1>1. job[what] > 0 /\ job' = [job EXCEPT ![what] = @ - 1]
  BY DEF Bounded
<1>2. /\ DOMAIN job = Counters \union {"semantic", "entities", "store_keeps"}
      /\ \A c \in Counters : job[c] \in Nat
      /\ job.semantic \in BOOLEAN /\ job.entities \in BOOLEAN /\ job.store_keeps \in BOOLEAN
  BY DEF JobInv, SearchJobs, Counters
<1>3. "semantic" \notin Counters /\ "entities" \notin Counters /\ "store_keeps" \notin Counters
      /\ "expiries" \in Counters
  BY DEF Counters
<1> HIDE DEF Counters
<1>4. job[what] - 1 \in Nat
  BY <1>1, <1>2
<1>5. /\ DOMAIN job' = DOMAIN job /\ \A c \in Counters : job'[c] = IF c = what THEN job[c] - 1 ELSE job[c]
      /\ job'.semantic = job.semantic /\ job'.entities = job.entities /\ job'.store_keeps = job.store_keeps
  BY <1>1, <1>2, <1>3
<1>6. \A c \in Counters : job'[c] \in Nat
  BY <1>2, <1>4, <1>5
<1>7. job' \in SearchJobs
  <2>1. /\ job' = [c \in DOMAIN job' |-> job'[c]] 
        /\ DOMAIN job' = {"edits", "runs", "faults", "crashes", "flushes", "expiries", "searches", "streams",
                          "commands", "slips", "semantic", "entities", "store_keeps"}
    BY <1>1, <1>2, <1>5 DEF Counters
  <2>2. /\ job'.edits \in Nat /\ job'.runs \in Nat /\ job'.faults \in Nat /\ job'.crashes \in Nat
        /\ job'.flushes \in Nat /\ job'.expiries \in Nat /\ job'.searches \in Nat /\ job'.streams \in Nat
        /\ job'.commands \in Nat /\ job'.slips \in Nat
    BY <1>6 DEF Counters
  <2>3. job'.semantic \in BOOLEAN /\ job'.entities \in BOOLEAN /\ job'.store_keeps \in BOOLEAN
    BY <1>2, <1>5
  <2> QED
    BY <2>1, <2>2, <2>3 DEF SearchJobs
<1>8. job'.store_keeps => job'.expiries = 0
  <2>1. job.store_keeps => job.expiries = 0
    BY DEF JobInv
  <2>2. job.store_keeps => what # "expiries"
    BY <1>1, <2>1
  <2> QED
    BY <1>3, <1>5, <2>1, <2>2
<1> QED
  BY <1>1, <1>2, <1>5, <1>7, <1>8 DEF JobInv

\* A step takes nothing from the bounds, or one of them.
Spends == UNCHANGED job \/ \E what \in Counters : Bounded(what)

LEMMA SpendsKeeps ==
  ASSUME JobInv, Spends
  PROVE  JobInv' /\ job'.store_keeps = job.store_keeps
<1>1. CASE UNCHANGED job
  BY <1>1 DEF JobInv
<1>2. CASE \E what \in Counters : Bounded(what)
  BY <1>2, BoundedKeeps
<1> QED
  BY <1>1, <1>2 DEF Spends

LEMMA StoreIs ==
  ASSUME NEW id, NEW hashes, Store(id, hashes)
  PROVE  /\ DOMAIN sessions' = DOMAIN sessions \union {id} /\ hashes \subseteq sessions'[id]
         /\ \A s \in DOMAIN sessions : sessions[s] \subseteq sessions'[s]
<1>1. sessions' = [s \in DOMAIN sessions \union {id} |->
                      IF s = id THEN hashes \union (IF id \in DOMAIN sessions THEN sessions[id] ELSE {})
                      ELSE sessions[s]]
  BY DEF Store
<1> QED
  BY <1>1

LEMMA EnsureKeeps ==
  ASSUME RecordsOK(cached, sessions), JobInv, RecordsAreTrue, NEW hashes, NEW fp, NEW got,
         got = {} \/ \E id \in 1 .. LastSession : got = {id}, Ensure(hashes, fp, got)
  PROVE  RecordsOK(cached', sessions') /\ Spends /\ RecordsAreTrue'
<1>0. "faults" \in Counters
  BY DEF Counters
<1>1. CASE UNCHANGED <<job, sessions, cached>>
  BY <1>1 DEF RecordsOK, Spends, RecordsAreTrue
<1>2. CASE \E old \in cached : old.fp # fp /\ TopUp(old, hashes, fp, got)
  <2>1. PICK old \in cached : TopUp(old, hashes, fp, got)
    BY <1>2
  <2>2. cached = {old} /\ old.id \in DOMAIN sessions /\ old.id \in 1 .. LastSession
    BY DEF RecordsOK
  <2>3. CASE UNCHANGED job /\ Store(old.id, hashes \ old.hashes)
             /\ cached' = {[old EXCEPT !.fp = fp, !.hashes = @ \union (hashes \ old.hashes)]}
    <3> DEFINE new == [old EXCEPT !.fp = fp, !.hashes = @ \union (hashes \ old.hashes)]
    <3>1. new.id = old.id
      OBVIOUS
    <3>2. new.hashes \subseteq old.hashes \union (hashes \ old.hashes)
      OBVIOUS
    <3> HIDE DEF new
    <3>3. /\ DOMAIN sessions' = DOMAIN sessions \union {old.id} /\ hashes \ old.hashes \subseteq sessions'[old.id]
          /\ \A s \in DOMAIN sessions : sessions[s] \subseteq sessions'[s]
      BY <2>3, StoreIs
    <3>4. cached' = {new}
      BY <2>3 DEF new
    <3>5. RecordsOK(cached', sessions')
      BY <2>2, <3>1, <3>3, <3>4 DEF RecordsOK
    <3>6. job.store_keeps => old.hashes \subseteq sessions[old.id]
      BY DEF RecordsAreTrue
    <3>7. job.store_keeps => new.hashes \subseteq sessions'[new.id]
      BY <2>2, <3>1, <3>2, <3>3, <3>6
    <3>8. RecordsAreTrue'
      BY <2>3, <3>4, <3>7 DEF RecordsAreTrue
    <3> QED
      BY <2>3, <3>5, <3>8 DEF Spends
  <2>4. CASE Bounded("faults") /\ cached' = {} /\ \E some \in SUBSET (hashes \ old.hashes) : Store(old.id, some)
    <3>1. DOMAIN sessions' = DOMAIN sessions \union {old.id}
      BY <2>4, StoreIs
    <3> QED
      BY <1>0, <2>2, <2>4, <3>1 DEF RecordsOK, Spends, RecordsAreTrue
  <2> QED
    BY <2>1, <2>3, <2>4 DEF TopUp
<1>3. CASE cached = {} /\ Ingest(hashes, fp, got)
  <2>1. PICK id \in (1 .. LastSession) \ DOMAIN sessions :
           \/ Store(id, hashes) /\ cached' = {[id |-> id, fp |-> fp, hashes |-> hashes]} /\ UNCHANGED job
           \/ Bounded("faults") /\ cached' = {} /\ Store(id, {})
    BY <1>3 DEF Ingest
  <2>2. CASE Store(id, hashes) /\ cached' = {[id |-> id, fp |-> fp, hashes |-> hashes]} /\ UNCHANGED job
    <3>1. DOMAIN sessions' = DOMAIN sessions \union {id} /\ hashes \subseteq sessions'[id]
      BY <2>2, StoreIs
    <3> DEFINE new == [id |-> id, fp |-> fp, hashes |-> hashes]
    <3>2. new.id = id /\ new.hashes = hashes /\ cached' = {new}
      BY <2>2
    <3> HIDE DEF new
    <3>3. RecordsOK(cached', sessions')
      BY <3>1, <3>2 DEF RecordsOK
    <3>4. RecordsAreTrue'
      BY <3>1, <3>2 DEF RecordsAreTrue
    <3> QED
      BY <2>2, <3>3, <3>4 DEF Spends
  <2>3. CASE Bounded("faults") /\ cached' = {} /\ Store(id, {})
    <3>1. DOMAIN sessions' = DOMAIN sessions \union {id}
      BY <2>3, StoreIs
    <3> QED
      BY <1>0, <2>3, <3>1 DEF RecordsOK, Spends, RecordsAreTrue
  <2> QED
    BY <2>1, <2>2, <2>3
<1> QED
  BY <1>1, <1>2, <1>3 DEF Ensure

LEMMA ExpireKeeps ==
  ASSUME RecordsOK(cached, sessions), JobInv, RecordsAreTrue, NEW id \in 1 .. LastSession, Expire(id)
  PROVE  RecordsOK(cached', sessions') /\ Spends /\ RecordsAreTrue'
<1>1. Bounded("expiries") /\ "expiries" \in Counters /\ cached' = cached /\ DOMAIN sessions' = DOMAIN sessions
  BY DEF Expire, Counters
<1>2. job'.store_keeps = job.store_keeps /\ job.expiries > 0 /\ job.expiries \in Nat
  BY <1>1, BoundedKeeps
<1>3. ~job.store_keeps
  BY <1>2 DEF JobInv
<1> QED
  BY <1>1, <1>2, <1>3 DEF RecordsOK, Spends, RecordsAreTrue

-----------------------------------------------------------------------------
(* The ledger and its operator                                              *)

LEMMA ApplyKeeps ==
  ASSUME NEW l, LedgerOK(l), NEW verb, NEW h
  PROVE  LedgerOK(Apply(l, verb, h))
<1>1. l = [forgotten |-> l.forgotten, sealed |-> l.sealed] /\ l.forgotten \intersect l.sealed = {}
  BY DEF LedgerOK
<1>2. LedgerOK(Forget(l, h))
  BY <1>1 DEF LedgerOK, Forget
<1>3. LedgerOK(Restore(l, h))
  BY <1>1 DEF LedgerOK, Restore
<1>4. LedgerOK(Seal(l, h))
  <2>1. CASE h \in l.forgotten
    BY <2>1 DEF Seal
  <2>2. CASE h \notin l.forgotten
    <3> DEFINE m == [l EXCEPT !.sealed = @ \union {h}]
    <3>1. m = [forgotten |-> l.forgotten, sealed |-> l.sealed \union {h}]
      BY <1>1
    <3> HIDE DEF m
    <3>2. LedgerOK(m)
      BY <1>1, <2>2, <3>1 DEF LedgerOK
    <3> QED
      BY <2>2, <3>2 DEF Seal, m
  <2> QED
    BY <2>1, <2>2
<1> QED
  BY <1>2, <1>3, <1>4 DEF Apply

LEMMA ApplyIs ==
  ASSUME NEW l, LedgerOK(l), NEW h
  PROVE  /\ Apply(l, "forget", h) = Forget(l, h) /\ Apply(l, "seal", h) = Seal(l, h)
         /\ Apply(l, "restore", h) = Restore(l, h)
         /\ Seal(l, h).forgotten = l.forgotten
         /\ h \notin l.forgotten => Seal(l, h).sealed = l.sealed \union {h}
         /\ h \in l.forgotten => Seal(l, h).sealed = l.sealed
<1>1. l = [forgotten |-> l.forgotten, sealed |-> l.sealed]
  BY DEF LedgerOK
<1>2. Seal(l, h).forgotten = l.forgotten /\ (h \in l.forgotten => Seal(l, h).sealed = l.sealed)
  BY <1>1 DEF Seal
<1>3. h \notin l.forgotten => Seal(l, h).sealed = l.sealed \union {h}
  BY <1>1 DEF Seal
<1> QED
  BY <1>2, <1>3 DEF Apply


-----------------------------------------------------------------------------
(* The steps                                                                *)

\* An index step that leaves the corpus, the sessions and their record alone.
LEMMA RunStepOf ==
  ASSUME IndexInv, JobInv, RecordsOK(cached, sessions), RecordsAreTrue,
         RunOK(run', corpus, clock), DbOK(db', run', corpus, clock), Spends,
         UNCHANGED <<corpus, clock, sessions, cached>>
  PROVE  IndexInv' /\ RecordsOK(cached', sessions') /\ RecordsAreTrue'
<1>1. job'.store_keeps = job.store_keeps
  BY SpendsKeeps
<1> QED
  BY <1>1 DEF IndexInv, RecordsAreTrue

\* One that leaves the index alone.
LEMMA StoreStepOf ==
  ASSUME IndexInv, JobInv, UNCHANGED <<corpus, clock, db, run>>
  PROVE  IndexInv'
BY DEF IndexInv

LEMMA IndexSpends ==
  ASSUME \/ \E f \in Files, c \in Contents : Edit(f, c)
         \/ \E f \in Files : Delete(f)
         \/ Outlived
         \/ \E force \in BOOLEAN, verb \in {"init", "update"} : Start(force, verb)
         \/ \E flush \in BOOLEAN : IndexFile(flush)
         \/ IndexFileFails \/ DropDeleted \/ Flush \/ SaveEarlyState
         \/ \E flush \in BOOLEAN : Collect(flush)
         \/ Extraction \/ SaveState \/ Crash
         \/ \E w \in Workers : Take(w)
         \/ \E w \in Workers, ok \in BOOLEAN : Extract(w, ok)
  PROVE  Spends
<1> USE DEF Spends
<1>0. {"edits", "runs", "faults", "crashes", "flushes", "expiries"} \subseteq Counters
  BY DEF Counters
<1>1. ASSUME NEW f, NEW c, Edit(f, c) PROVE Spends
  BY <1>0, <1>1 DEF Edit
<1>2. ASSUME NEW f, Delete(f) PROVE Spends
  BY <1>0, <1>2 DEF Delete
<1>3. CASE Outlived
  BY <1>0, <1>3 DEF Outlived
<1>4. ASSUME NEW force, NEW verb, Start(force, verb) PROVE Spends
  BY <1>0, <1>4 DEF Start
<1>5. ASSUME NEW flush \in BOOLEAN, IndexFile(flush) PROVE Spends
  BY <1>0, <1>5 DEF IndexFile
<1>6. CASE IndexFileFails
  BY <1>0, <1>6 DEF IndexFileFails
<1>7. CASE DropDeleted \/ Flush \/ SaveEarlyState \/ Extraction \/ SaveState
  BY <1>7 DEF DropDeleted, Flush, SaveEarlyState, Extraction, SaveState
<1>8. ASSUME NEW flush \in BOOLEAN, Collect(flush) PROVE Spends
  BY <1>0, <1>8 DEF Collect
<1>9. CASE Crash
  BY <1>0, <1>9 DEF Crash
<1>10. ASSUME NEW w, Take(w) PROVE Spends
  BY <1>10 DEF Take
<1>11. ASSUME NEW w, NEW ok \in BOOLEAN, Extract(w, ok) PROVE Spends
  BY <1>0, <1>11 DEF Extract
<1> QED
  BY <1>1, <1>2, <1>3, <1>4, <1>5, <1>6, <1>7, <1>8, <1>9, <1>10, <1>11

LEMMA IndexStepKeeps ==
  ASSUME IndexInv, JobInv, RecordsOK(cached, sessions), RecordsAreTrue, IndexNext
  PROVE  IndexInv' /\ RecordsOK(cached', sessions') /\ RecordsAreTrue' /\ Spends
<1> DEFINE Goal == IndexInv' /\ RecordsOK(cached', sessions') /\ RecordsAreTrue' /\ Spends
<1> SUFFICES Goal
  OBVIOUS
<1>1. ASSUME NEW f \in Files, NEW c \in Contents, Edit(f, c)
      PROVE  Goal
  <2>1. Spends /\ IndexInv' /\ UNCHANGED <<sessions, cached>>
    BY <1>1, IndexSpends, EditKeeps DEF Edit
  <2>2. job'.store_keeps = job.store_keeps
    BY <2>1, SpendsKeeps
  <2> QED
    BY <2>1, <2>2 DEF RecordsAreTrue
<1>2. ASSUME NEW f \in Files, Delete(f)
      PROVE  Goal
  <2>1. Spends /\ IndexInv' /\ UNCHANGED <<sessions, cached>>
    BY <1>2, IndexSpends, DeleteKeeps DEF Delete
  <2>2. job'.store_keeps = job.store_keeps
    BY <2>1, SpendsKeeps
  <2> QED
    BY <2>1, <2>2 DEF RecordsAreTrue
<1>3. ASSUME NEW id \in 1 .. LastSession, Expire(id)
      PROVE  Goal
  <2>1. IndexInv'
    BY <1>3, StoreStepOf DEF Expire
  <2> QED
    BY <1>3, <2>1, ExpireKeeps
<1>4. CASE Outlived
  <2>1. Spends /\ IndexInv' /\ UNCHANGED sessions /\ cached' = {}
    BY <1>4, IndexSpends, StoreStepOf DEF Outlived
  <2> QED
    BY <2>1 DEF RecordsAreTrue, RecordsOK
<1>5. ASSUME NEW force \in BOOLEAN, NEW verb \in {"init", "update"}, Start(force, verb)
      PROVE  Goal
  <2>1. Spends /\ UNCHANGED <<corpus, clock, sessions, cached>>
    BY <1>5, IndexSpends DEF Start
  <2> QED
    BY <1>5, <2>1, StartKeeps, RunStepOf
<1>6. ASSUME NEW flush \in BOOLEAN, IndexFile(flush)
      PROVE  Goal
  <2>1. Spends /\ UNCHANGED <<corpus, clock, sessions, cached>>
    BY <1>6, IndexSpends DEF IndexFile
  <2> QED
    BY <1>6, <2>1, IndexFileKeeps, RunStepOf
<1>7. CASE IndexFileFails
  <2>1. Spends /\ UNCHANGED <<corpus, clock, sessions, cached>>
    BY <1>7, IndexSpends DEF IndexFileFails
  <2> QED
    BY <1>7, <2>1, FailsKeepsIndex, RunStepOf
<1>8. CASE DropDeleted
  <2>1. Spends /\ UNCHANGED <<corpus, clock, sessions, cached>>
    BY <1>8, IndexSpends DEF DropDeleted
  <2> QED
    BY <1>8, <2>1, DropDeletedKeeps, RunStepOf
<1>9. CASE Embed
  <2>1. RunOK(run', corpus, clock) /\ DbOK(db', run', corpus, clock) /\ UNCHANGED <<corpus, clock>>
    BY <1>9, EmbedKeeps DEF Embed
  <2>2. IndexInv'
    BY <2>1 DEF IndexInv
  <2>3. PICK got \in {{}} \union {{id} : id \in 1 .. LastSession} :
           IF job.semantic THEN Ensure(Hashes(AllSections(run.cached_files)), Fingerprint, got)
           ELSE got = {} /\ UNCHANGED <<job, sessions, cached>>
    BY <1>9 DEF Embed
  <2>4. CASE Ensure(Hashes(AllSections(run.cached_files)), Fingerprint, got)
    <3>1. got = {} \/ \E id \in 1 .. LastSession : got = {id}
      OBVIOUS
    <3> DEFINE hashes == Hashes(AllSections(run.cached_files))
    <3> HIDE DEF hashes
    <3>2. Ensure(hashes, Fingerprint, got)
      BY <2>4 DEF hashes
    <3> QED
      BY <2>2, <3>1, <3>2, EnsureKeeps
  <2>5. CASE UNCHANGED <<job, sessions, cached>>
    BY <2>2, <2>5 DEF Spends, RecordsAreTrue
  <2> QED
    BY <2>3, <2>4, <2>5
<1>10. CASE Flush
  <2>1. Spends /\ UNCHANGED <<corpus, clock, sessions, cached>>
    BY <1>10, IndexSpends DEF Flush
  <2> QED
    BY <1>10, <2>1, FlushKeeps, RunStepOf
<1>11. CASE SaveEarlyState
  <2>1. Spends /\ UNCHANGED <<corpus, clock, sessions, cached>>
    BY <1>11, IndexSpends DEF SaveEarlyState
  <2> QED
    BY <1>11, <2>1, SaveEarlyStateKeeps, RunStepOf
<1>12. ASSUME NEW flush \in BOOLEAN, Collect(flush)
       PROVE  Goal
  <2>1. Spends /\ UNCHANGED <<corpus, clock, sessions, cached>>
    BY <1>12, IndexSpends DEF Collect
  <2> QED
    BY <1>12, <2>1, CollectKeeps, RunStepOf
<1>13. CASE Extraction
  <2>1. Spends /\ UNCHANGED <<corpus, clock, sessions, cached>>
    BY <1>13, IndexSpends DEF Extraction
  <2> QED
    BY <1>13, <2>1, ExtractionKeeps, RunStepOf
<1>14. CASE SaveState
  <2>1. Spends /\ UNCHANGED <<corpus, clock, sessions, cached>>
    BY <1>14, IndexSpends DEF SaveState
  <2> QED
    BY <1>14, <2>1, SaveStateKeeps, RunStepOf
<1>15. CASE Crash
  <2>1. Spends /\ UNCHANGED <<corpus, clock, sessions, cached>>
    BY <1>15, IndexSpends DEF Crash
  <2> QED
    BY <1>15, <2>1, CrashKeeps, RunStepOf
<1>16. ASSUME NEW w \in Workers, Take(w)
       PROVE  Goal
  <2>1. Spends /\ UNCHANGED <<corpus, clock, sessions, cached>>
    BY <1>16, IndexSpends DEF Take
  <2> QED
    BY <1>16, <2>1, TakeKeeps, RunStepOf
<1>17. ASSUME NEW w \in Workers, NEW ok \in BOOLEAN, Extract(w, ok)
       PROVE  Goal
  <2>1. Spends /\ UNCHANGED <<corpus, clock, sessions, cached>>
    BY <1>17, IndexSpends DEF Extract
  <2> QED
    BY <1>17, <2>1, ExtractKeeps, RunStepOf
<1> HIDE DEF Goal
<1>18. CASE RunStep
  BY <1>6, <1>7, <1>8, <1>9, <1>10, <1>11, <1>12, <1>13, <1>14, <1>18 DEF RunStep
<1> QED
  BY <1>1, <1>2, <1>3, <1>4, <1>5, <1>15, <1>16, <1>17, <1>18 DEF IndexNext

\* A search leaves the index, the ledger and the commands alone.
LEMMA SearchStepKeeps ==
  ASSUME SearchInv, SearchStep \/ (\E sealed \in BOOLEAN : SearchStarts(sealed)) \/ RetrieveUnion
  PROVE  /\ Spends /\ UNCHANGED <<corpus, clock, db, run, suppression, edit, gone, put_away>>
         /\ RecordsOK(cached', sessions') /\ RecordsAreTrue' /\ (queries' = {} \/ \E q : queries' = {q})
<1> DEFINE Goal == /\ Spends /\ UNCHANGED <<corpus, clock, db, run, suppression, edit, gone, put_away>>
                   /\ RecordsOK(cached', sessions') /\ RecordsAreTrue' /\ (queries' = {} \/ \E q : queries' = {q})
<1>0. /\ JobInv /\ RecordsOK(cached, sessions) /\ RecordsAreTrue /\ (queries = {} \/ \E q : queries = {q})
      /\ "searches" \in Counters /\ "streams" \in Counters
  BY DEF SearchInv, Counters
<1>1. ASSUME Spends, UNCHANGED <<index_vars, suppression, queries, edit, gone, put_away>>
      PROVE  Goal
  <2>1. job'.store_keeps = job.store_keeps
    BY <1>0, <1>1, SpendsKeeps
  <2> QED
    BY <1>0, <1>1, <2>1 DEF index_vars, RecordsAreTrue
<1>2. ASSUME NEW sealed \in BOOLEAN, SearchStarts(sealed)
      PROVE  Goal
  BY <1>0, <1>1, <1>2 DEF SearchStarts, Spends
<1>3. CASE RetrieveUnion
  BY <1>0, <1>1, <1>3 DEF RetrieveUnion, Spends
<1>4. CASE LookUp
  BY <1>1, <1>4 DEF LookUp, Spends
<1>5. CASE Blend
  BY <1>1, <1>5 DEF Blend, Spends
<1>6. CASE Lexical
  BY <1>1, <1>6 DEF Lexical, Spends
<1>7. CASE GetSession
  <2>1. PICK got \in {{}} \union {{id} : id \in 1 .. LastSession} : Ensure(Hashes(search.sections), search.fp, got)
    BY <1>7 DEF GetSession
  <2>2. got = {} \/ \E id \in 1 .. LastSession : got = {id}
    OBVIOUS
  <2>3. RecordsOK(cached', sessions') /\ Spends /\ RecordsAreTrue'
    <3> DEFINE hashes == Hashes(search.sections)
    <3> DEFINE fp == search.fp
    <3>1. Ensure(hashes, fp, got)
      BY <2>1
    <3> HIDE DEF hashes, fp
    <3> QED
      BY <1>0, <2>2, <3>1, EnsureKeeps
  <2> QED
    BY <1>0, <1>7, <2>3 DEF GetSession
<1>8. CASE AskStore
  <2>1. /\ UNCHANGED <<job, corpus, clock, db, run, sessions, torn, suppression, edit, gone, put_away>>
        /\ cached' = cached \/ cached' = {}
        /\ queries' = queries \/ \E q : queries' = {q}
    BY <1>8 DEF AskStore
  <2> QED
    BY <1>0, <2>1 DEF Spends, RecordsOK, RecordsAreTrue
<1> QED
  BY <1>2, <1>3, <1>4, <1>5, <1>6, <1>7, <1>8 DEF SearchStep

LEMMA OperatorStepKeeps ==
  ASSUME SearchInv, NEW o \in Operators,
         \/ \E verb \in {"forget", "seal", "restore"}, i \in DOMAIN db.bm25.sections :
               Command(o, verb, db.bm25.sections[i].hash)
         \/ Save(o) \/ SaveDies(o)
  PROVE  Spends /\ UNCHANGED <<index_vars, queries>> /\ LedgerInv'
<1>0. /\ LedgerInv /\ "commands" \in Counters /\ "slips" \in Counters
      /\ LedgerOK(suppression) /\ DOMAIN edit = Operators /\ \A p \in Operators : LedgerOK(edit[p].ledger)
  BY DEF SearchInv, Counters, LedgerInv
<1>1. ASSUME NEW verb, NEW hash, Command(o, verb, hash)
      PROVE  Spends /\ UNCHANGED <<index_vars, queries>> /\ LedgerInv'
  <2> DEFINE new == [pc |-> "save", verb |-> verb, hash |-> {hash}, ledger |-> Apply(suppression, verb, hash)]
  <2>1. edit' = [edit EXCEPT ![o] = new] /\ suppression' = suppression
    BY <1>1 DEF Command
  <2>2. LedgerOK(new.ledger)
    BY <1>0, ApplyKeeps
  <2> HIDE DEF new
  <2>3. LedgerInv'
    BY <1>0, <2>1, <2>2 DEF LedgerInv
  <2> QED
    BY <1>0, <1>1, <2>3 DEF Command, Spends
<1>2. CASE Save(o)
  <2>1. edit' = [edit EXCEPT ![o] = NoEdit] /\ suppression' = edit[o].ledger
    BY <1>2 DEF Save
  <2>2. LedgerOK(NoEdit.ledger) /\ LedgerOK(edit[o].ledger)
    BY <1>0 DEF NoEdit, NoLedger, LedgerOK
  <2>3. LedgerInv'
    BY <1>0, <2>1, <2>2 DEF LedgerInv
  <2> QED
    BY <1>2, <2>3 DEF Save, Spends
<1>3. CASE SaveDies(o)
  <2>1. edit' = [edit EXCEPT ![o] = NoEdit] /\ suppression' = NoLedger
    BY <1>3 DEF SaveDies
  <2>2. LedgerOK(NoEdit.ledger) /\ LedgerOK(NoLedger)
    BY DEF NoEdit, NoLedger, LedgerOK
  <2>3. LedgerInv'
    BY <1>0, <2>1, <2>2 DEF LedgerInv
  <2> QED
    BY <1>0, <1>3, <2>3 DEF SaveDies, Spends
<1> QED
  BY <1>1, <1>2, <1>3

LEMMA SearchKeeps ==
  ASSUME SearchInv, [Next]_vars
  PROVE  SearchInv' /\ Spends
<1>0. /\ IndexInv /\ JobInv /\ LedgerInv /\ RecordsOK(cached, sessions) /\ RecordsAreTrue
      /\ (queries = {} \/ \E q : queries = {q})
  BY DEF SearchInv
<1>1. CASE IndexNext /\ UNCHANGED query_vars
  <2>1. IndexInv' /\ RecordsOK(cached', sessions') /\ RecordsAreTrue' /\ Spends
    BY <1>0, <1>1, IndexStepKeeps
  <2>2. LedgerInv' /\ queries' = queries
    BY <1>0, <1>1 DEF query_vars, LedgerInv
  <2> QED
    BY <1>0, <2>1, <2>2, SpendsKeeps DEF SearchInv
<1>2. CASE SearchStep \/ (\E sealed \in BOOLEAN : SearchStarts(sealed)) \/ RetrieveUnion
  <2>1. /\ Spends /\ UNCHANGED <<corpus, clock, db, run, suppression, edit, gone, put_away>>
        /\ RecordsOK(cached', sessions') /\ RecordsAreTrue' /\ (queries' = {} \/ \E q : queries' = {q})
    BY <1>2, SearchStepKeeps
  <2>2. LedgerInv' /\ IndexInv'
    BY <1>0, <2>1, StoreStepOf DEF LedgerInv
  <2> QED
    BY <1>0, <2>1, <2>2, SpendsKeeps DEF SearchInv
<1>3. ASSUME NEW o \in Operators,
             \/ \E verb \in {"forget", "seal", "restore"}, i \in DOMAIN db.bm25.sections :
                   Command(o, verb, db.bm25.sections[i].hash)
             \/ Save(o) \/ SaveDies(o)
      PROVE  SearchInv' /\ Spends
  <2>1. Spends /\ UNCHANGED <<index_vars, queries>> /\ LedgerInv'
    BY <1>3, OperatorStepKeeps
  <2>2. JobInv' /\ job'.store_keeps = job.store_keeps
    BY <1>0, <2>1, SpendsKeeps
  <2>3. IndexInv'
    BY <1>0, <2>1, StoreStepOf DEF index_vars
  <2> QED
    BY <1>0, <2>1, <2>2, <2>3 DEF SearchInv, RecordsAreTrue, index_vars
<1>4. CASE UNCHANGED vars
  <2>1. UNCHANGED <<job, corpus, clock, db, run, sessions, cached, suppression, queries, edit>>
    BY <1>4 DEF vars, index_vars, query_vars
  <2> QED
    BY <1>0, <2>1, StoreStepOf DEF SearchInv, Spends, JobInv, LedgerInv, RecordsAreTrue
<1> QED
  BY <1>1, <1>2, <1>3, <1>4 DEF Next

LEMMA SearchBegins == Init => SearchInv
<1> SUFFICES ASSUME Init PROVE SearchInv
  OBVIOUS
<1>1. JobInv
  BY SearchAssumption DEF Init, JobInv
<1>2. \E c \in Contents : corpus = [f \in Files |-> [content |-> c, mtime |-> 1, hidden |-> FALSE]] /\ clock = 1
  <2>1. (CHOOSE c \in Contents : IsText(c)) \in Contents
    BY SearchAssumption
  <2> QED
    BY <2>1 DEF Init, IndexInit
<1>3. CorpusOK(corpus, clock)
  BY <1>2 DEF CorpusOK
<1>4. run = Idle /\ db = NoIndex
  BY DEF Init, IndexInit
<1>5. RunOK(run, corpus, clock)
  BY <1>4, IdleIs, RestingRun
<1>6. DbOK(db, run, corpus, clock)
  <2>1. FilesOK(db.state.cached_files, corpus, clock)
    BY <1>4 DEF FilesOK, NoIndex, NoState, Empty
  <2>2. DOMAIN db = {"state", "bm25", "others"} /\ DOMAIN db.others = {"spelling", "graph"}
    BY <1>4 DEF NoIndex
  <2>3. run.pc = "idle" /\ run.outcome = "none"
    BY <1>4, IdleIs
  <2> QED
    BY <2>1, <2>2, <2>3 DEF DbOK
<1>7. RecordsOK(cached, sessions) /\ RecordsAreTrue /\ queries = {}
  BY DEF Init, IndexInit, RecordsOK, RecordsAreTrue, Empty
<1>8. LedgerInv
  BY DEF Init, LedgerInv, LedgerOK, NoEdit, NoLedger
<1> QED
  BY <1>1, <1>3, <1>5, <1>6, <1>7, <1>8 DEF SearchInv, IndexInv

LEMMA SearchIsTrue == SearchInv => IndexIsTrue
<1> SUFFICES ASSUME SearchInv PROVE IndexIsTrue
  OBVIOUS
<1>0. /\ RunOK(run, corpus, clock) /\ DbOK(db, run, corpus, clock) /\ LedgerInv /\ RecordsOK(cached, sessions)
      /\ RecordsAreTrue /\ (queries = {} \/ \E q : queries = {q})
  BY DEF SearchInv, IndexInv
<1>1. /\ run.tasks \in Seq(TaskRecords) /\ Len(run.tasks) \in Nat /\ DOMAIN run.tasks = 1 .. Len(run.tasks)
      /\ run.next \in Nat /\ run.next >= 1 /\ run.next <= Len(run.tasks) + 1
      /\ \A i \in 1 .. Len(run.tasks) : TaskOK(run, run.tasks[i])
  BY <1>0 DEF RunOK, TasksOK
<1>2. HandsOK(run.hands, run.results, run.next)
  BY <1>0 DEF RunOK
<1>3. 1 .. run.next - 1 \subseteq DOMAIN run.tasks
  BY <1>1
<1>4. run.results \in Seq(ResultRecords) /\ DOMAIN run.results = 1 .. Len(run.results)
  BY <1>2 DEF HandsOK
<1>5. SearchTypeOK
  <2>1. /\ run.pc \in {"idle", "scan", "session", "bm25", "spelling", "graph", "state", "extract", "end"}
        /\ run.back \in {"idle", "scan", "state", "extract", "end"}
    BY <1>0 DEF RunOK, PlaceOK
  <2>2. run.next \in 1 .. (Len(run.tasks) + 1)
    BY <1>1
  <2>3. ASSUME NEW w \in Workers
        PROVE  run.hands[w] \subseteq DOMAIN run.tasks /\ Cardinality(run.hands[w]) <= 1
    <3>1. CASE run.hands[w] = {}
      BY <3>1, FS_EmptySet
    <3>2. ASSUME NEW n \in 1 .. run.next - 1, run.hands[w] = {n}
          PROVE  run.hands[w] \subseteq DOMAIN run.tasks /\ Cardinality(run.hands[w]) <= 1
      <4>1. Cardinality({n}) = 1
        BY FS_Singleton
      <4> QED
        BY <1>3, <3>2, <4>1
    <3> QED
      BY <1>2, <3>1, <3>2 DEF HandsOK
  <2>4. \A i \in DOMAIN run.results : run.results[i].task \in DOMAIN run.tasks
    BY <1>2, <1>3, <1>4 DEF HandsOK
  <2>5. DOMAIN sessions \subseteq 1 .. LastSession
    BY <1>0 DEF RecordsOK
  <2>6. Cardinality(cached) <= 1 /\ Cardinality(queries) <= 1
    <3>1. cached = {} \/ \E r : cached = {r}
      BY <1>0 DEF RecordsOK
    <3>2. Cardinality(cached) = 0 \/ Cardinality(cached) = 1
      BY <3>1, FS_EmptySet, FS_Singleton
    <3>3. Cardinality(queries) = 0 \/ Cardinality(queries) = 1
      BY <1>0, FS_EmptySet, FS_Singleton
    <3> QED
      BY <3>2, <3>3
  <2>7. suppression.forgotten \intersect suppression.sealed = {}
    BY <1>0 DEF LedgerInv, LedgerOK
  <2> QED
    BY <2>1, <2>2, <2>3, <2>4, <2>5, <2>6, <2>7 DEF SearchTypeOK
<1>6. IndexIsTheCorpus
  <2> SUFFICES ASSUME run.outcome = "done", db.bm25.whole
      PROVE /\ db.bm25.sections = AllSections(db.state.cached_files)
            /\ DOMAIN db.state.cached_files \subseteq run.seen
            /\ \A f \in DOMAIN db.state.cached_files \intersect DOMAIN corpus :
                  LET file == db.state.cached_files[f] IN
                  IsReadable(f) /\ corpus[f].mtime = file.mtime /\ ~corpus[f].hidden =>
                      [k \in DOMAIN file.sections |-> file.sections[k].text] =
                          [k \in DOMAIN NewSections(f) |-> NewSections(f)[k].text]
    BY DEF IndexIsTheCorpus
  <2>1. \A f \in DOMAIN db.state.cached_files \intersect DOMAIN corpus :
           IsText(corpus[f].content) /\ corpus[f].mtime = db.state.cached_files[f].mtime /\ ~corpus[f].hidden =>
               TextsOf(db.state.cached_files[f].sections) = TextsOf(Chunks(f, corpus[f].content))
    BY <1>0 DEF DbOK, FilesOK, FileOK
  <2> QED
    BY <1>0, <2>1 DEF DbOK, TextsOf, IsReadable, NewSections
<1>7. NothingTwice
  <2>1. ~run.force => \A i \in DOMAIN run.tasks :
           LET t == run.tasks[i]
               sec == run.cached_files[t.file].sections[t.k]
           IN <<t.file, sec.title, sec.at>> \notin run.had
    BY <1>1 DEF TaskOK, Named
  <2>2. \A v, w \in Workers : v # w => run.hands[v] \intersect run.hands[w] = {}
    BY <1>2 DEF HandsOK
  <2>3. \A i, j \in DOMAIN run.results : i # j => run.results[i].task # run.results[j].task
    BY <1>2, <1>4 DEF HandsOK
  <2> QED
    BY <2>1, <2>2, <2>3 DEF NothingTwice
<1>8. ResultsLandRight
  BY <1>0 DEF RunOK, FilesOK, FileOK, ResultsLandRight
<1> QED
  BY <1>0, <1>5, <1>6, <1>7, <1>8 DEF IndexIsTrue

\* What the index, the state file and the records of the sessions say is true
\* of the corpus and of the store, over runs that fail, crash, are forced and
\* are begun anew, and edits that their times do not show, for every corpus and chunking, any number of workers and sessions.
THEOREM IndexStaysTrue == Spec => []IndexIsTrue
<1>1. Init => SearchInv
  BY SearchBegins
<1>2. SearchInv /\ [Next]_vars => SearchInv'
  BY SearchKeeps
<1>3. SearchInv => IndexIsTrue
  BY SearchIsTrue
<1> QED
  BY <1>1, <1>2, <1>3, PTL DEF Spec


-----------------------------------------------------------------------------
(* What an operator was told                                                *)

LEMMA OperatorBegins ==
  ASSUME NEW o, Operators = {o}, \A j \in Jobs : j.slips = 0 \/ j.commands <= 1, Init
  PROVE  OperatorInv(o)
<1>1. edit[o] = NoEdit /\ gone = {} /\ put_away = {} /\ shown = Nothing /\ job \in Jobs
  BY DEF Init
<1>2. EditInv(o)
  BY <1>1 DEF EditInv, NoEdit
<1>3. ToldInv /\ ForgottenIsNoHit
  BY <1>1 DEF ToldInv, ForgottenIsNoHit, Nothing
<1>4. SlipInv(o)
  <2>1. job \in SearchJobs /\ (job.slips = 0 \/ job.commands <= 1)
    BY <1>1, SearchAssumption
  <2>2. edit[o].pc # "save"
    BY <1>1 DEF NoEdit
  <2> QED
    BY <1>1, <2>1, <2>2 DEF SlipInv, SearchJobs
<1> QED
  BY <1>2, <1>3, <1>4 DEF OperatorInv

LEMMA SpendsLess ==
  ASSUME JobInv, Spends
  PROVE  /\ job.commands \in Nat /\ job.slips \in Nat /\ job'.commands \in Nat /\ job'.slips \in Nat
         /\ job'.commands <= job.commands /\ job'.slips <= job.slips
<1>0. "commands" \in Counters /\ "slips" \in Counters
  BY DEF Counters
<1>1. JobInv'
  BY SpendsKeeps
<1>2. job.commands \in Nat /\ job.slips \in Nat /\ job'.commands \in Nat /\ job'.slips \in Nat
  BY <1>1 DEF JobInv, SearchJobs
<1>3. CASE UNCHANGED job
  BY <1>2, <1>3
<1>4. ASSUME NEW what \in Counters, Bounded(what)
      PROVE  job'.commands <= job.commands /\ job'.slips <= job.slips
  <2>1. \A c \in Counters : job'[c] = IF c = what THEN job[c] - 1 ELSE job[c]
    BY <1>4, BoundedKeeps
  <2>2. job'["commands"] <= job["commands"] /\ job'["slips"] <= job["slips"]
    BY <1>0, <1>2, <2>1
  <2> QED
    BY <2>2
<1> QED
  BY <1>2, <1>3, <1>4 DEF Spends

LEMMA SlipStays ==
  ASSUME NEW o, JobInv, Spends, SlipInv(o), UNCHANGED <<edit, gone, put_away>>
  PROVE  SlipInv(o)'
<1>1. /\ job.commands \in Nat /\ job.slips \in Nat /\ job'.commands \in Nat /\ job'.slips \in Nat
      /\ job'.commands <= job.commands /\ job'.slips <= job.slips
  BY SpendsLess
<1>2. job'.slips > 0 => job.slips > 0 /\ job.commands <= 1 /\ job'.commands <= 1
  BY <1>1 DEF SlipInv
<1>3. job'.commands = 1 /\ job.commands <= 1 => job.commands = 1
  BY <1>1
<1>4. job.commands = 0 => job'.commands = 0
  BY <1>1
<1> QED
  BY <1>2, <1>3, <1>4 DEF SlipInv

\* What a search prints was let through by the ledger it read last.
LEMMA BlendIsFiltered ==
  ASSUME ToldInv
  PROVE  /\ Blended \intersect gone = {}
         /\ ~search.include_sealed => Blended \intersect put_away = {}
<1> DEFINE all == Hashes(search.sections)
<1>1. ASSUME NEW h \in Blended
      PROVE  suppression = NoLedger \/ IsSearchable(suppression, h, search.include_sealed)
  BY DEF Blended, SemanticFiltered
<1>2. suppression = NoLedger => gone = {} /\ put_away = {}
  BY DEF ToldInv, NoLedger
<1>3. \A h : IsSearchable(suppression, h, search.include_sealed) =>
         h \notin suppression.forgotten /\ (~search.include_sealed => h \notin suppression.sealed)
  BY DEF IsSearchable
<1> QED
  BY <1>1, <1>2, <1>3 DEF ToldInv

LEMMA SearchShows ==
  ASSUME ToldInv, ForgottenIsNoHit, UNCHANGED <<suppression, gone, put_away>>,
         SearchStep \/ (\E sealed \in BOOLEAN : SearchStarts(sealed)) \/ RetrieveUnion
  PROVE  ForgottenIsNoHit'
<1>1. CASE UNCHANGED shown
  BY <1>1 DEF ForgottenIsNoHit
<1>2. CASE Blend
  <2>1. shown'.hits = Blended /\ shown'.sealed = search.include_sealed
    BY <1>2 DEF Blend
  <2>2. /\ Blended \intersect gone = {}
        /\ ~search.include_sealed => Blended \intersect put_away = {}
    BY BlendIsFiltered
  <2> QED
    BY <2>1, <2>2 DEF ForgottenIsNoHit
<1>3. CASE Lexical
  <2>1. /\ shown'.hits = {h \in Hashes(search.sections) : IsSearchable(suppression, h, search.include_sealed)}
        /\ shown'.sealed = search.include_sealed
    BY <1>3 DEF Lexical
  <2>2. \A h \in shown'.hits : h \notin suppression.forgotten /\ (~search.include_sealed => h \notin suppression.sealed)
    BY <2>1 DEF IsSearchable
  <2> QED
    BY <2>1, <2>2 DEF ForgottenIsNoHit, ToldInv
<1>4. CASE RetrieveUnion
  BY <1>4 DEF RetrieveUnion, ForgottenIsNoHit
<1> QED
  BY <1>1, <1>2, <1>3, <1>4 DEF SearchStep, SearchStarts, LookUp, GetSession, AskStore

LEMMA CommandTells ==
  ASSUME NEW o \in Operators, SearchInv, OperatorInv(o), NEW verb \in {"forget", "seal", "restore"}, NEW hash,
         Command(o, verb, hash), Spends
  PROVE  OperatorInv(o)'
<1>0. /\ EditInv(o) /\ ToldInv /\ SlipInv(o) /\ ForgottenIsNoHit /\ JobInv /\ DOMAIN edit = Operators
  BY DEF OperatorInv, SearchInv, LedgerInv
<1>1. UNCHANGED <<suppression, shown, gone, put_away>>
  BY DEF Command
<1> DEFINE new == [pc |-> "save", verb |-> verb, hash |-> {hash}, ledger |-> Apply(suppression, verb, hash)]
<1>2. edit'[o] = new
  BY <1>0 DEF Command
<1>3. new.pc = "save" /\ new.verb = verb /\ new.hash = {hash} /\ new.ledger = Apply(suppression, verb, hash)
  OBVIOUS
<1> HIDE DEF new
<1>4. EditInv(o)'
  <2>1. edit'[o].pc = "save" /\ edit'[o].verb = verb /\ edit'[o].hash = {hash}
    BY <1>2, <1>3
  <2>2. edit'[o].ledger = Apply(suppression', edit'[o].verb, hash)
    BY <1>1, <1>2, <1>3
  <2> QED
    BY <2>1, <2>2 DEF EditInv
<1>5. job.commands > 0 /\ job'.commands = job.commands - 1
  <2>1. Bounded("commands") /\ "commands" \in Counters
    BY DEF Command, Counters
  <2>2. job["commands"] > 0 /\ job'["commands"] = job["commands"] - 1
    BY <1>0, <2>1, BoundedKeeps
  <2> QED
    BY <2>2
<1>6. job.commands \in Nat /\ job.slips \in Nat /\ job'.slips \in Nat /\ job'.slips <= job.slips
  BY <1>0, SpendsLess
<1>7. SlipInv(o)'
  <2> SUFFICES ASSUME job'.slips > 0
               PROVE  job'.commands = 0 /\ gone' = {} /\ put_away' = {}
    BY <1>2, <1>3 DEF SlipInv
  <2>1. job.slips > 0
    BY <1>6
  <2>2. job.commands <= 1
    BY <1>0, <2>1 DEF SlipInv
  <2>3. job.commands = 1
    BY <1>5, <1>6, <2>2
  <2> QED
    BY <1>0, <1>1, <1>5, <2>1, <2>3 DEF SlipInv
<1>8. ToldInv' /\ ForgottenIsNoHit'
  BY <1>0, <1>1 DEF ToldInv, ForgottenIsNoHit
<1> QED
  BY <1>4, <1>7, <1>8 DEF OperatorInv

LEMMA SaveTells ==
  ASSUME NEW o \in Operators, SearchInv, OperatorInv(o), Save(o)
  PROVE  OperatorInv(o)'
<1>0. /\ EditInv(o) /\ ToldInv /\ SlipInv(o) /\ JobInv /\ LedgerOK(suppression) /\ DOMAIN edit = Operators
  BY DEF OperatorInv, SearchInv, LedgerInv
<1>1. /\ edit[o].pc = "save" /\ suppression' = edit[o].ledger /\ edit'[o] = NoEdit /\ job' = job
      /\ gone' = IF edit[o].verb = "forget" THEN gone \union edit[o].hash
                 ELSE IF edit[o].verb = "restore" THEN gone \ edit[o].hash ELSE gone
      /\ put_away' = IF edit[o].verb = "seal" THEN put_away \union (edit[o].hash \ gone)
                     ELSE put_away \ edit[o].hash
      /\ shown' = Nothing
  BY <1>0 DEF Save
<1>2. EditInv(o)'
  BY <1>1 DEF EditInv, NoEdit
<1>3. PICK h : /\ edit[o].hash = {h} /\ edit[o].verb \in {"forget", "seal", "restore"}
               /\ edit[o].ledger = Apply(suppression, edit[o].verb, h)
  BY <1>0, <1>1 DEF EditInv
<1>4. gone \subseteq suppression.forgotten /\ put_away \subseteq suppression.forgotten \union suppression.sealed
  BY <1>0 DEF ToldInv
<1>5. /\ Apply(suppression, "forget", h) = Forget(suppression, h)
      /\ Apply(suppression, "seal", h) = Seal(suppression, h)
      /\ Apply(suppression, "restore", h) = Restore(suppression, h)
      /\ Seal(suppression, h).forgotten = suppression.forgotten
      /\ h \notin suppression.forgotten => Seal(suppression, h).sealed = suppression.sealed \union {h}
      /\ h \in suppression.forgotten => Seal(suppression, h).sealed = suppression.sealed
  BY <1>0, ApplyIs
<1>6. ToldInv'
  <2>1. CASE edit[o].verb = "forget"
    <3>1. /\ suppression'.forgotten = suppression.forgotten \union {h}
          /\ suppression'.sealed = suppression.sealed \ {h}
      BY <1>1, <1>3, <1>5, <2>1 DEF Forget
    <3> QED
      BY <1>1, <1>3, <1>4, <2>1, <3>1 DEF ToldInv
  <2>2. CASE edit[o].verb = "seal"
    <3>1. /\ suppression'.forgotten = suppression.forgotten
          /\ (h \notin suppression.forgotten => suppression'.sealed = suppression.sealed \union {h})
          /\ (h \in suppression.forgotten => suppression'.sealed = suppression.sealed)
      BY <1>1, <1>3, <1>5, <2>2
    <3>2. gone' = gone /\ put_away' = put_away \union ({h} \ gone)
      BY <1>1, <1>3, <2>2
    <3> QED
      BY <1>4, <3>1, <3>2 DEF ToldInv
  <2>3. CASE edit[o].verb = "restore"
    <3>1. /\ suppression'.forgotten = suppression.forgotten \ {h}
          /\ suppression'.sealed = suppression.sealed \ {h}
      BY <1>1, <1>3, <1>5, <2>3 DEF Restore
    <3> QED
      BY <1>1, <1>3, <1>4, <2>3, <3>1 DEF ToldInv
  <2> QED
    BY <1>3, <2>1, <2>2, <2>3
<1>7. SlipInv(o)'
  <2>1. job.slips > 0 => job.commands = 0 /\ job.commands <= 1
    BY <1>0, <1>1 DEF SlipInv
  <2>2. edit'[o].pc # "save"
    BY <1>1 DEF NoEdit
  <2>3. job.commands = 0 => job.commands # 1
    OBVIOUS
  <2> QED
    BY <1>1, <2>1, <2>2, <2>3 DEF SlipInv
<1>8. ForgottenIsNoHit'
  BY <1>1 DEF ForgottenIsNoHit, Nothing
<1> QED
  BY <1>2, <1>6, <1>7, <1>8 DEF OperatorInv

LEMMA SaveDiesTells ==
  ASSUME NEW o \in Operators, SearchInv, OperatorInv(o), SaveDies(o), Spends
  PROVE  OperatorInv(o)'
<1>0. /\ SlipInv(o) /\ JobInv /\ DOMAIN edit = Operators
  BY DEF OperatorInv, SearchInv, LedgerInv
<1>1. /\ edit[o].pc = "save" /\ edit'[o] = NoEdit /\ UNCHANGED <<shown, gone, put_away>>
      /\ Bounded("slips")
  BY <1>0 DEF SaveDies
<1>2. job.slips > 0
  BY <1>1 DEF Bounded
<1>3. gone = {} /\ put_away = {} /\ job.commands = 0
  BY <1>0, <1>1, <1>2 DEF SlipInv
<1>4. job'.commands = 0
  <2>1. job.commands \in Nat /\ job'.commands \in Nat /\ job'.commands <= job.commands
    BY <1>0, SpendsLess
  <2> QED
    BY <1>3, <2>1
<1>5. EditInv(o)'
  BY <1>1 DEF EditInv, NoEdit
<1>6. SlipInv(o)'
  BY <1>1, <1>3, <1>4 DEF SlipInv, NoEdit
<1>7. ToldInv' /\ ForgottenIsNoHit'
  BY <1>1, <1>3 DEF ToldInv, ForgottenIsNoHit
<1> QED
  BY <1>5, <1>6, <1>7 DEF OperatorInv

LEMMA OperatorKeeps ==
  ASSUME NEW o, Operators = {o}, SearchInv, OperatorInv(o), [Next]_vars
  PROVE  OperatorInv(o)'
<1>0. /\ EditInv(o) /\ ToldInv /\ SlipInv(o) /\ ForgottenIsNoHit /\ JobInv /\ Spends
  BY SearchKeeps DEF OperatorInv, SearchInv
<1>1. ASSUME UNCHANGED <<suppression, edit, gone, put_away>>, ForgottenIsNoHit'
      PROVE  OperatorInv(o)'
  BY <1>0, <1>1, SlipStays DEF OperatorInv, EditInv, ToldInv
<1>2. CASE IndexNext /\ UNCHANGED query_vars
  BY <1>0, <1>1, <1>2 DEF query_vars, ForgottenIsNoHit
<1>3. CASE SearchStep \/ (\E sealed \in BOOLEAN : SearchStarts(sealed)) \/ RetrieveUnion
  <2>1. UNCHANGED <<suppression, edit, gone, put_away>>
    BY <1>3, SearchStepKeeps
  <2> QED
    BY <1>0, <1>1, <1>3, <2>1, SearchShows
<1>4. CASE \E verb \in {"forget", "seal", "restore"}, i \in DOMAIN db.bm25.sections :
               Command(o, verb, db.bm25.sections[i].hash)
  BY <1>0, <1>4, CommandTells
<1>5. CASE Save(o)
  BY <1>5, SaveTells
<1>6. CASE SaveDies(o)
  BY <1>0, <1>6, SaveDiesTells
<1>7. CASE UNCHANGED vars
  BY <1>0, <1>1, <1>7 DEF vars, query_vars, ForgottenIsNoHit
<1> QED
  BY <1>2, <1>3, <1>4, <1>5, <1>6, <1>7 DEF Next

\* A section an operator was told is forgotten is no hit of a search, whatever
\* the corpus, the index runs, the store and its sessions, the cached answers
\* and the order of the steps.  One operator edits the ledger at a time (two
\* read and write it whole, and one forget is lost), and where a write may die
\* it is the first (save_at does not replace the file in one step: a write that
\* dies empties it).
THEOREM ForgottenStaysAway ==
  ASSUME NEW o, Operators = {o}, \A j \in Jobs : j.slips = 0 \/ j.commands <= 1
  PROVE  Spec => []ForgottenIsNoHit
<1>1. Init => SearchInv /\ OperatorInv(o)
  BY SearchBegins, OperatorBegins
<1>2. SearchInv /\ OperatorInv(o) /\ [Next]_vars => SearchInv' /\ OperatorInv(o)'
  BY SearchKeeps, OperatorKeeps
<1>3. OperatorInv(o) => ForgottenIsNoHit
  BY DEF OperatorInv
<1> QED
  BY <1>1, <1>2, <1>3, PTL DEF Spec

=============================================================================
