----------------------------- MODULE CognitionProofs -----------------------------
(***************************************************************************)
(* What cognition promises, for every value of the constants: nights are   *)
(* logged and keep anchors apart, briefings hold what is eligible and in   *)
(* its order, drift and moods are measured on what really happened.  Each  *)
(* part keeps an inductive invariant of its own (NightInv, CurationInv,    *)
(* SatiInv, TermInv, AffectInv).                                           *)
(***************************************************************************)
EXTENDS MCCognition, FiniteSetTheorems, SequenceTheorems, WellFoundedInduction, TLAPS

-----------------------------------------------------------------------------
(***************************************************************************)
(* The night (Bhavana)                                                     *)
(***************************************************************************)

LEMMA SetInduction ==
  ASSUME NEW P, 0 \in P, \A n \in Nat : n \in P => n + 1 \in P
  PROVE  Nat \subseteq P
<1> DEFINE R == OpToRel(<, Nat)
<1> DEFINE T == Nat \ P
<1>1. IsWellFoundedOn(R, Nat)
  BY NatLessThanWellFounded
<1>2. \A x, y \in Nat : y < x => <<y, x>> \in R
  BY DEF OpToRel
<1> HIDE DEF R
<1>3. SUFFICES ASSUME T # {} PROVE FALSE
  OBVIOUS
<1>4. PICK x \in T : \A y \in T : ~ (<<y, x>> \in R)
  BY <1>1, <1>3, WFMin
<1>5. x \in Nat /\ x # 0
  OBVIOUS
<1>6. x - 1 \in Nat /\ x - 1 < x /\ x = (x - 1) + 1
  BY <1>5
<1>7. x - 1 \in T
  BY <1>6
<1>8. <<x - 1, x>> \in R
  BY <1>2, <1>5, <1>6
<1> QED
  BY <1>4, <1>7, <1>8

LEMMA IntervalInduction ==
  ASSUME NEW n \in Nat, NEW P, 0 \in P, \A s \in 1 .. n : s - 1 \in P => s \in P
  PROVE  0 .. n \subseteq P
<1> DEFINE Q == {s \in Nat : s <= n => s \in P}
<1>1. 0 \in Q
  OBVIOUS
<1>2. ASSUME NEW s \in Nat, s \in Q
      PROVE  s + 1 \in Q
  <2>1. CASE s + 1 <= n
    <3>1. s + 1 \in 1 .. n /\ (s + 1) - 1 = s /\ s \in P
      BY <1>2, <2>1
    <3> QED
      BY <3>1
  <2> QED
    BY <1>2, <2>1
<1>3. Nat \subseteq Q
  <2> HIDE DEF Q
  <2> QED
    BY <1>1, <1>2, SetInduction
<1> QED
  BY <1>3

-----------------------------------------------------------------------------
(* The groups of a night                                                    *)

Accounts(ids) == [taken : SUBSET ids, groups : Seq(SUBSET ids)]
NoAccount == [taken |-> {}, groups |-> <<>>]

LEMMA SeededKeepsAccounts ==
  ASSUME NEW ids, NEW acc \in Accounts(ids), NEW i
  PROVE  Seeded(ids, acc, i) \in Accounts(ids)
<1> DEFINE g == {i} \union {j \in ids \ acc.taken : Pair(i, j) \in Similar}
<1> DEFINE enough == Cardinality(g) >= Max({MinCluster, 2})
<1>1. CASE i \notin ids \/ i \in acc.taken
  BY <1>1 DEF Seeded
<1>2. CASE i \in ids /\ i \notin acc.taken
  <2>1. g \subseteq ids
    BY <1>2
  <2>2. Seeded(ids, acc, i) =
          IF enough THEN [taken |-> acc.taken \union g, groups |-> Append(acc.groups, g)]
          ELSE [acc EXCEPT !.taken = @ \union {i}]
    BY <1>2 DEF Seeded
  <2> HIDE DEF g, enough
  <2>3. acc.groups \in Seq(SUBSET ids) /\ acc.taken \subseteq ids
    BY DEF Accounts
  <2>4. Append(acc.groups, g) \in Seq(SUBSET ids)
    BY <2>1, <2>3, AppendProperties
  <2>5. [taken |-> acc.taken \union g, groups |-> Append(acc.groups, g)] \in Accounts(ids)
    BY <2>1, <2>3, <2>4 DEF Accounts
  <2>6. [acc EXCEPT !.taken = @ \union {i}] \in Accounts(ids)
    BY <1>2 DEF Accounts
  <2> QED
    BY <2>2, <2>5, <2>6
<1> QED
  BY <1>1, <1>2

GroupRun(f, n, ids, yielded) ==
    f = [i \in 0 .. n |-> IF i = 0 THEN NoAccount ELSE Seeded(ids, f[i - 1], yielded[i])]

LEMMA GroupsUnfold ==
  ASSUME NEW ids, NEW yielded, Len(yielded) \in Nat
  PROVE  \E f : /\ GroupRun(f, Len(yielded), ids, yielded)
                /\ SimilarityGroups(ids, yielded) = f[Len(yielded)].groups
<1> DEFINE P == {n \in 0 .. Len(yielded) : \E f : GroupRun(f, n, ids, yielded)}
<1>1. 0 \in P
  <2>1. GroupRun([i \in 0 .. 0 |-> NoAccount], 0, ids, yielded)
    BY DEF GroupRun
  <2> QED
    BY <2>1
<1>2. ASSUME NEW n \in 1 .. Len(yielded), n - 1 \in P
      PROVE  n \in P
  <2>1. PICK f : GroupRun(f, n - 1, ids, yielded)
    BY <1>2
  <2> DEFINE g == [i \in 0 .. n |-> IF i = n THEN Seeded(ids, f[n - 1], yielded[n]) ELSE f[i]]
  <2>2. \A i \in 0 .. n : g[i] = IF i = 0 THEN NoAccount ELSE Seeded(ids, g[i - 1], yielded[i])
    <3> TAKE i \in 0 .. n
    <3>1. CASE i = n
      <4>1. n - 1 \in 0 .. n /\ n - 1 # n /\ i # 0
        BY <3>1
      <4>2. g[n - 1] = f[n - 1] /\ g[n] = Seeded(ids, f[n - 1], yielded[n])
        BY <4>1
      <4> QED
        BY <3>1, <4>1, <4>2
    <3>2. CASE i # n
      <4>1. i \in 0 .. n - 1
        BY <3>2
      <4>2. g[i] = f[i] /\ (i # 0 => g[i - 1] = f[i - 1])
        BY <3>2, <4>1
      <4>3. f[i] = IF i = 0 THEN NoAccount ELSE Seeded(ids, f[i - 1], yielded[i])
        BY <2>1, <4>1 DEF GroupRun
      <4> QED
        BY <4>2, <4>3
    <3> QED
      BY <3>1, <3>2
  <2>3. GroupRun(g, n, ids, yielded)
    BY <2>2 DEF GroupRun
  <2> HIDE DEF g
  <2> QED
    BY <2>3
<1>3. \E f : GroupRun(f, Len(yielded), ids, yielded)
  <2>1. 0 .. Len(yielded) \subseteq P
    <3> HIDE DEF P
    <3> QED
      BY <1>1, <1>2, IntervalInduction
  <2> QED
    BY <2>1
<1> DEFINE all == CHOOSE f : GroupRun(f, Len(yielded), ids, yielded)
<1>4. GroupRun(all, Len(yielded), ids, yielded)
  BY <1>3
<1>5. SimilarityGroups(ids, yielded) = all[Len(yielded)].groups
  BY DEF SimilarityGroups, GroupRun, NoAccount
<1> HIDE DEF all
<1> QED
  BY <1>4, <1>5

\* Each group is of the memories it was made from.
LEMMA GroupsAreOfTheirMemories ==
  ASSUME NEW ids, NEW yielded, Len(yielded) \in Nat
  PROVE  SimilarityGroups(ids, yielded) \in Seq(SUBSET ids)
<1>1. PICK f : GroupRun(f, Len(yielded), ids, yielded) /\ SimilarityGroups(ids, yielded) = f[Len(yielded)].groups
  BY GroupsUnfold
<1> DEFINE P == {n \in 0 .. Len(yielded) : f[n] \in Accounts(ids)}
<1>2. 0 \in P
  <2>1. NoAccount \in Accounts(ids)
    BY DEF NoAccount, Accounts
  <2> QED
    BY <1>1, <2>1 DEF GroupRun
<1>3. ASSUME NEW n \in 1 .. Len(yielded), n - 1 \in P
      PROVE  n \in P
  <2>1. f[n] = Seeded(ids, f[n - 1], yielded[n])
    BY <1>1, <1>3 DEF GroupRun
  <2> QED
    BY <1>3, <2>1, SeededKeepsAccounts
<1>4. 0 .. Len(yielded) \subseteq P
  <2> HIDE DEF P
  <2> QED
    BY <1>2, <1>3, IntervalInduction
<1>5. f[Len(yielded)] \in Accounts(ids)
  BY <1>4
<1> QED
  BY <1>1, <1>5 DEF Accounts

-----------------------------------------------------------------------------
(* The night                                                                *)

Records == [state : {"Active", "Forgiven", "Archived"}, keystone : BOOLEAN, fid : 0 .. 2, depth : Nat]
Memberships == UNION {[S -> SUBSET Ids] : S \in SUBSET Ids}

NightTypes ==
    /\ left \in Allowances /\ left.refusals <= left.sink
    /\ order \in Seq(Ids)
    /\ DOMAIN memories \subseteq Ids /\ memories \in [DOMAIN memories -> Records]
    /\ index \in [clusters : SUBSET SUBSET Ids, member : Memberships, reviewed : SUBSET SUBSET Ids]
    /\ DOMAIN index.member \subseteq DOMAIN memories
    /\ karma \in [deepened : [Ids -> Nat], released : SUBSET Decisions, reviewed : SUBSET SUBSET Ids]
    /\ pending \subseteq Decisions
    /\ night \in [phase : {"none", "propose", "consolidate"}, roles : SUBSET {"Intuition", "Ethics"},
                  groups : Seq(SUBSET DOMAIN memories)]

\* What the log does not name yet, and clusters that are named and are not.
Unlogged == {i \in DOMAIN memories :
                /\ memories[i].state # "Active"
                /\ [id |-> i, kind |-> "upekkha"] \notin karma.released}
Dangling == {index.member[i] : i \in DOMAIN index.member} \ index.clusters

ReleasesInv ==
    /\ Cardinality(Unlogged) <= RefusedSoFar(left)
    /\ \A d \in karma.released : d.id \in DOMAIN memories /\ memories[d.id].state # "Active"

DepthInv ==
    /\ DepthIsLogged
    /\ \A i \in Ids \ DOMAIN memories : karma.deepened[i] = 0

MembershipInv ==
    /\ \A i \in DOMAIN index.member : i \in index.member[i]
    /\ Cardinality(Dangling) <= RefusedSoFar(left)

NightInv == NightTypes /\ ReleasesInv /\ DepthInv /\ MembershipInv

LEMMA UnloggedIsFinite ==
  ASSUME NightTypes
  PROVE  IsFiniteSet(Unlogged) /\ IsFiniteSet(DOMAIN memories)
<1>1. Unlogged \subseteq DOMAIN memories
  BY DEF Unlogged
<1> QED
  BY <1>1, NightAssumption, FS_Subset DEF NightTypes

LEMMA DanglingIsFinite ==
  ASSUME NightTypes
  PROVE  IsFiniteSet(Dangling)
<1>1. index.member \in Memberships
  BY DEF NightTypes
<1>2. PICK S \in SUBSET Ids : index.member \in [S -> SUBSET Ids]
  BY <1>1 DEF Memberships
<1>3. Dangling \subseteq SUBSET Ids
  BY <1>2 DEF Dangling
<1> QED
  BY <1>3, NightAssumption, FS_SUBSET, FS_Subset

LEMMA NightInitInv ==
  ASSUME NightInit
  PROVE  NightInv
<1>1. left \in Allowances /\ left.refusals = left.sink /\ left.sink \in Nat /\ left.known \subseteq Ids
  BY NightAssumption DEF NightInit, Allowances
<1>2. DOMAIN memories = left.known
      /\ \A i \in left.known : memories[i] = [state |-> "Active", keystone |-> i \in left.anchors,
                                         fid |-> IF i \in Often THEN 2 ELSE 1, depth |-> 0]
  BY DEF NightInit
<1>3. \A i \in DOMAIN memories : memories[i] \in Records /\ memories[i].state = "Active" /\ memories[i].depth = 0
  <2> TAKE i \in DOMAIN memories
  <2>1. \E b \in BOOLEAN, n \in 0 .. 2 : memories[i] = [state |-> "Active", keystone |-> b, fid |-> n, depth |-> 0]
    <3> WITNESS (i \in left.anchors) \in BOOLEAN, (IF i \in Often THEN 2 ELSE 1) \in 0 .. 2
    <3> QED
      BY <1>2
  <2> QED
    BY <2>1 DEF Records
<1>4. memories \in [DOMAIN memories -> Records]
  BY <1>3 DEF NightInit
<1>5. order \in Seq(Ids)
  BY NightAssumption DEF NightInit
<1>6. NoIndex \in [clusters : SUBSET SUBSET Ids, member : Memberships, reviewed : SUBSET SUBSET Ids]
      /\ DOMAIN NoIndex.member = {} /\ NoIndex.clusters = {}
  <2>1. [i \in {} |-> {}] \in [{} -> SUBSET Ids]
    OBVIOUS
  <2>2. [i \in {} |-> {}] \in Memberships
    BY <2>1 DEF Memberships
  <2> QED
    BY <2>2 DEF NoIndex
<1>7. karma \in [deepened : [Ids -> Nat], released : SUBSET Decisions, reviewed : SUBSET SUBSET Ids]
      /\ karma.released = {} /\ karma.deepened = [i \in Ids |-> 0]
  BY DEF NightInit
<1>8. night \in [phase : {"none", "propose", "consolidate"}, roles : SUBSET {"Intuition", "Ethics"},
                  groups : Seq(SUBSET DOMAIN memories)]
  <2>1. <<>> \in Seq(SUBSET DOMAIN memories)
    OBVIOUS
  <2> QED
    BY <2>1 DEF NightInit, Awake
<1>9. NightTypes
  <2>1. left.refusals <= left.sink /\ index = NoIndex /\ pending = {}
    BY <1>1 DEF NightInit
  <2> QED
    BY <1>1, <1>2, <1>4, <1>5, <1>6, <1>7, <1>8, <2>1 DEF NightTypes
<1>10. ReleasesInv
  <2>1. Unlogged = {}
    BY <1>3 DEF Unlogged
  <2> QED
    BY <1>1, <1>7, <2>1, FS_EmptySet DEF ReleasesInv, RefusedSoFar
<1>11. DepthInv
  BY <1>1, <1>2, <1>3, <1>7 DEF DepthInv, DepthIsLogged, RefusedSoFar
<1>12. MembershipInv
  <2>1. DOMAIN index.member = {}
    BY <1>6 DEF NightInit
  <2>2. Dangling = {}
    BY <2>1 DEF Dangling
  <2> QED
    BY <1>1, <2>1, <2>2, FS_EmptySet DEF MembershipInv, RefusedSoFar
<1> QED
  BY <1>9, <1>10, <1>11, <1>12 DEF NightInv
-----------------------------------------------------------------------------
(* Steps of a night                                                         *)

LEMMA RefusedTypes ==
  ASSUME NightTypes
  PROVE  /\ left.sink \in Nat /\ left.refusals \in Nat /\ RefusedSoFar(left) \in Nat
         /\ RefusedSoFar(left) = left.sink - left.refusals
  BY DEF NightTypes, Allowances, RefusedSoFar

\* A refused entry is one more.
LEMMA RefusedCounts ==
  ASSUME NightTypes, Refused
  PROVE  /\ left' \in Allowances /\ left'.refusals <= left'.sink
         /\ RefusedSoFar(left') = RefusedSoFar(left) + 1 /\ RefusedSoFar(left') \in Nat
<1>1. left \in Allowances /\ left.refusals \in Nat /\ left.sink \in Nat /\ left.refusals > 0
      /\ left.refusals <= left.sink
  BY DEF NightTypes, Allowances, Refused
<1>2. left' = [left EXCEPT !.refusals = left.refusals - 1] /\ left.refusals - 1 \in Nat
  BY <1>1 DEF Refused
<1>3. left' \in Allowances
  BY <1>1, <1>2 DEF Allowances
<1>4. left'.refusals = left.refusals - 1 /\ left'.sink = left.sink
  BY <1>1, <1>2 DEF Allowances
<1> QED
  BY <1>1, <1>3, <1>4 DEF RefusedSoFar

\* States, depths, membership and what the log says of them are left alone.
LEMMA QuietStep ==
  ASSUME NightInv,
         DOMAIN memories' = DOMAIN memories,
         \A i \in DOMAIN memories : memories'[i].state = memories[i].state /\ memories'[i].depth = memories[i].depth,
         index'.member = index.member, index'.clusters = index.clusters,
         karma'.released = karma.released, karma'.deepened = karma.deepened,
         RefusedSoFar(left') \in Nat, RefusedSoFar(left) <= RefusedSoFar(left')
  PROVE  ReleasesInv' /\ DepthInv' /\ MembershipInv'
<1>1. NightTypes /\ ReleasesInv /\ DepthInv /\ MembershipInv
  BY DEF NightInv
<1>2. RefusedSoFar(left) \in Nat /\ IsFiniteSet(Unlogged) /\ IsFiniteSet(Dangling)
  BY <1>1, RefusedTypes, UnloggedIsFinite, DanglingIsFinite
<1>3. Cardinality(Unlogged) \in Nat /\ Cardinality(Dangling) \in Nat
  BY <1>2, FS_CardinalityType
<1>4. ReleasesInv'
  <2>1. Unlogged' = Unlogged
    BY DEF Unlogged
  <2>2. Cardinality(Unlogged') <= RefusedSoFar(left')
    BY <1>1, <1>2, <1>3, <2>1 DEF ReleasesInv
  <2> QED
    BY <1>1, <2>2 DEF ReleasesInv
<1>5. DepthInv'
  <2>1. \A i \in DOMAIN memories : memories[i].depth \in Nat /\ karma.deepened[i] \in Nat
    BY <1>1 DEF NightTypes, Records
  <2> QED
    BY <1>1, <1>2, <2>1 DEF DepthInv, DepthIsLogged
<1>6. MembershipInv'
  <2>1. Dangling' = Dangling
    BY DEF Dangling
  <2>2. Cardinality(Dangling') <= RefusedSoFar(left')
    BY <1>1, <1>2, <1>3, <2>1 DEF MembershipInv
  <2> QED
    BY <1>1, <2>2 DEF MembershipInv
<1> QED
  BY <1>4, <1>5, <1>6

LEMMA StartNightInv ==
  ASSUME NightInv, StartNight
  PROVE  NightInv'
<1>0. NightTypes
  BY DEF NightInv
<1>0a. PICK intensity \in 0 .. 4 : \E sel :
        /\ memories' = [i \in DOMAIN memories |-> IF i \in sel THEN Ticked(memories[i]) ELSE memories[i]]
        /\ night' = [Awake EXCEPT !.phase = "propose", !.roles = ActivationRoles(intensity)]
  BY DEF StartNight
<1>1. PICK sel :
        /\ memories' = [i \in DOMAIN memories |-> IF i \in sel THEN Ticked(memories[i]) ELSE memories[i]]
        /\ night' = [Awake EXCEPT !.phase = "propose", !.roles = ActivationRoles(intensity)]
  BY <1>0a
<1>2. pending' = {} /\ UNCHANGED <<links, index, karma, order, left>>
  BY DEF StartNight
<1>3. \A m \in Records : Ticked(m) \in Records /\ Ticked(m).state = m.state /\ Ticked(m).depth = m.depth
  BY DEF Ticked, Records
<1>4. \A i \in DOMAIN memories : memories[i] \in Records
  BY <1>0 DEF NightTypes
<1>5. DOMAIN memories' = DOMAIN memories /\ memories' \in [DOMAIN memories' -> Records]
      /\ \A i \in DOMAIN memories : memories'[i].state = memories[i].state /\ memories'[i].depth = memories[i].depth
  BY <1>1, <1>3, <1>4
<1>6. night' \in [phase : {"none", "propose", "consolidate"}, roles : SUBSET {"Intuition", "Ethics"},
                  groups : Seq(SUBSET DOMAIN memories')]
  <2>1. night' = [phase |-> "propose", roles |-> ActivationRoles(intensity), groups |-> <<>>]
    BY <1>1 DEF Awake
  <2>2. ActivationRoles(intensity) \in SUBSET {"Intuition", "Ethics"}
    BY DEF ActivationRoles
  <2>3. <<>> \in Seq(SUBSET DOMAIN memories')
    OBVIOUS
  <2> QED
    BY <2>1, <2>2, <2>3
<1>7. NightTypes'
  BY <1>0, <1>2, <1>5, <1>6 DEF NightTypes
<1>8. RefusedSoFar(left') \in Nat /\ RefusedSoFar(left) <= RefusedSoFar(left')
  BY <1>0, <1>2, RefusedTypes
<1>9. ReleasesInv' /\ DepthInv' /\ MembershipInv'
  BY <1>2, <1>5, <1>8, QuietStep
<1> QED
  BY <1>7, <1>9 DEF NightInv

LEMMA ProposeInv ==
  ASSUME NightInv, Propose
  PROVE  NightInv'
<1>0. NightTypes
  BY DEF NightInv
<1>1. PICK stale \in SUBSET InState("Forgiven") :
        \/ /\ pending' = Proposals(stale)
           /\ memories' = [i \in DOMAIN memories |-> Proposed(i)]
           /\ night' = [night EXCEPT !.phase = "consolidate", !.groups = SimilarityGroups(InState("Active"), order)]
           /\ UNCHANGED <<links, index, karma, order, left>>
        \/ /\ Refused /\ Aborted
           /\ UNCHANGED <<memories, links, index, karma, order>>
  BY DEF Propose
<1>2. CASE /\ pending' = Proposals(stale)
           /\ memories' = [i \in DOMAIN memories |-> Proposed(i)]
           /\ night' = [night EXCEPT !.phase = "consolidate", !.groups = SimilarityGroups(InState("Active"), order)]
           /\ UNCHANGED <<links, index, karma, order, left>>
  <2>1. memories' = memories
    BY <1>0, <1>2 DEF NightTypes, Proposed
  <2>2. pending' \subseteq Decisions
    BY <1>0, <1>2 DEF NightTypes, Proposals, Decisions, Faded, InState
  <2>3. SimilarityGroups(InState("Active"), order) \in Seq(SUBSET DOMAIN memories)
    <3>1. Len(order) \in Nat
      BY <1>0 DEF NightTypes
    <3>2. SimilarityGroups(InState("Active"), order) \in Seq(SUBSET InState("Active"))
      BY <3>1, GroupsAreOfTheirMemories
    <3>3. InState("Active") \subseteq DOMAIN memories
      BY DEF InState
    <3> HIDE DEF InState
    <3> QED
      BY <3>2, <3>3
  <2>4. night' = [phase |-> "consolidate", roles |-> night.roles, groups |-> SimilarityGroups(InState("Active"), order)]
    BY <1>0, <1>2 DEF NightTypes
  <2>5. NightTypes'
    BY <1>0, <1>2, <2>1, <2>2, <2>3, <2>4 DEF NightTypes
  <2>6. RefusedSoFar(left') \in Nat /\ RefusedSoFar(left) <= RefusedSoFar(left')
    BY <1>0, <1>2, RefusedTypes
  <2>7. ReleasesInv' /\ DepthInv' /\ MembershipInv'
    BY <1>2, <2>1, <2>6, QuietStep
  <2> QED
    BY <2>5, <2>7 DEF NightInv
<1>3. CASE /\ Refused /\ Aborted
           /\ UNCHANGED <<memories, links, index, karma, order>>
  <2>1. <<>> \in Seq(SUBSET DOMAIN memories)
    OBVIOUS
  <2>2. night' \in [phase : {"none", "propose", "consolidate"}, roles : SUBSET {"Intuition", "Ethics"},
                    groups : Seq(SUBSET DOMAIN memories)]
    BY <1>3, <2>1 DEF Aborted, Awake
  <2>3. left' \in Allowances /\ left'.refusals <= left'.sink
        /\ RefusedSoFar(left') \in Nat /\ RefusedSoFar(left) <= RefusedSoFar(left')
    BY <1>0, <1>3, RefusedCounts, RefusedTypes
  <2>4. NightTypes'
    BY <1>0, <1>3, <2>2, <2>3 DEF NightTypes, Aborted
  <2>5. ReleasesInv' /\ DepthInv' /\ MembershipInv'
    BY <1>3, <2>3, QuietStep
  <2> QED
    BY <2>4, <2>5 DEF NightInv
<1> QED
  BY <1>1, <1>2, <1>3
LEMMA KnownInv ==
  ASSUME NightInv, Known
  PROVE  NightInv'
<1>0. NightTypes
  BY DEF NightInv
<1>1. /\ night.groups # <<>> /\ night' = [night EXCEPT !.groups = Tail(night.groups)]
      /\ UNCHANGED <<memories, links, index, karma, pending, order, left>>
  BY DEF Known
<1>2. night' \in [phase : {"none", "propose", "consolidate"}, roles : SUBSET {"Intuition", "Ethics"},
                  groups : Seq(SUBSET DOMAIN memories)]
  <2>1. night.groups \in Seq(SUBSET DOMAIN memories)
    BY <1>0 DEF NightTypes
  <2>2. Tail(night.groups) \in Seq(SUBSET DOMAIN memories)
    BY <1>1, <2>1, HeadTailProperties
  <2> QED
    BY <1>0, <1>1, <2>2 DEF NightTypes
<1>3. NightTypes'
  BY <1>0, <1>1, <1>2 DEF NightTypes
<1>4. RefusedSoFar(left') \in Nat /\ RefusedSoFar(left) <= RefusedSoFar(left')
  BY <1>0, <1>1, RefusedTypes
<1>5. ReleasesInv' /\ DepthInv' /\ MembershipInv'
  BY <1>1, <1>4, QuietStep
<1> QED
  BY <1>3, <1>5 DEF NightInv

\* After a group the night goes on with the rest, or it is over.
LEMMA NightGoesOn ==
  ASSUME NightTypes, night.groups # <<>>, night' = [night EXCEPT !.groups = Tail(night.groups)] \/ Aborted
  PROVE  night' \in [phase : {"none", "propose", "consolidate"}, roles : SUBSET {"Intuition", "Ethics"},
                     groups : Seq(SUBSET DOMAIN memories)]
<1>1. CASE night' = [night EXCEPT !.groups = Tail(night.groups)]
  <2>1. night.groups \in Seq(SUBSET DOMAIN memories)
    BY DEF NightTypes
  <2>2. Tail(night.groups) \in Seq(SUBSET DOMAIN memories)
    BY <2>1, HeadTailProperties
  <2> QED
    BY <1>1, <2>2 DEF NightTypes
<1>2. CASE Aborted
  <2>1. <<>> \in Seq(SUBSET DOMAIN memories)
    OBVIOUS
  <2> QED
    BY <1>2, <2>1 DEF Aborted, Awake
<1> QED
  BY <1>1, <1>2

\* The first group is of memories.
LEMMA TheGroupIsOfMemories ==
  ASSUME NightTypes, night.groups # <<>>
  PROVE  Head(night.groups) \subseteq DOMAIN memories /\ Head(night.groups) \subseteq Ids
<1>1. night.groups \in Seq(SUBSET DOMAIN memories)
  BY DEF NightTypes
<1>2. Head(night.groups) \in SUBSET DOMAIN memories
  BY <1>1, HeadTailProperties
<1> QED
  BY <1>2 DEF NightTypes

LEMMA ReviewInv ==
  ASSUME NightInv, night.groups # <<>>, Review(Head(night.groups))
  PROVE  NightInv'
<1> DEFINE group == Head(night.groups)
<1>0. NightTypes
  BY DEF NightInv
<1>1. group \subseteq Ids
  BY <1>0, TheGroupIsOfMemories
<1> HIDE DEF group
<1>2. /\ index' = [index EXCEPT !.reviewed = index.reviewed \union {group}]
      /\ UNCHANGED <<memories, links, order>> /\ pending' \in {pending, {}}
      /\ \/ /\ karma' = [karma EXCEPT !.reviewed = IF group \in index.reviewed THEN @ ELSE @ \union {group}]
            /\ night' = [night EXCEPT !.groups = Tail(night.groups)]
            /\ UNCHANGED left
         \/ Refused /\ Aborted /\ UNCHANGED karma
  BY DEF Review, Aborted, group
<1>3. /\ index' \in [clusters : SUBSET SUBSET Ids, member : Memberships, reviewed : SUBSET SUBSET Ids]
      /\ index'.member = index.member /\ index'.clusters = index.clusters
  <2>1. index.reviewed \union {group} \in SUBSET SUBSET Ids
    BY <1>0, <1>1 DEF NightTypes
  <2> QED
    BY <1>0, <1>2, <2>1 DEF NightTypes
<1>4. /\ karma' \in [deepened : [Ids -> Nat], released : SUBSET Decisions, reviewed : SUBSET SUBSET Ids]
      /\ karma'.released = karma.released /\ karma'.deepened = karma.deepened
  <2>1. karma.reviewed \in SUBSET SUBSET Ids /\ karma.reviewed \union {group} \in SUBSET SUBSET Ids
    BY <1>0, <1>1 DEF NightTypes
  <2> QED
    BY <1>0, <1>2, <2>1 DEF NightTypes
<1>5. /\ left' \in Allowances /\ left'.refusals <= left'.sink
      /\ RefusedSoFar(left') \in Nat /\ RefusedSoFar(left) <= RefusedSoFar(left')
  <2>1. CASE UNCHANGED left
    BY <1>0, <2>1, RefusedTypes DEF NightTypes
  <2>2. CASE Refused
    BY <1>0, <2>2, RefusedCounts, RefusedTypes
  <2> QED
    BY <1>2, <2>1, <2>2
<1>6. NightTypes'
  <2>1. night' \in [phase : {"none", "propose", "consolidate"}, roles : SUBSET {"Intuition", "Ethics"},
                    groups : Seq(SUBSET DOMAIN memories)]
    BY <1>0, <1>2, NightGoesOn
  <2> QED
    BY <1>0, <1>2, <1>3, <1>4, <1>5, <2>1 DEF NightTypes
<1>7. ReleasesInv' /\ DepthInv' /\ MembershipInv'
  BY <1>2, <1>3, <1>4, <1>5, QuietStep
<1> QED
  BY <1>6, <1>7 DEF NightInv

\* What a new cluster does to the memories.
LEMMA DeepenedIsTyped ==
  ASSUME NightTypes, NEW group, group \subseteq DOMAIN memories
  PROVE  /\ Deepened(group) \in [DOMAIN memories -> Records]
         /\ \A i \in DOMAIN memories :
               /\ Deepened(group)[i].state = memories[i].state
               /\ Deepened(group)[i].depth = memories[i].depth + (IF i \in NewlyJoined(group) THEN 1 ELSE 0)
<1>1. \A i \in DOMAIN memories : memories[i] \in Records
  BY DEF NightTypes
<1>2. \A m \in Records : LET d == [m EXCEPT !.depth = @ + 1]
                         IN  d \in Records /\ d.state = m.state /\ d.depth = m.depth + 1
  BY DEF Records
<1>3. \A m \in Records : m.depth = m.depth + 0
  BY DEF Records
<1> QED
  BY <1>1, <1>2, <1>3 DEF Deepened

\* Old members of a group were of clusters inside it, which go; and members
\* outside it keep a cluster that stays.
LEMMA NoNewDangling ==
  ASSUME NightInv, NEW group, group \subseteq DOMAIN memories,
         index'.member = Membership(group), NEW added, added \subseteq {group},
         index'.clusters = (index.clusters \ Superseded(group)) \union added
  PROVE  /\ Dangling' \subseteq Dangling \union ({group} \ added)
         /\ index'.member \in Memberships /\ DOMAIN index'.member \subseteq DOMAIN memories
         /\ \A i \in DOMAIN index'.member : i \in index'.member[i]
<1>0. NightTypes /\ MembershipInv /\ group \subseteq Ids
  BY DEF NightInv, NightTypes
<1>1. PICK S \in SUBSET Ids : index.member \in [S -> SUBSET Ids]
  BY <1>0 DEF NightTypes, Memberships
<1>2. /\ DOMAIN index'.member = DOMAIN index.member \union group
      /\ \A i \in DOMAIN index'.member : index'.member[i] = IF i \in group THEN group ELSE index.member[i]
  BY DEF Membership
<1>3. index'.member \in [S \union group -> SUBSET Ids]
  BY <1>0, <1>1, <1>2 DEF Membership
<1>4. index'.member \in Memberships
  BY <1>0, <1>3 DEF Memberships
<1>5. DOMAIN index'.member \subseteq DOMAIN memories
  BY <1>0, <1>2 DEF NightTypes
<1>6. \A i \in DOMAIN index'.member : i \in index'.member[i]
  BY <1>0, <1>2 DEF MembershipInv
<1>7. Dangling' \subseteq Dangling \union ({group} \ added)
  <2> SUFFICES ASSUME NEW c \in Dangling' PROVE c \in Dangling \union ({group} \ added)
    OBVIOUS
  <2>1. PICK i \in DOMAIN index'.member : c = index'.member[i] /\ c \notin index'.clusters
    BY DEF Dangling
  <2>2. CASE i \in group
    BY <1>2, <2>1, <2>2
  <2>3. CASE i \notin group
    <3>1. i \in DOMAIN index.member /\ c = index.member[i] /\ i \in c
      BY <1>0, <1>2, <2>1, <2>3 DEF MembershipInv
    <3>2. c \notin Superseded(group)
      BY <2>3, <3>1 DEF Superseded
    <3>3. c \notin index.clusters
      BY <2>1, <3>2
    <3> QED
      BY <3>1, <3>3 DEF Dangling
  <2> QED
    BY <2>2, <2>3
<1> QED
  BY <1>4, <1>5, <1>6, <1>7
LEMMA BuildInv ==
  ASSUME NightInv, night.groups # <<>>, Build(Head(night.groups))
  PROVE  NightInv'
<1> DEFINE group == Head(night.groups)
<1> DEFINE joined == NewlyJoined(group)
<1>0. NightTypes /\ ReleasesInv /\ DepthInv /\ MembershipInv
  BY DEF NightInv
<1>1. group \subseteq DOMAIN memories /\ group \subseteq Ids
  BY <1>0, TheGroupIsOfMemories
<1> HIDE DEF group
<1>2. joined \subseteq group
  BY DEF NewlyJoined
<1>3. memories' = Deepened(group) /\ order' = order /\ pending' \in {pending, {}}
  BY DEF Build, Aborted, group
<1>4. PICK added \in SUBSET {group} :
        /\ index' = [index EXCEPT !.member = Membership(group),
                                 !.clusters = (index.clusters \ Superseded(group)) \union added]
        /\ \/ /\ added = {group}
              /\ karma' = [karma EXCEPT !.deepened = [i \in Ids |-> IF i \in joined THEN karma.deepened[i] + 1 ELSE karma.deepened[i]]]
              /\ night' = [night EXCEPT !.groups = Tail(night.groups)]
              /\ UNCHANGED left
           \/ Refused /\ Aborted /\ UNCHANGED karma
  <2> DEFINE after(a) == [index EXCEPT !.member = Membership(group),
                                       !.clusters = (index.clusters \ Superseded(group)) \union a]
  <2>1. (index.clusters \ Superseded(group)) \union {} = index.clusters \ Superseded(group)
    OBVIOUS
  <2>2. \/ /\ index' = after({group})
           /\ karma' = [karma EXCEPT !.deepened = [i \in Ids |-> IF i \in joined THEN karma.deepened[i] + 1 ELSE karma.deepened[i]]]
           /\ night' = [night EXCEPT !.groups = Tail(night.groups)]
           /\ UNCHANGED left
        \/ index' = after({}) /\ Refused /\ Aborted /\ UNCHANGED karma
    BY <2>1, Zenon DEF Build, group
  <2> SUFFICES \E added \in SUBSET {group} :
        /\ index' = after(added)
        /\ \/ /\ added = {group}
              /\ karma' = [karma EXCEPT !.deepened = [i \in Ids |-> IF i \in joined THEN karma.deepened[i] + 1 ELSE karma.deepened[i]]]
              /\ night' = [night EXCEPT !.groups = Tail(night.groups)]
              /\ UNCHANGED left
           \/ Refused /\ Aborted /\ UNCHANGED karma
    BY Zenon
  <2> HIDE DEF after, joined
  <2>3. {} \in SUBSET {group} /\ {group} \in SUBSET {group}
    OBVIOUS
  <2> QED
    BY <2>2, <2>3, Zenon
<1> HIDE DEF joined
<1>5. /\ index'.member = Membership(group) /\ index'.reviewed = index.reviewed
      /\ index'.clusters = (index.clusters \ Superseded(group)) \union added
  BY <1>0, <1>4 DEF NightTypes
<1>6. /\ Dangling' \subseteq Dangling \union ({group} \ added)
      /\ index'.member \in Memberships /\ DOMAIN index'.member \subseteq DOMAIN memories
      /\ \A i \in DOMAIN index'.member : i \in index'.member[i]
  BY <1>1, <1>5, NoNewDangling
<1>7. /\ memories' \in [DOMAIN memories -> Records]
      /\ \A i \in DOMAIN memories :
            /\ memories'[i].state = memories[i].state
            /\ memories'[i].depth = memories[i].depth + (IF i \in joined THEN 1 ELSE 0)
  BY <1>0, <1>1, <1>3, DeepenedIsTyped DEF joined
<1>8. DOMAIN memories' = DOMAIN memories
  BY <1>7
<1>9. /\ left' \in Allowances /\ left'.refusals <= left'.sink
      /\ RefusedSoFar(left') \in Nat /\ RefusedSoFar(left) <= RefusedSoFar(left')
      /\ RefusedSoFar(left') = RefusedSoFar(left) + (IF added = {group} /\ UNCHANGED left THEN 0 ELSE 1)
  <2>1. RefusedSoFar(left) \in Nat
    BY <1>0, RefusedTypes
  <2>2. CASE added = {group} /\ UNCHANGED left
    BY <1>0, <2>1, <2>2 DEF NightTypes
  <2>3. CASE Refused /\ ~(added = {group} /\ UNCHANGED left)
    BY <1>0, <2>1, <2>3, RefusedCounts
  <2> QED
    BY <1>4, <2>2, <2>3
<1>10. /\ karma' \in [deepened : [Ids -> Nat], released : SUBSET Decisions, reviewed : SUBSET SUBSET Ids]
       /\ karma'.released = karma.released
       /\ \A i \in Ids : karma'.deepened[i] =
              karma.deepened[i] + (IF i \in joined /\ RefusedSoFar(left') = RefusedSoFar(left) THEN 1 ELSE 0)
  <2>1. karma.deepened \in [Ids -> Nat] /\ RefusedSoFar(left) \in Nat
    BY <1>0, RefusedTypes DEF NightTypes
  <2>2. CASE /\ karma' = [karma EXCEPT !.deepened = [i \in Ids |-> IF i \in joined THEN karma.deepened[i] + 1 ELSE karma.deepened[i]]]
             /\ UNCHANGED left
    <3> DEFINE d == [i \in Ids |-> IF i \in joined THEN karma.deepened[i] + 1 ELSE karma.deepened[i]]
    <3>1. d \in [Ids -> Nat] /\ \A i \in Ids : d[i] = karma.deepened[i] + (IF i \in joined THEN 1 ELSE 0)
      BY <2>1
    <3> HIDE DEF d
    <3>2. karma' = [karma EXCEPT !.deepened = d]
      BY <2>2 DEF d
    <3>3. karma'.deepened = d /\ karma'.released = karma.released
          /\ karma' \in [deepened : [Ids -> Nat], released : SUBSET Decisions, reviewed : SUBSET SUBSET Ids]
      BY <1>0, <3>1, <3>2 DEF NightTypes
    <3>4. RefusedSoFar(left') = RefusedSoFar(left)
      BY <2>2
    <3> QED
      BY <3>1, <3>3, <3>4
  <2>3. CASE Refused /\ UNCHANGED karma
    <3>1. RefusedSoFar(left') # RefusedSoFar(left)
      BY <1>0, <2>1, <2>3, RefusedCounts
    <3> QED
      BY <1>0, <2>1, <2>3, <3>1 DEF NightTypes
  <2> QED
    BY <1>4, <2>2, <2>3
<1>11. NightTypes'
  <2>1. night' \in [phase : {"none", "propose", "consolidate"}, roles : SUBSET {"Intuition", "Ethics"},
                    groups : Seq(SUBSET DOMAIN memories)]
    BY <1>0, <1>4, NightGoesOn
  <2>2. index' \in [clusters : SUBSET SUBSET Ids, member : Memberships, reviewed : SUBSET SUBSET Ids]
    <3>1. Membership(group) \in Memberships
      BY <1>5, <1>6
    <3>2. (index.clusters \ Superseded(group)) \union added \in SUBSET SUBSET Ids
      BY <1>0, <1>1 DEF NightTypes
    <3> QED
      BY <1>0, <1>4, <3>1, <3>2 DEF NightTypes
  <2> QED
    BY <1>0, <1>3, <1>6, <1>7, <1>8, <1>9, <1>10, <2>1, <2>2 DEF NightTypes
<1>12. ReleasesInv'
  <2>1. Unlogged' = Unlogged
    BY <1>7, <1>8, <1>10 DEF Unlogged
  <2>2. Cardinality(Unlogged) \in Nat /\ RefusedSoFar(left) \in Nat
    BY <1>0, UnloggedIsFinite, FS_CardinalityType, RefusedTypes
  <2>3. Cardinality(Unlogged') <= RefusedSoFar(left')
    BY <1>0, <1>9, <2>1, <2>2 DEF ReleasesInv
  <2> QED
    BY <1>0, <1>7, <1>8, <1>10, <2>3 DEF ReleasesInv
<1>13. DepthInv'
  <2>1. RefusedSoFar(left) \in Nat
    BY <1>0, RefusedTypes
  <2>2. ASSUME NEW i \in DOMAIN memories
        PROVE  /\ memories'[i].depth >= karma'.deepened[i]
               /\ memories'[i].depth <= karma'.deepened[i] + RefusedSoFar(left')
    <3>1. memories[i].depth \in Nat /\ karma.deepened[i] \in Nat /\ i \in Ids
      BY <1>0 DEF NightTypes, Records
    <3>2. /\ memories[i].depth >= karma.deepened[i]
          /\ memories[i].depth <= karma.deepened[i] + RefusedSoFar(left)
      BY <1>0 DEF DepthInv, DepthIsLogged
    <3>3. RefusedSoFar(left') \in {RefusedSoFar(left), RefusedSoFar(left) + 1}
      BY <1>9
    <3>4. memories'[i].depth = memories[i].depth + (IF i \in joined THEN 1 ELSE 0)
      BY <1>7
    <3>5. karma'.deepened[i] =
              karma.deepened[i] + (IF i \in joined /\ RefusedSoFar(left') = RefusedSoFar(left) THEN 1 ELSE 0)
      BY <1>10, <3>1
    <3> QED
      BY <2>1, <3>1, <3>2, <3>3, <3>4, <3>5
  <2>3. \A i \in Ids \ DOMAIN memories' : karma'.deepened[i] = 0
    BY <1>0, <1>1, <1>2, <1>8, <1>10 DEF DepthInv
  <2> QED
    BY <1>8, <2>2, <2>3 DEF DepthInv, DepthIsLogged
<1>14. MembershipInv'
  <2>1. IsFiniteSet(Dangling) /\ Cardinality(Dangling) \in Nat /\ RefusedSoFar(left) \in Nat
    BY <1>0, DanglingIsFinite, FS_CardinalityType, RefusedTypes
  <2>2. Cardinality(Dangling) <= RefusedSoFar(left)
    BY <1>0 DEF MembershipInv
  <2>3. CASE added = {group} /\ UNCHANGED left
    <3>1. Dangling' \subseteq Dangling
      BY <1>6, <2>3
    <3>2. Cardinality(Dangling') <= Cardinality(Dangling) /\ Cardinality(Dangling') \in Nat
      BY <2>1, <3>1, FS_Subset, FS_CardinalityType
    <3>3. Cardinality(Dangling') <= RefusedSoFar(left')
      BY <1>9, <2>1, <2>2, <2>3, <3>2
    <3> QED
      BY <1>6, <3>3 DEF MembershipInv
  <2>4. CASE ~(added = {group} /\ UNCHANGED left)
    <3>1. Dangling' \subseteq Dangling \union {group}
      BY <1>6
    <3>2. IsFiniteSet(Dangling \union {group}) /\ Cardinality(Dangling \union {group}) <= Cardinality(Dangling) + 1
          /\ Cardinality(Dangling \union {group}) \in Nat
      <4>1. IsFiniteSet(Dangling \union {group})
            /\ Cardinality(Dangling \union {group}) =
                 IF group \in Dangling THEN Cardinality(Dangling) ELSE Cardinality(Dangling) + 1
        BY <2>1, FS_AddElement
      <4> QED
        BY <2>1, <4>1
    <3>3. Cardinality(Dangling') <= Cardinality(Dangling \union {group}) /\ Cardinality(Dangling') \in Nat
      BY <3>1, <3>2, FS_Subset, FS_CardinalityType
    <3>4. Cardinality(Dangling') <= RefusedSoFar(left')
      BY <1>9, <2>1, <2>2, <2>4, <3>2, <3>3
    <3> QED
      BY <1>6, <3>4 DEF MembershipInv
  <2> QED
    BY <2>3, <2>4
<1> QED
  BY <1>11, <1>12, <1>13, <1>14 DEF NightInv

LEMMA FinishInv ==
  ASSUME NightInv, Finish
  PROVE  NightInv'
<1>0. NightTypes
  BY DEF NightInv
<1>1. /\ memories' = memories \/ \E i \in Promotable : memories' = [memories EXCEPT ![i].keystone = TRUE]
      /\ night' = Awake
      /\ UNCHANGED <<index, karma, pending, order, left>>
  BY DEF Finish
<1>2. /\ DOMAIN memories' = DOMAIN memories /\ memories' \in [DOMAIN memories -> Records]
      /\ \A i \in DOMAIN memories : memories'[i].state = memories[i].state /\ memories'[i].depth = memories[i].depth
  <2>1. CASE memories' = memories
    BY <1>0, <2>1 DEF NightTypes
  <2>2. ASSUME NEW k \in Promotable, memories' = [memories EXCEPT ![k].keystone = TRUE]
        PROVE  <1>2!:
    <3>1. \A i \in DOMAIN memories : memories[i] \in Records
      BY <1>0 DEF NightTypes
    <3>2. \A m \in Records : LET d == [m EXCEPT !.keystone = TRUE]
                             IN  d \in Records /\ d.state = m.state /\ d.depth = m.depth
      BY DEF Records
    <3>3. \A i \in DOMAIN memories : memories'[i] = IF i = k THEN [memories[i] EXCEPT !.keystone = TRUE] ELSE memories[i]
      BY <2>2
    <3> QED
      BY <2>2, <3>1, <3>2, <3>3
  <2> QED
    BY <1>1, <2>1, <2>2
<1>3. night' \in [phase : {"none", "propose", "consolidate"}, roles : SUBSET {"Intuition", "Ethics"},
                  groups : Seq(SUBSET DOMAIN memories)]
  <2>1. <<>> \in Seq(SUBSET DOMAIN memories)
    OBVIOUS
  <2> QED
    BY <1>1, <2>1 DEF Awake
<1>4. NightTypes'
  BY <1>0, <1>1, <1>2, <1>3 DEF NightTypes
<1>5. RefusedSoFar(left') \in Nat /\ RefusedSoFar(left) <= RefusedSoFar(left')
  BY <1>0, <1>1, RefusedTypes
<1>6. ReleasesInv' /\ DepthInv' /\ MembershipInv'
  BY <1>1, <1>2, <1>5, QuietStep
<1> QED
  BY <1>4, <1>6 DEF NightInv
\* A decision that applies moves the state of its memory, away from Active.
LEMMA AppliedStates ==
  ASSUME NightTypes, NEW d \in Decisions, Applicable(d),
         memories' = [memories EXCEPT ![d.id].state = IF d.kind = "upekkha" THEN "Forgiven" ELSE "Archived"]
  PROVE  /\ DOMAIN memories' = DOMAIN memories /\ memories' \in [DOMAIN memories -> Records]
         /\ \A i \in DOMAIN memories :
               /\ memories'[i].depth = memories[i].depth
               /\ i # d.id => memories'[i].state = memories[i].state
         /\ d.id \in DOMAIN memories /\ memories'[d.id].state # "Active"
         /\ d.kind # "upekkha" => memories[d.id].state # "Active"
<1> DEFINE new == IF d.kind = "upekkha" THEN "Forgiven" ELSE "Archived"
<1>1. d.id \in DOMAIN memories /\ \A i \in DOMAIN memories : memories[i] \in Records
  BY DEF NightTypes, Applicable
<1>2. new \in {"Forgiven", "Archived"}
  OBVIOUS
<1>3. memories' = [memories EXCEPT ![d.id].state = new]
  OBVIOUS
<1> HIDE DEF new
<1>4. \A m \in Records : LET r == [m EXCEPT !.state = new]
                         IN  r \in Records /\ r.state = new /\ r.depth = m.depth
  BY <1>2 DEF Records
<1>5. DOMAIN memories' = DOMAIN memories
      /\ \A i \in DOMAIN memories : memories'[i] = IF i = d.id THEN [memories[i] EXCEPT !.state = new] ELSE memories[i]
  BY <1>3
<1>6. d.kind # "upekkha" => memories[d.id].state # "Active"
  BY DEF Applicable
<1>7. memories' \in [DOMAIN memories -> Records]
  <2>1. memories \in [DOMAIN memories -> Records]
    BY DEF NightTypes
  <2>2. \A i \in DOMAIN memories : memories'[i] \in Records
    BY <1>1, <1>4, <1>5
  <2> QED
    BY <1>3, <1>5, <2>1, <2>2
<1>8. memories'[d.id].state # "Active"
  <2>1. memories'[d.id] = [memories[d.id] EXCEPT !.state = new] /\ memories[d.id] \in Records
    BY <1>1, <1>5
  <2>2. memories'[d.id].state = new
    BY <1>4, <2>1
  <2> QED
    BY <1>2, <2>2
<1>9. \A i \in DOMAIN memories :
        /\ memories'[i].depth = memories[i].depth
        /\ i # d.id => memories'[i].state = memories[i].state
  BY <1>1, <1>4, <1>5
<1> QED
  BY <1>1, <1>5, <1>6, <1>7, <1>8, <1>9

LEMMA ApplyInv ==
  ASSUME NightInv, NEW d \in Decisions, Apply(d)
  PROVE  NightInv'
<1>0. NightTypes /\ ReleasesInv /\ DepthInv /\ MembershipInv
  BY DEF NightInv
<1>1. UNCHANGED <<links, index, pending, night, order>>
  BY DEF Apply
<1>2. CASE ~Applicable(d)
  <2>1. memories' = memories /\ UNCHANGED left
    BY <1>2 DEF Apply
  <2>2. karma' = [karma EXCEPT !.released = karma.released]
    BY <1>2 DEF Apply
  <2>3. karma' = karma
    BY <1>0, <2>2 DEF NightTypes
  <2>4. NightTypes'
    BY <1>0, <1>1, <2>1, <2>3 DEF NightTypes
  <2>5. RefusedSoFar(left') \in Nat /\ RefusedSoFar(left) <= RefusedSoFar(left')
    BY <1>0, <2>1, RefusedTypes
  <2>6. ReleasesInv' /\ DepthInv' /\ MembershipInv'
    BY <1>1, <2>1, <2>3, <2>5, QuietStep
  <2> QED
    BY <2>4, <2>6 DEF NightInv
<1>3. CASE Applicable(d)
  <2>1. memories' = [memories EXCEPT ![d.id].state = IF d.kind = "upekkha" THEN "Forgiven" ELSE "Archived"]
    BY <1>3 DEF Apply
  <2>2. \/ karma' = [karma EXCEPT !.released = karma.released \union {d}] /\ UNCHANGED left
        \/ Refused /\ UNCHANGED karma
    BY <1>3 DEF Apply
  <2>3. /\ DOMAIN memories' = DOMAIN memories /\ memories' \in [DOMAIN memories -> Records]
        /\ \A i \in DOMAIN memories :
              /\ memories'[i].depth = memories[i].depth
              /\ i # d.id => memories'[i].state = memories[i].state
        /\ d.id \in DOMAIN memories /\ memories'[d.id].state # "Active"
        /\ d.kind # "upekkha" => memories[d.id].state # "Active"
    BY <1>0, <1>3, <2>1, AppliedStates
  <2>4. /\ left' \in Allowances /\ left'.refusals <= left'.sink
        /\ RefusedSoFar(left') \in Nat /\ RefusedSoFar(left) \in Nat /\ RefusedSoFar(left) <= RefusedSoFar(left')
    <3>1. CASE UNCHANGED left
      BY <1>0, <3>1, RefusedTypes DEF NightTypes
    <3>2. CASE Refused
      BY <1>0, <3>2, RefusedCounts, RefusedTypes
    <3> QED
      BY <2>2, <3>1, <3>2
  <2>5. PICK added \in SUBSET {d} :
          /\ karma'.released = karma.released \union added /\ karma'.deepened = karma.deepened
          /\ karma' \in [deepened : [Ids -> Nat], released : SUBSET Decisions, reviewed : SUBSET SUBSET Ids]
          /\ added = {d} \/ RefusedSoFar(left') = RefusedSoFar(left) + 1
    <3>1. CASE karma' = [karma EXCEPT !.released = karma.released \union {d}]
      <4>1. karma.released \union {d} \in SUBSET Decisions
        BY <1>0 DEF NightTypes
      <4>2. /\ karma'.released = karma.released \union {d} /\ karma'.deepened = karma.deepened
            /\ karma' \in [deepened : [Ids -> Nat], released : SUBSET Decisions, reviewed : SUBSET SUBSET Ids]
        BY <1>0, <3>1, <4>1 DEF NightTypes
      <4>3. {d} \in SUBSET {d}
        OBVIOUS
      <4> QED
        BY <4>2, <4>3, Zenon
    <3>2. CASE Refused /\ UNCHANGED karma
      <4>1. RefusedSoFar(left') = RefusedSoFar(left) + 1
        BY <1>0, <3>2, RefusedCounts
      <4>2. karma'.released = karma.released \union {} /\ karma'.deepened = karma.deepened
        BY <3>2
      <4>3. karma' \in [deepened : [Ids -> Nat], released : SUBSET Decisions, reviewed : SUBSET SUBSET Ids]
        BY <1>0, <3>2 DEF NightTypes
      <4>4. {} \in SUBSET {d}
        OBVIOUS
      <4> QED
        BY <4>1, <4>2, <4>3, <4>4, Zenon
    <3> QED
      BY <2>2, <3>1, <3>2
  <2>6. NightTypes'
    BY <1>0, <1>1, <2>3, <2>4, <2>5 DEF NightTypes
  <2>7. Unlogged' \subseteq Unlogged \union (IF added = {d} THEN {} ELSE {d.id})
    <3> SUFFICES ASSUME NEW i \in Unlogged', i \notin Unlogged
                 PROVE  i = d.id /\ added # {d}
      OBVIOUS
    <3>1. /\ i \in DOMAIN memories /\ memories'[i].state # "Active"
          /\ [id |-> i, kind |-> "upekkha"] \notin karma.released \union added
      BY <2>3, <2>5 DEF Unlogged
    <3>2. memories[i].state = "Active"
      BY <3>1 DEF Unlogged
    <3>3. i = d.id
      BY <2>3, <3>1, <3>2
    <3>4. d.kind = "upekkha"
      BY <2>3, <3>2, <3>3
    <3>5. d = [id |-> i, kind |-> "upekkha"]
      BY <3>3, <3>4 DEF Decisions
    <3> QED
      BY <3>1, <3>3, <3>5
  <2>8. ReleasesInv'
    <3>1. IsFiniteSet(Unlogged) /\ Cardinality(Unlogged) \in Nat /\ Cardinality(Unlogged) <= RefusedSoFar(left)
      BY <1>0, UnloggedIsFinite, FS_CardinalityType DEF ReleasesInv
    <3>2. Cardinality(Unlogged') <= RefusedSoFar(left')
      <4>1. CASE added = {d}
        <5>1. Unlogged' \subseteq Unlogged
          BY <2>7, <4>1
        <5>2. Cardinality(Unlogged') <= Cardinality(Unlogged) /\ Cardinality(Unlogged') \in Nat
          BY <3>1, <5>1, FS_Subset, FS_CardinalityType
        <5> QED
          BY <2>4, <3>1, <5>2
      <4>2. CASE added # {d}
        <5> DEFINE more == Unlogged \union {d.id}
        <5>1. IsFiniteSet(more)
              /\ Cardinality(more) = IF d.id \in Unlogged THEN Cardinality(Unlogged) ELSE Cardinality(Unlogged) + 1
          BY <3>1, FS_AddElement
        <5>2. Unlogged' \subseteq more
          BY <2>7, <4>2
        <5> HIDE DEF more
        <5>3. Cardinality(Unlogged') <= Cardinality(more) /\ Cardinality(Unlogged') \in Nat
          BY <5>1, <5>2, FS_Subset, FS_CardinalityType
        <5>4. RefusedSoFar(left') = RefusedSoFar(left) + 1
          BY <2>5, <4>2
        <5> QED
          BY <2>4, <3>1, <5>1, <5>3, <5>4
      <4> QED
        BY <4>1, <4>2
    <3>3. \A e \in karma'.released : e.id \in DOMAIN memories' /\ memories'[e.id].state # "Active"
      <4> TAKE e \in karma'.released
      <4>1. CASE e.id = d.id
        BY <2>3, <4>1
      <4>2. CASE e.id # d.id
        BY <1>0, <2>3, <2>5, <4>2 DEF ReleasesInv
      <4> QED
        BY <4>1, <4>2
    <3> QED
      BY <3>2, <3>3 DEF ReleasesInv
  <2>9. DepthInv'
    <3>1. \A i \in DOMAIN memories : memories[i].depth \in Nat /\ karma.deepened[i] \in Nat
      BY <1>0 DEF NightTypes, Records
    <3> QED
      BY <1>0, <2>3, <2>4, <2>5, <3>1 DEF DepthInv, DepthIsLogged
  <2>10. MembershipInv'
    <3>1. Dangling' = Dangling /\ index' = index
      BY <1>1 DEF Dangling
    <3>2. Cardinality(Dangling) \in Nat
      BY <1>0, DanglingIsFinite, FS_CardinalityType
    <3>3. Cardinality(Dangling') <= RefusedSoFar(left')
      BY <1>0, <2>4, <3>1, <3>2 DEF MembershipInv
    <3> QED
      BY <1>0, <3>1, <3>3 DEF MembershipInv
  <2> QED
    BY <2>6, <2>8, <2>9, <2>10 DEF NightInv
<1> QED
  BY <1>2, <1>3

LEMMA LearnInv ==
  ASSUME NightInv, NEW i \in Ids, Learn(i)
  PROVE  NightInv'
<1>0. NightTypes /\ ReleasesInv /\ DepthInv /\ MembershipInv
  BY DEF NightInv
<1>1. /\ i \notin DOMAIN memories
      /\ memories' = [j \in DOMAIN memories \union {i} |-> IF j = i THEN NewMemory ELSE memories[j]]
      /\ order' \in Orders
      /\ UNCHANGED <<links, index, karma, pending, night, left>>
  BY DEF Learn
<1>2. NewMemory \in Records /\ NewMemory.state = "Active" /\ NewMemory.depth = 0
  BY DEF NewMemory, Records
<1>3. /\ DOMAIN memories' = DOMAIN memories \union {i}
      /\ \A j \in DOMAIN memories : memories'[j] = memories[j]
      /\ memories'[i] = NewMemory
  BY <1>1
<1>4. memories' \in [DOMAIN memories' -> Records] /\ DOMAIN memories' \subseteq Ids
  BY <1>0, <1>1, <1>2 DEF NightTypes
<1>5. NightTypes'
  <2>1. night \in [phase : {"none", "propose", "consolidate"}, roles : SUBSET {"Intuition", "Ethics"},
                   groups : Seq(SUBSET DOMAIN memories')]
    <3>1. night.groups \in Seq(SUBSET DOMAIN memories) /\ SUBSET DOMAIN memories \subseteq SUBSET DOMAIN memories'
      BY <1>0, <1>3 DEF NightTypes
    <3>2. night.groups \in Seq(SUBSET DOMAIN memories')
      BY <3>1
    <3> QED
      BY <1>0, <3>2 DEF NightTypes
  <2>2. order' \in Seq(Ids)
    BY <1>1, NightAssumption
  <2> QED
    BY <1>0, <1>1, <1>3, <1>4, <2>1, <2>2 DEF NightTypes
<1>6. ReleasesInv'
  <2>1. Unlogged' = Unlogged
    BY <1>1, <1>2, <1>3 DEF Unlogged
  <2> QED
    BY <1>0, <1>1, <1>3, <2>1 DEF ReleasesInv
<1>7. DepthInv'
  <2>1. karma.deepened[i] = 0 /\ RefusedSoFar(left) \in Nat
    BY <1>0, <1>1, RefusedTypes DEF DepthInv
  <2> QED
    BY <1>0, <1>1, <1>2, <1>3, <2>1 DEF DepthInv, DepthIsLogged
<1>8. MembershipInv'
  BY <1>0, <1>1 DEF MembershipInv, Dangling
<1> QED
  BY <1>5, <1>6, <1>7, <1>8 DEF NightInv

LEMMA ReloadInv ==
  ASSUME NightInv, Reload
  PROVE  NightInv'
<1>0. NightTypes
  BY DEF NightInv
<1>1. /\ left.reloads > 0 /\ left' = [left EXCEPT !.reloads = left.reloads - 1]
      /\ order' \in Orders /\ UNCHANGED <<memories, links, index, karma, pending, night>>
  BY DEF Reload
<1>2. left \in Allowances /\ left.reloads \in Nat /\ left.reloads - 1 \in Nat
  BY <1>0, <1>1 DEF NightTypes, Allowances
<1>3. left' \in Allowances /\ left'.refusals = left.refusals /\ left'.sink = left.sink
  BY <1>1, <1>2 DEF Allowances
<1>4. order' \in Seq(Ids)
  BY <1>1, NightAssumption
<1>5. NightTypes'
  BY <1>0, <1>1, <1>3, <1>4 DEF NightTypes
<1>6. RefusedSoFar(left') \in Nat /\ RefusedSoFar(left) <= RefusedSoFar(left')
  BY <1>0, <1>3, RefusedTypes DEF RefusedSoFar
<1>7. ReleasesInv' /\ DepthInv' /\ MembershipInv'
  BY <1>1, <1>6, QuietStep
<1> QED
  BY <1>5, <1>7 DEF NightInv

LEMMA NightStepInv ==
  ASSUME NightInv, [NightNext]_nightVars
  PROVE  NightInv'
<1>0. NightTypes
  BY DEF NightInv
<1>1. CASE StartNight
  BY <1>1, StartNightInv
<1>2. CASE Propose
  BY <1>2, ProposeInv
<1>3. CASE Known
  BY <1>3, KnownInv
<1>4. CASE Consolidate
  <2>1. night.groups # <<>> /\ (Build(Head(night.groups)) \/ Review(Head(night.groups)))
    BY <1>4 DEF Consolidate
  <2> QED
    BY <2>1, BuildInv, ReviewInv
<1>5. CASE Finish
  BY <1>5, FinishInv
<1>6. CASE \E d \in Decisions : Apply(d)
  BY <1>6, ApplyInv
<1>7. CASE \E i \in Ids : Learn(i)
  BY <1>7, LearnInv
<1>8. CASE Reload
  BY <1>8, ReloadInv
<1>9. CASE (\E p \in Pairs(Ids) : Tie(p)) \/ UNCHANGED nightVars
  <2>1. UNCHANGED <<memories, index, karma, pending, night, order, left>>
    BY <1>9 DEF Tie, nightVars
  <2>2. NightTypes'
    BY <1>0, <2>1 DEF NightTypes
  <2>3. RefusedSoFar(left') \in Nat /\ RefusedSoFar(left) <= RefusedSoFar(left')
    BY <1>0, <2>1, RefusedTypes
  <2>4. ReleasesInv' /\ DepthInv' /\ MembershipInv'
    BY <2>1, <2>3, QuietStep
  <2> QED
    BY <2>2, <2>4 DEF NightInv
<1> QED
  BY <1>1, <1>2, <1>3, <1>4, <1>5, <1>6, <1>7, <1>8, <1>9 DEF NightNext, Phase

LEMMA NightInvSuffices ==
  ASSUME NightInv
  PROVE  NightIsLogged
<1>1. NightTypes /\ ReleasesInv /\ DepthInv /\ MembershipInv
  BY DEF NightInv
<1>2. NightTypeOK
  BY <1>1 DEF NightTypes, NightTypeOK, Records
<1>3. ReleasesAreLogged
  BY <1>1 DEF ReleasesInv, ReleasesAreLogged, Unlogged
<1>4. DepthIsLogged
  BY <1>1 DEF DepthInv
<1>5. MembershipResolves
  BY <1>1 DEF MembershipInv, MembershipResolves, Dangling
<1> QED
  BY <1>2, <1>3, <1>4, <1>5 DEF NightIsLogged

\* Whatever the memories, their likeness, the order the store yields them in
\* and the entries the sink refuses: the states, depths and clusters that the
\* nights and decisions leave are those the log tells of, but for one per
\* refused entry.
THEOREM NightsStayLogged == NightSpec => []NightIsLogged
<1>1. NightInit => NightInv
  BY NightInitInv
<1>2. NightInv /\ [NightNext]_nightVars => NightInv'
  BY NightStepInv
<1>3. NightInv => NightIsLogged
  BY NightInvSuffices
<1> QED
  BY <1>1, <1>2, <1>3, PTL DEF NightSpec

\* An anchor is never drawn into a cluster.
THEOREM AnchorsKeepApart == NightSpec => AnchorsStayApart
<1> DEFINE Apart == \A i \in DOMAIN memories : memories[i].keystone => memories'[i].depth = memories[i].depth
<1>1. ASSUME NightInv, [NightNext]_nightVars
      PROVE  Apart
  <2>0. NightTypes /\ \A i \in DOMAIN memories : memories[i] \in Records
    BY <1>1 DEF NightInv, NightTypes
  <2>1. CASE StartNight
    <3>1. PICK sel : memories' = [i \in DOMAIN memories |-> IF i \in sel THEN Ticked(memories[i]) ELSE memories[i]]
      BY <2>1 DEF StartNight
    <3>2. \A m \in Records : Ticked(m).depth = m.depth
      BY DEF Ticked, Records
    <3> QED
      BY <2>0, <3>1, <3>2
  <2>2. CASE Consolidate /\ \E verdict : Merged(Head(night.groups), verdict) /\ Build(Head(night.groups))
    <3> DEFINE group == Head(night.groups)
    <3>1. group \intersect Anchors = {} /\ memories' = Deepened(group)
      BY <2>2 DEF Merged, Build
    <3> HIDE DEF group
    <3>2. \A i \in DOMAIN memories : memories[i].keystone => i \notin NewlyJoined(group)
      BY <3>1 DEF Anchors, NewlyJoined
    <3> QED
      BY <3>1, <3>2 DEF Deepened
  <2>3. CASE Consolidate /\ Review(Head(night.groups))
    BY <2>3 DEF Review
  <2>4. CASE Finish
    <3>1. memories' = memories \/ \E i \in Promotable : memories' = [memories EXCEPT ![i].keystone = TRUE]
      BY <2>4 DEF Finish
    <3>2. \A m \in Records : [m EXCEPT !.keystone = TRUE].depth = m.depth
      BY DEF Records
    <3> QED
      BY <2>0, <3>1, <3>2
  <2>5. CASE \E d \in Decisions : Apply(d)
    <3>1. PICK d \in Decisions : Apply(d)
      BY <2>5
    <3>2. CASE Applicable(d)
      <4>1. memories' = [memories EXCEPT ![d.id].state = IF d.kind = "upekkha" THEN "Forgiven" ELSE "Archived"]
        BY <3>1, <3>2 DEF Apply
      <4> QED
        BY <2>0, <3>2, <4>1, AppliedStates
    <3>3. CASE ~Applicable(d)
      BY <3>1, <3>3 DEF Apply
    <3> QED
      BY <3>2, <3>3
  <2>6. CASE \E i \in Ids : Learn(i)
    BY <2>6 DEF Learn
  <2>7. CASE Propose
    <3>1. memories' = [i \in DOMAIN memories |-> memories[i]] \/ memories' = memories
      BY <2>7 DEF Propose, Proposed
    <3> QED
      BY <3>1
  <2>8. CASE Known \/ Reload \/ (\E p \in Pairs(Ids) : Tie(p)) \/ UNCHANGED nightVars
    BY <2>8 DEF Known, Reload, Tie, nightVars
  <2>9. Consolidate => \/ Consolidate /\ \E verdict : Merged(Head(night.groups), verdict) /\ Build(Head(night.groups))
                       \/ Consolidate /\ Review(Head(night.groups))
    BY DEF Consolidate
  <2> QED
    BY <1>1, <2>1, <2>2, <2>3, <2>4, <2>5, <2>6, <2>7, <2>8, <2>9 DEF NightNext, Phase
<1>2. NightInit => NightInv
  BY NightInitInv
<1>3. NightInv /\ [NightNext]_nightVars => NightInv'
  BY NightStepInv
<1>4. NightInv /\ [NightNext]_nightVars => [Apart]_nightVars
  BY <1>1
<1> QED
  BY <1>2, <1>3, <1>4, PTL DEF NightSpec, AnchorsStayApart

\* Nothing a night, a decision or the owner does takes an edge away or turns a
\* causal edge into another (LinksSurvive).
THEOREM LinksStay == NightSpec => LinksSurvive
<1> DEFINE Tied == \A p \in DOMAIN links :
                       p \in DOMAIN links' /\ (links[p] = "Causal" => links'[p] = "Causal")
<1>1. ASSUME NEW pairs, NEW kind, links' = Linked(pairs, kind)
      PROVE  Tied
  BY <1>1 DEF Linked
<1>2. [NightNext]_nightVars => Tied
  <2> SUFFICES ASSUME [NightNext]_nightVars PROVE Tied
    OBVIOUS
  <2>1. CASE UNCHANGED links
    BY <2>1
  <2>2. CASE \E pairs, kind : links' = Linked(pairs, kind)
    BY <1>1, <2>2
  <2>3. CASE \E p \in Pairs(Ids) : Tie(p)
    <3>1. PICK p \in Pairs(Ids) : links' = [q \in DOMAIN links \union {p} |-> IF q = p THEN "Causal" ELSE links[q]]
      BY <2>3 DEF Tie
    <3> QED
      BY <3>1
  <2>4. Consolidate => UNCHANGED links \/ \E pairs, kind : links' = Linked(pairs, kind)
    BY DEF Consolidate, Review, Build, Refused, Aborted
  <2>5. Finish => UNCHANGED links \/ \E pairs, kind : links' = Linked(pairs, kind)
    BY DEF Finish, Refused, Aborted
  <2>6. StartNight \/ Propose \/ Known \/ Reload \/ UNCHANGED nightVars => UNCHANGED links
    BY DEF StartNight, Propose, Known, Reload, Refused, Aborted, nightVars
  <2>7. (\E d \in Decisions : Apply(d)) \/ (\E i \in Ids : Learn(i)) => UNCHANGED links
    BY DEF Apply, Learn, Refused
  <2> QED
    BY <2>1, <2>2, <2>3, <2>4, <2>5, <2>6, <2>7 DEF NightNext, Phase
<1>3. [NightNext]_nightVars => [Tied]_nightVars
  BY <1>2
<1> QED
  BY <1>3, PTL DEF NightSpec, LinksSurvive

-----------------------------------------------------------------------------
(***************************************************************************)
(* The briefing (Curation)                                                 *)
(***************************************************************************)

-----------------------------------------------------------------------------
(* Ranks under a strict total order of a finite set                         *)

StrictOrder(R, I) ==
    /\ \A i \in I : <<i, i>> \notin R
    /\ \A i, j, k \in I : <<i, j>> \in R /\ <<j, k>> \in R => <<i, k>> \in R
    /\ \A i, j \in I : i # j => <<i, j>> \in R \/ <<j, i>> \in R

Before(R, I, i) == {j \in I : <<j, i>> \in R}
RankIn(R, I, i) == Cardinality(Before(R, I, i))

\* Ranks are below the size of the set, and grow along the order.
LEMMA RanksFollowTheOrder ==
  ASSUME NEW R, NEW I, IsFiniteSet(I), StrictOrder(R, I)
  PROVE  /\ \A i \in I : RankIn(R, I, i) \in Nat /\ RankIn(R, I, i) < Cardinality(I)
         /\ \A i, j \in I : <<i, j>> \in R => RankIn(R, I, i) < RankIn(R, I, j)
<1>0. Cardinality(I) \in Nat
  BY FS_CardinalityType
<1>1. ASSUME NEW i \in I
      PROVE  /\ IsFiniteSet(Before(R, I, i)) /\ RankIn(R, I, i) \in Nat
             /\ RankIn(R, I, i) < Cardinality(I)
  <2>1. Before(R, I, i) \in SUBSET I /\ i \notin Before(R, I, i)
    BY DEF Before, StrictOrder
  <2>2. /\ IsFiniteSet(Before(R, I, i)) /\ Cardinality(Before(R, I, i)) <= Cardinality(I)
        /\ Cardinality(Before(R, I, i)) # Cardinality(I)
    BY <2>1, FS_Subset
  <2>3. Cardinality(Before(R, I, i)) \in Nat
    BY <2>2, FS_CardinalityType
  <2> QED
    BY <1>0, <2>2, <2>3 DEF RankIn
<1>2. ASSUME NEW i \in I, NEW j \in I, <<i, j>> \in R
      PROVE  RankIn(R, I, i) < RankIn(R, I, j)
  <2>1. Before(R, I, i) \in SUBSET Before(R, I, j) /\ i \in Before(R, I, j) /\ i \notin Before(R, I, i)
    BY <1>2 DEF Before, StrictOrder
  <2>2. /\ Cardinality(Before(R, I, i)) <= Cardinality(Before(R, I, j))
        /\ Cardinality(Before(R, I, i)) # Cardinality(Before(R, I, j))
    BY <1>1, <2>1, FS_Subset
  <2> QED
    BY <1>1, <2>2 DEF RankIn
<1> QED
  BY <1>1, <1>2

\* Each rank is that of one member.
LEMMA EachRankIsTaken ==
  ASSUME NEW R, NEW I, IsFiniteSet(I), StrictOrder(R, I), NEW n \in 1 .. Cardinality(I)
  PROVE  \E i \in I : RankIn(R, I, i) = n - 1
<1> DEFINE c == Cardinality(I)
           T == 0 .. (c - 1)
           rank == [i \in I |-> RankIn(R, I, i)]
<1>1. c \in Nat /\ c > 0 /\ n \in 1 .. c
  BY FS_CardinalityType
<1>2. IsFiniteSet(T) /\ Cardinality(T) = Cardinality(I)
  <2>1. 0 \in Int /\ c - 1 \in Int /\ 0 <= c - 1 /\ (c - 1) - 0 + 1 = c
    BY <1>1
  <2> HIDE DEF c
  <2>2. IsFiniteSet(T) /\ Cardinality(T) = (c - 1) - 0 + 1
    BY <2>1, FS_Interval
  <2> QED
    BY <2>1, <2>2 DEF c
<1>3. \A i \in I : RankIn(R, I, i) \in Nat /\ RankIn(R, I, i) < c
  BY RanksFollowTheOrder
<1>4. \A i, j \in I : i # j => RankIn(R, I, i) # RankIn(R, I, j)
  <2> TAKE i, j \in I
  <2>1. i # j => <<i, j>> \in R \/ <<j, i>> \in R
    BY DEF StrictOrder
  <2> HIDE DEF c
  <2> QED
    BY <1>3, <2>1, RanksFollowTheOrder
<1> HIDE DEF c
<1>5. rank \in [I -> T]
  BY <1>1, <1>3
<1>6. \A i, j \in I : rank[i] = rank[j] => i = j
  BY <1>4
<1>7. rank \in Injection(I, T)
  <2> HIDE DEF rank, T
  <2> QED
    BY <1>5, <1>6 DEF Injection, IsInjective
<1>8. rank \in Surjection(I, T)
  <2> HIDE DEF rank, T
  <2> QED
    BY <1>2, <1>7, FS_Injection
<1>9. n - 1 \in T
  BY <1>1
<1>10. \E i \in I : rank[i] = n - 1
  <2> HIDE DEF rank, T
  <2> QED
    BY <1>8, <1>9 DEF Surjection
<1> QED
  BY <1>10

-----------------------------------------------------------------------------
(* The best memories                                                        *)

Worth(m) == IF Gated(m) THEN m.gate.p ELSE m.score

LEMMA WorthIsANumber ==
  ASSUME NEW m \in RawMemories
  PROVE  Worth(m) \in Nat /\ m.id \in Nat
BY DEF RawMemories, Worth

LEMMA AheadMeans ==
  ASSUME NEW a, NEW b
  PROVE  Ahead(a, b) <=> \/ Gated(a) /\ ~Gated(b)
                         \/ /\ (Gated(a) <=> Gated(b))
                            /\ Worth(a) > Worth(b) \/ (Worth(a) = Worth(b) /\ a.id < b.id)
BY DEF Ahead, Worth, Gated

Entering(r) == {i \in DOMAIN r.candidates : First(r, i) /\ Eligible(r.candidates[i], r)}
Order(r) == {p \in Entering(r) \X Entering(r) : Ahead(r.candidates[p[1]], r.candidates[p[2]])}

\* Candidates that enter have ids of their own.
LEMMA EnteringDiffer ==
  ASSUME NEW r \in CurationRequests
  PROVE  /\ IsFiniteSet(Entering(r))
         /\ \A i \in Entering(r) : i \in DOMAIN r.candidates /\ r.candidates[i] \in RawMemories
         /\ \A i, j \in Entering(r) : i # j => r.candidates[i].id # r.candidates[j].id
<1>1. r.candidates \in Seq(RawMemories)
  BY DEF CurationRequests
<1>2. DOMAIN r.candidates = 1 .. Len(r.candidates) /\ Len(r.candidates) \in Nat
  BY <1>1
<1>3. Entering(r) \subseteq 1 .. Len(r.candidates)
  BY <1>2 DEF Entering
<1>4. IsFiniteSet(Entering(r))
  <2>1. IsFiniteSet(1 .. Len(r.candidates))
    BY <1>2, FS_Interval
  <2> QED
    BY <1>3, <2>1, FS_Subset
<1>5. \A i \in Entering(r) : First(r, i) /\ i \in 1 .. Len(r.candidates)
  BY <1>2 DEF Entering
<1>6. \A i, j \in Entering(r) : i # j => r.candidates[i].id # r.candidates[j].id
  <2> TAKE i, j \in Entering(r)
  <2> HAVE i # j
  <2>1. i \in 1 .. (j - 1) \/ j \in 1 .. (i - 1)
    BY <1>2, <1>5
  <2> QED
    BY <1>5, <2>1 DEF First
<1> QED
  BY <1>1, <1>2, <1>4, <1>5, <1>6

LEMMA AheadIsAnOrder ==
  ASSUME NEW r \in CurationRequests
  PROVE  StrictOrder(Order(r), Entering(r))
<1> DEFINE c(i) == r.candidates[i]
<1>1. \A i \in Entering(r) : Worth(c(i)) \in Nat /\ c(i).id \in Nat
  BY EnteringDiffer, WorthIsANumber
<1>2. \A i, j \in Entering(r) : i # j => c(i).id # c(j).id
  BY EnteringDiffer
<1>3. \A i, j \in Entering(r) : <<i, j>> \in Order(r) <=>
        \/ Gated(c(i)) /\ ~Gated(c(j))
        \/ /\ (Gated(c(i)) <=> Gated(c(j)))
           /\ Worth(c(i)) > Worth(c(j)) \/ (Worth(c(i)) = Worth(c(j)) /\ c(i).id < c(j).id)
  BY AheadMeans DEF Order
<1> HIDE DEF c
<1>4. \A i \in Entering(r) : <<i, i>> \notin Order(r)
  BY <1>1, <1>3
<1>5. \A i, j, k \in Entering(r) : <<i, j>> \in Order(r) /\ <<j, k>> \in Order(r) => <<i, k>> \in Order(r)
  BY <1>1, <1>3
<1>6. \A i, j \in Entering(r) : i # j => <<i, j>> \in Order(r) \/ <<j, i>> \in Order(r)
  BY <1>1, <1>2, <1>3
<1> QED
  BY <1>4, <1>5, <1>6 DEF StrictOrder
\* The candidate at a place of the ranking.
At(r, n) ==
    CHOOSE i \in Entering(r) :
        Cardinality({j \in Entering(r) : Ahead(r.candidates[j], r.candidates[i])}) = n - 1

RankOf(r, i) == RankIn(Order(r), Entering(r), i)

LEMMA PlacesAreTaken ==
  ASSUME NEW r \in CurationRequests, NEW n \in 1 .. Cardinality(Entering(r))
  PROVE  At(r, n) \in Entering(r) /\ RankOf(r, At(r, n)) = n - 1
<1>1. \A i \in Entering(r) :
        RankOf(r, i) = Cardinality({j \in Entering(r) : Ahead(r.candidates[j], r.candidates[i])})
  <2> TAKE i \in Entering(r)
  <2>1. Before(Order(r), Entering(r), i) = {j \in Entering(r) : Ahead(r.candidates[j], r.candidates[i])}
    BY DEF Before, Order
  <2> QED
    BY <2>1 DEF RankOf, RankIn
<1>2. \E i \in Entering(r) : RankOf(r, i) = n - 1
  BY EnteringDiffer, AheadIsAnOrder, EachRankIsTaken DEF RankOf
<1>3. \E i \in Entering(r) :
        Cardinality({j \in Entering(r) : Ahead(r.candidates[j], r.candidates[i])}) = n - 1
  BY <1>1, <1>2
<1>4. /\ At(r, n) \in Entering(r)
      /\ Cardinality({j \in Entering(r) : Ahead(r.candidates[j], r.candidates[At(r, n)])}) = n - 1
  BY <1>3 DEF At
<1> QED
  BY <1>1, <1>4

Places(r) == IF r.k < Cardinality(Entering(r)) THEN r.k ELSE Cardinality(Entering(r))

LEMMA ChosenAre ==
  ASSUME NEW r \in CurationRequests
  PROVE  /\ Places(r) \in Nat /\ Places(r) <= Cardinality(Entering(r)) /\ Cardinality(Entering(r)) \in Nat
         /\ Places(r) = r.k \/ Places(r) = Cardinality(Entering(r))
         /\ Len(Chosen(r)) = Places(r)
         /\ \A n \in 1 .. Places(r) : Chosen(r)[n] = r.candidates[At(r, n)]
<1> DEFINE c == Cardinality(Entering(r))
<1>1. c \in Nat /\ r.k \in Nat
  BY EnteringDiffer, FS_CardinalityType DEF CurationRequests
<1>2. Ranked(r) = [n \in 1 .. c |-> r.candidates[At(r, n)]]
  BY DEF Ranked, At, Entering
<1> HIDE DEF c
<1>3. \A n \in 1 .. c : r.candidates[At(r, n)] \in RawMemories
  BY PlacesAreTaken, EnteringDiffer DEF c
<1>4. Ranked(r) \in Seq(RawMemories) /\ Len(Ranked(r)) = c
  BY <1>1, <1>2, <1>3
<1>5. Places(r) \in Nat /\ Places(r) <= c /\ (Places(r) = r.k \/ Places(r) = c)
  BY <1>1 DEF Places, c
<1>6. Chosen(r) = SubSeq(Ranked(r), 1, Places(r))
  BY <1>4 DEF Chosen, Places, c
<1>7. Len(Chosen(r)) = Places(r) /\ \A n \in 1 .. Places(r) : Chosen(r)[n] = Ranked(r)[n]
  BY <1>1, <1>4, <1>5, <1>6, SubSeqProperties
<1>8. \A n \in 1 .. Places(r) : n \in 1 .. c
  BY <1>1, <1>5
<1>9. \A n \in 1 .. Places(r) : Chosen(r)[n] = r.candidates[At(r, n)]
  BY <1>2, <1>7, <1>8
<1> QED
  BY <1>1, <1>5, <1>7, <1>9 DEF c

\* What the property says, of a request and what is chosen for it.
Took(r, s) == {i \in Entering(r) : Contains(s, r.candidates[i])}
Best(r, s) ==
    /\ \A i \in Entering(r) \ Took(r, s), j \in Took(r, s) :
        IF r.candidates[i].gate.says = "answer"
        THEN /\ r.candidates[j].gate.says = "answer"
             /\ r.candidates[i].gate.p <= r.candidates[j].gate.p
        ELSE \/ r.candidates[j].gate.says = "answer"
             \/ r.candidates[i].score <= r.candidates[j].score
    /\ Len(s) = Cardinality(Took(r, s))
    /\ Entering(r) # Took(r, s) => Len(s) = r.k

\* Those are taken whose rank is below the number of places.
LEMMA TookByRank ==
  ASSUME NEW r \in CurationRequests
  PROVE  Took(r, Chosen(r)) = {i \in Entering(r) : RankOf(r, i) < Places(r)}
<1>0. /\ Places(r) \in Nat /\ Places(r) <= Cardinality(Entering(r)) /\ Cardinality(Entering(r)) \in Nat
      /\ Len(Chosen(r)) = Places(r)
      /\ \A n \in 1 .. Places(r) : Chosen(r)[n] = r.candidates[At(r, n)]
  BY ChosenAre
<1>1. \A n \in 1 .. Places(r) : At(r, n) \in Entering(r) /\ RankOf(r, At(r, n)) = n - 1
  BY <1>0, PlacesAreTaken
<1>2. \A i, j \in Entering(r) : i # j => r.candidates[i].id # r.candidates[j].id
  BY EnteringDiffer
<1>3. \A i \in Entering(r) : RankOf(r, i) \in Nat
  BY EnteringDiffer, AheadIsAnOrder, RanksFollowTheOrder DEF RankOf
<1>4. \A i, j \in Entering(r) : RankOf(r, i) = RankOf(r, j) => i = j
  <2> TAKE i, j \in Entering(r)
  <2>1. i # j => <<i, j>> \in Order(r) \/ <<j, i>> \in Order(r)
    BY AheadIsAnOrder DEF StrictOrder
  <2>2. \A a, b \in Entering(r) : <<a, b>> \in Order(r) => RankOf(r, a) < RankOf(r, b)
    BY EnteringDiffer, AheadIsAnOrder, RanksFollowTheOrder DEF RankOf
  <2> QED
    BY <1>3, <2>1, <2>2
<1>5. ASSUME NEW i \in Entering(r), Contains(Chosen(r), r.candidates[i])
      PROVE  RankOf(r, i) < Places(r)
  <2>1. PICK n \in 1 .. Places(r) : Chosen(r)[n] = r.candidates[i]
    BY <1>0, <1>5 DEF Contains
  <2>2. i = At(r, n)
    BY <1>0, <1>1, <1>2, <2>1
  <2> QED
    BY <1>0, <1>1, <2>2
<1>6. ASSUME NEW i \in Entering(r), RankOf(r, i) < Places(r)
      PROVE  Contains(Chosen(r), r.candidates[i])
  <2> DEFINE n == RankOf(r, i) + 1
  <2>1. n \in 1 .. Places(r) /\ n - 1 = RankOf(r, i)
    BY <1>0, <1>3, <1>6
  <2> HIDE DEF n
  <2>2. At(r, n) = i
    BY <1>1, <1>4, <2>1
  <2>3. Chosen(r)[n] = r.candidates[i]
    BY <1>0, <2>1, <2>2
  <2> QED
    BY <1>0, <2>1, <2>3 DEF Contains
<1> QED
  BY <1>5, <1>6 DEF Took

LEMMA ChosenAreBest ==
  ASSUME NEW r \in CurationRequests
  PROVE  Best(r, Chosen(r))
<1> DEFINE took == Took(r, Chosen(r))
<1>0. /\ Places(r) \in Nat /\ Places(r) <= Cardinality(Entering(r)) /\ Cardinality(Entering(r)) \in Nat
      /\ Places(r) = r.k \/ Places(r) = Cardinality(Entering(r))
      /\ Len(Chosen(r)) = Places(r)
  BY ChosenAre
<1>1. took = {i \in Entering(r) : RankOf(r, i) < Places(r)}
  BY TookByRank
<1> HIDE DEF took
<1>2. /\ \A i \in Entering(r) : RankOf(r, i) \in Nat /\ RankOf(r, i) < Cardinality(Entering(r))
      /\ \A i, j \in Entering(r) : <<i, j>> \in Order(r) => RankOf(r, i) < RankOf(r, j)
  BY EnteringDiffer, AheadIsAnOrder, RanksFollowTheOrder DEF RankOf
<1>3. ASSUME NEW i \in Entering(r) \ took, NEW j \in took
      PROVE  IF r.candidates[i].gate.says = "answer"
             THEN /\ r.candidates[j].gate.says = "answer"
                  /\ r.candidates[i].gate.p <= r.candidates[j].gate.p
             ELSE \/ r.candidates[j].gate.says = "answer"
                  \/ r.candidates[i].score <= r.candidates[j].score
  <2>1. i \in Entering(r) /\ j \in Entering(r) /\ i # j /\ RankOf(r, j) < RankOf(r, i)
    BY <1>0, <1>1, <1>2
  <2>2. <<i, j>> \notin Order(r)
    BY <1>2, <2>1
  <2>3. <<j, i>> \in Order(r)
    BY <2>1, <2>2, AheadIsAnOrder DEF StrictOrder
  <2>4. Ahead(r.candidates[j], r.candidates[i])
    BY <2>3 DEF Order
  <2>5. Worth(r.candidates[i]) \in Nat /\ Worth(r.candidates[j]) \in Nat
    BY <2>1, EnteringDiffer, WorthIsANumber
  <2>6. \/ Gated(r.candidates[j]) /\ ~Gated(r.candidates[i])
        \/ /\ (Gated(r.candidates[j]) <=> Gated(r.candidates[i]))
           /\ Worth(r.candidates[i]) <= Worth(r.candidates[j])
    BY <2>4, <2>5, AheadMeans
  <2> QED
    BY <2>6 DEF Worth, Gated
<1>4. Cardinality(took) = Places(r)
  <2> DEFINE T == 1 .. Places(r)
             f == [n \in T |-> At(r, n)]
  <2>1. \A n \in T : At(r, n) \in Entering(r) /\ RankOf(r, At(r, n)) = n - 1
    BY <1>0, PlacesAreTaken
  <2>2. f \in [T -> took]
    BY <1>0, <1>1, <2>1
  <2>3. \A m, n \in T : f[m] = f[n] => m = n
    BY <1>0, <2>1
  <2>4. \A i \in took : \E n \in T : f[n] = i
    <3> TAKE i \in took
    <3> DEFINE n == RankOf(r, i) + 1
    <3>1. i \in Entering(r) /\ n \in T /\ n - 1 = RankOf(r, i)
      BY <1>0, <1>1, <1>2
    <3>2. \A a, b \in Entering(r) : RankOf(r, a) = RankOf(r, b) => a = b
      <4> TAKE a, b \in Entering(r)
      <4>1. a # b => <<a, b>> \in Order(r) \/ <<b, a>> \in Order(r)
        BY AheadIsAnOrder DEF StrictOrder
      <4> QED
        BY <1>2, <4>1
    <3> HIDE DEF n, T, f
    <3>3. At(r, n) = i
      BY <2>1, <3>1, <3>2
    <3> QED
      BY <3>1, <3>3 DEF f
  <2>5. IsFiniteSet(T) /\ Cardinality(T) = Places(r)
    <3>1. 1 \in Int /\ Places(r) \in Int
      BY <1>0
    <3>2. IsFiniteSet(T) /\ Cardinality(T) = IF 1 > Places(r) THEN 0 ELSE Places(r) - 1 + 1
      BY <3>1, FS_Interval
    <3> QED
      BY <1>0, <3>2
  <2> HIDE DEF T, f
  <2>6. f \in Injection(T, took) /\ f \in Surjection(T, took)
    BY <2>2, <2>3, <2>4 DEF Injection, IsInjective, Surjection
  <2>7. ExistsBijection(T, took)
    BY <2>6 DEF ExistsBijection, Bijection
  <2> QED
    BY <2>5, <2>7, FS_Bijection
<1>5. Entering(r) # took => Places(r) = r.k
  <2> SUFFICES ASSUME Places(r) = Cardinality(Entering(r)) PROVE Entering(r) = took
    BY <1>0
  <2> QED
    BY <1>1, <1>2
<1> QED
  BY <1>0, <1>3, <1>4, <1>5 DEF Best, took

-----------------------------------------------------------------------------
(* The briefing                                                             *)

CurationInv ==
    /\ edits \in {0, 1}
    /\ stage = "asked" => request \in CurationRequests
    /\ stage \in {"asked", "selected"} => prompt.texts = <<>>
    /\ stage = "prompted" /\ edits = 1 => prompt.texts = selection.chosen
    /\ BriefingIsEligible

LEMMA VerifiedIsEligible ==
  ASSUME NEW s, NEW r, Verified(s, r)
  PROVE  /\ s.digest = RequestDigest(r) /\ Len(s.chosen) <= r.k
         /\ \A i \in DOMAIN s.chosen :
               LET m == s.chosen[i]
               IN  /\ ~m.sealed /\ m.state = "Active" /\ m.agent = r.agent
                   /\ m.pool = "Failure" => r.failures
                   /\ \E j \in DOMAIN r.candidates : Digest(r.candidates[j]) = Digest(m)
<1>1. ASSUME NEW i \in DOMAIN s.chosen
      PROVE  LET m == s.chosen[i]
             IN  /\ ~m.sealed /\ m.state = "Active" /\ m.agent = r.agent
                 /\ m.pool = "Failure" => r.failures
                 /\ \E j \in DOMAIN r.candidates : Digest(r.candidates[j]) = Digest(m)
  <2> DEFINE m == s.chosen[i]
  <2>1. {Digest(x) : x \in SourceOf(m, r)} = {Digest(m)} /\ Eligible(m, r) /\ m.agent = r.agent
    BY DEF Verified, SameAgent
  <2>2. PICK x \in SourceOf(m, r) : Digest(x) = Digest(m)
    BY <2>1
  <2>3. \E j \in DOMAIN r.candidates : x = r.candidates[j]
    BY DEF SourceOf
  <2> QED
    BY <2>1, <2>2, <2>3 DEF Eligible
<1> QED
  BY <1>1 DEF Verified

LEMMA CurationInitInv ==
  ASSUME CurationInit
  PROVE  CurationInv
<1>1. edits \in {0, 1} /\ prompt.texts = <<>> /\ stage \in {"idle", "asked"} /\ request \in CurationRequests
  BY CurationAssumption DEF CurationInit
<1> QED
  BY <1>1 DEF CurationInv, BriefingIsEligible, OnlyEligibleTextIsSent, BriefingIsOfItsRequest, TheBestAreChosen

LEMMA CurationStepInv ==
  ASSUME CurationInv, [CurationNext]_curationVars
  PROVE  CurationInv'
<1>0. OnlyEligibleTextIsSent /\ BriefingIsOfItsRequest /\ TheBestAreChosen
  BY DEF CurationInv, BriefingIsEligible
<1>1. CASE Select
  <2>1. request \in CurationRequests /\ prompt.texts = <<>> /\ UNCHANGED <<request, prompt, briefing, edits>>
    BY <1>1 DEF Select, CurationInv
  <2>2. stage' = "selected" => selection'.chosen = Chosen(request)
    BY <1>1 DEF Select
  <2>3. stage' \in {"selected", "failed"}
    BY <1>1 DEF Select
  <2>4. stage' = "selected" => Best(request', selection'.chosen)
    BY <2>1, <2>2, ChosenAreBest
  <2>5. TheBestAreChosen'
    BY <2>4 DEF TheBestAreChosen, Best, Took, Entering
  <2>6. OnlyEligibleTextIsSent'
    BY <1>0, <2>1 DEF OnlyEligibleTextIsSent
  <2> QED
    BY <2>1, <2>3, <2>5, <2>6 DEF CurationInv, BriefingIsEligible, BriefingIsOfItsRequest
<1>2. CASE Extract
  <2>1. /\ stage = "selected" /\ selection.chosen = <<>> /\ prompt' = prompt /\ prompt.texts = <<>>
        /\ UNCHANGED <<request, selection, edits>>
        /\ \/ Verified(selection, request) /\ briefing' = <<>> /\ stage' = "briefed"
           \/ stage' = "failed"
    BY <1>2 DEF Extract, Fail, CurationInv
  <2>2. stage' = "briefed" => selection.digest = RequestDigest(request) /\ briefing' = <<>>
    BY <2>1, VerifiedIsEligible
  <2>3. BriefingIsOfItsRequest'
    BY <2>1, <2>2 DEF BriefingIsOfItsRequest
  <2>4. OnlyEligibleTextIsSent' /\ TheBestAreChosen'
    BY <1>0, <2>1 DEF OnlyEligibleTextIsSent, TheBestAreChosen
  <2> QED
    BY <2>1, <2>3, <2>4 DEF CurationInv, BriefingIsEligible
<1>3. CASE BuildPrompt
  <2>1. /\ stage = "selected" /\ UNCHANGED <<request, selection, edits, briefing>>
        /\ \/ /\ Verified(selection, request) /\ stage' = "prompted"
              /\ prompt' = [of |-> request, texts |-> selection.chosen]
           \/ stage' = "failed" /\ prompt' = prompt
    BY <1>3 DEF BuildPrompt, Fail
  <2>2. CASE stage' = "failed" /\ prompt' = prompt
    <3>1. OnlyEligibleTextIsSent' /\ BriefingIsOfItsRequest' /\ TheBestAreChosen'
      BY <1>0, <2>2 DEF OnlyEligibleTextIsSent, BriefingIsOfItsRequest, TheBestAreChosen
    <3> QED
      BY <2>1, <2>2, <3>1 DEF CurationInv, BriefingIsEligible
  <2>3. CASE /\ Verified(selection, request) /\ stage' = "prompted"
             /\ prompt' = [of |-> request, texts |-> selection.chosen]
    <3>1. prompt'.of = request /\ prompt'.texts = selection.chosen
      BY <2>3
    <3>2. OnlyEligibleTextIsSent'
      BY <2>3, <3>1, VerifiedIsEligible DEF OnlyEligibleTextIsSent
    <3>3. BriefingIsOfItsRequest' /\ TheBestAreChosen'
      BY <2>3 DEF BriefingIsOfItsRequest, TheBestAreChosen
    <3> QED
      BY <2>1, <2>3, <3>1, <3>2, <3>3 DEF CurationInv, BriefingIsEligible
  <2> QED
    BY <2>1, <2>2, <2>3
<1>4. ASSUME NEW usable \in BOOLEAN, Answer(usable)
      PROVE  CurationInv'
  <2>1. /\ stage = "prompted" /\ prompt' = prompt /\ UNCHANGED <<request, selection, edits>>
        /\ \/ Verified(selection, request) /\ briefing' = selection.chosen /\ stage' = "briefed"
           \/ stage' = "failed"
    BY <1>4 DEF Answer, Fail
  <2>2. stage' = "briefed" =>
          /\ selection.digest = RequestDigest(request)
          /\ \A i \in DOMAIN selection.chosen :
                LET m == selection.chosen[i]
                IN  /\ ~m.sealed /\ m.state = "Active"
                    /\ \E j \in DOMAIN request.candidates : Digest(request.candidates[j]) = Digest(m)
    BY <2>1, VerifiedIsEligible
  <2>3. edits = 1 => prompt.texts = selection.chosen
    BY <2>1 DEF CurationInv
  <2>4. BriefingIsOfItsRequest'
    BY <2>1, <2>2, <2>3 DEF BriefingIsOfItsRequest
  <2>5. OnlyEligibleTextIsSent' /\ TheBestAreChosen'
    BY <1>0, <2>1 DEF OnlyEligibleTextIsSent, TheBestAreChosen
  <2> QED
    BY <2>1, <2>4, <2>5 DEF CurationInv, BriefingIsEligible
<1>5. CASE \/ \E r \in EditsOf(request) : EditRequest(r)
           \/ \E ms \in SelectionsOf(selection.chosen) : EditSelection(ms)
  <2>1. /\ edits = 1 /\ edits' = 0 /\ stage \in {"selected", "prompted"}
        /\ UNCHANGED <<prompt, briefing, stage>>
    BY <1>5 DEF EditRequest, EditSelection, CurationInv
  <2>2. OnlyEligibleTextIsSent' /\ BriefingIsOfItsRequest' /\ TheBestAreChosen'
    BY <1>0, <2>1 DEF OnlyEligibleTextIsSent, BriefingIsOfItsRequest, TheBestAreChosen
  <2> QED
    BY <2>1, <2>2 DEF CurationInv, BriefingIsEligible
<1>6. CASE UNCHANGED curationVars
  <2>1. OnlyEligibleTextIsSent' /\ BriefingIsOfItsRequest' /\ TheBestAreChosen'
    BY <1>0, <1>6 DEF curationVars, OnlyEligibleTextIsSent, BriefingIsOfItsRequest, TheBestAreChosen
  <2> QED
    BY <1>6, <2>1 DEF curationVars, CurationInv, BriefingIsEligible
<1> QED
  BY <1>1, <1>2, <1>3, <1>4, <1>5, <1>6 DEF CurationNext

\* Whatever candidates, requests and edits in between: a model is given and an
\* agent is told only what its request holds and allows, and of an untouched
\* request the best that there is place for.
THEOREM BriefingsStayEligible == CurationSpec => []BriefingIsEligible
<1>1. CurationInit => CurationInv
  BY CurationInitInv
<1>2. CurationInv /\ [CurationNext]_curationVars => CurationInv'
  BY CurationStepInv
<1>3. CurationInv => BriefingIsEligible
  BY DEF CurationInv
<1> QED
  BY <1>1, <1>2, <1>3, PTL DEF CurationSpec

-----------------------------------------------------------------------------
(***************************************************************************)
(* The monitors of drift (DriftMonitors)                                   *)
(***************************************************************************)

-----------------------------------------------------------------------------
(* One monitor                                                              *)

Monitors ==
    [enabled : BOOLEAN, lambda : 0 .. Base, streak : 0 .. Consecutive - 1, chain : Nat, window : Seq(BOOLEAN),
     pending : BOOLEAN, shadow : BOOLEAN, refused : BOOLEAN, would : BOOLEAN]

\* What admit does with a monitor.
LEMMA AdmitKeeps ==
  ASSUME NEW m \in Monitors, NEW self \in BOOLEAN
  PROVE  LET n == Admit(m, self) IN
         /\ n \in Monitors
         /\ n.enabled = m.enabled /\ n.window = m.window /\ n.lambda = m.lambda /\ n.streak = m.streak
         /\ Refuses(m, self) => /\ n.refused /\ n.chain = m.chain
                                /\ n.pending = m.pending /\ n.shadow = m.shadow /\ n.would = m.would
         /\ ~Refuses(m, self) => /\ n.refused = m.refused /\ n.chain = IF m.pending THEN 0 ELSE m.chain
                                 /\ ~n.pending
                                 /\ n.would <=> (m.would \/ (m.shadow /\ self))
                                 /\ n.shadow <=> (m.shadow /\ self)
<1>1. CASE Refuses(m, self)
  BY <1>1 DEF Admit, Monitors
<1>2. CASE ~Refuses(m, self)
  BY <1>2 DEF Admit, Monitors
<1> QED
  BY <1>1, <1>2

Pushes(window, self) ==
    IF Len(Append(window, self)) > Window THEN Tail(Append(window, self)) ELSE Append(window, self)

LEMMA ChainedKeeps ==
  ASSUME NEW m \in Monitors, NEW self \in BOOLEAN, Len(m.window) <= Window
  PROVE  LET n == Chained(m, self) IN
         /\ n \in Monitors
         /\ n.chain = (IF self THEN m.chain + 1 ELSE 0)
         /\ n.window = Pushes(m.window, self) /\ Len(n.window) <= Window
         /\ n.enabled = m.enabled /\ n.lambda = m.lambda /\ n.streak = m.streak
         /\ n.pending = m.pending /\ n.shadow = m.shadow /\ n.refused = m.refused /\ n.would = m.would
<1> DEFINE pushed == Append(m.window, self)
           window == Pushes(m.window, self)
           chain == IF self THEN m.chain + 1 ELSE 0
<1>1. m.window \in Seq(BOOLEAN) /\ chain \in Nat
  BY DEF Monitors
<1>2. pushed \in Seq(BOOLEAN) /\ Len(pushed) = Len(m.window) + 1
  BY <1>1, AppendProperties
<1>3. window \in Seq(BOOLEAN) /\ Len(window) <= Window
  <2>0. window = IF Len(pushed) > Window THEN Tail(pushed) ELSE pushed
    BY DEF Pushes
  <2>9. Len(pushed) \in Nat /\ Len(m.window) \in Nat /\ Window \in Nat \ {0}
    BY <1>1, <1>2, SatiAssumption
  <2> HIDE DEF window, pushed
  <2>1. CASE Len(pushed) > Window
    <3>0. pushed # <<>>
      BY <1>2, <2>1, <2>9
    <3>1. Tail(pushed) \in Seq(BOOLEAN) /\ Len(Tail(pushed)) = Len(pushed) - 1
      BY <1>2, <3>0, HeadTailProperties
    <3>2. window = Tail(pushed)
      BY <2>0, <2>1
    <3>3. Len(pushed) - 1 <= Window
      BY <1>2, <2>9
    <3> QED
      BY <3>1, <3>2, <3>3
  <2>2. CASE ~(Len(pushed) > Window)
    <3>1. window = pushed
      BY <2>0, <2>2
    <3> QED
      BY <1>2, <2>2, <2>9, <3>1
  <2> QED
    BY <2>1, <2>2
<1>4. Chained(m, self) = [m EXCEPT !.chain = chain, !.window = window]
  BY DEF Chained, Pushes
<1> HIDE DEF window, chain
<1>5. LET n == [m EXCEPT !.chain = chain, !.window = window] IN
      /\ n \in Monitors /\ n.chain = chain /\ n.window = window
      /\ n.enabled = m.enabled /\ n.lambda = m.lambda /\ n.streak = m.streak
      /\ n.pending = m.pending /\ n.shadow = m.shadow /\ n.refused = m.refused /\ n.would = m.would
  BY <1>1, <1>3 DEF Monitors
<1> QED
  BY <1>3, <1>4, <1>5 DEF window, chain

\* What a monitor makes of a chain and a window.
Strayed(chain, window) == chain > DMax \/ (Len(window) >= Window /\ SelfCued(window) > RhoMax)

LEMMA NotedKeeps ==
  ASSUME NEW m \in Monitors
  PROVE  LET n == Noted(m) IN
         /\ n \in Monitors
         /\ n.chain = m.chain /\ n.window = m.window
         /\ n.enabled = m.enabled /\ n.lambda = m.lambda /\ n.streak = m.streak
         /\ n.refused = m.refused /\ n.would = m.would
         /\ n.pending <=> (m.pending \/ (Strayed(m.chain, m.window) /\ m.enabled))
         /\ n.shadow <=> (m.shadow \/ (Strayed(m.chain, m.window) /\ ~m.enabled))
<1>0. Papanca(m) <=> Strayed(m.chain, m.window)
  BY DEF Papanca, Strayed
<1>1. CASE ~Papanca(m)
  <2>1. Noted(m) = m
    BY <1>1 DEF Noted
  <2> QED
    BY <1>0, <1>1, <2>1 DEF Monitors
<1>2. CASE Papanca(m) /\ m.enabled
  <2>1. Noted(m) = [m EXCEPT !.pending = TRUE]
    BY <1>2 DEF Noted
  <2> DEFINE n == [m EXCEPT !.pending = TRUE]
  <2>2. n \in Monitors
    BY DEF Monitors
  <2>3. /\ n.chain = m.chain /\ n.window = m.window /\ n.enabled = m.enabled /\ n.lambda = m.lambda
        /\ n.streak = m.streak /\ n.refused = m.refused /\ n.would = m.would /\ n.shadow = m.shadow
    BY DEF Monitors
  <2>4. n.pending
    BY DEF Monitors
  <2> HIDE DEF n
  <2> QED
    BY <1>0, <1>2, <2>1, <2>2, <2>3, <2>4 DEF n
<1>3. CASE Papanca(m) /\ ~m.enabled
  <2>1. Noted(m) = [m EXCEPT !.shadow = TRUE]
    BY <1>3 DEF Noted
  <2> DEFINE n == [m EXCEPT !.shadow = TRUE]
  <2>2. n \in Monitors
    BY DEF Monitors
  <2>3. /\ n.chain = m.chain /\ n.window = m.window /\ n.enabled = m.enabled /\ n.lambda = m.lambda
        /\ n.streak = m.streak /\ n.refused = m.refused /\ n.would = m.would /\ n.pending = m.pending
    BY DEF Monitors
  <2>4. n.shadow
    BY DEF Monitors
  <2>5. m.enabled = FALSE
    BY <1>3
  <2> HIDE DEF n
  <2> QED
    BY <1>0, <1>3, <2>1, <2>2, <2>3, <2>4, <2>5 DEF n
<1> QED
  BY <1>1, <1>2, <1>3

\* The first half of observe.
Half(m, self) == Noted(Chained(m, self))

LEMMA HalfKeeps ==
  ASSUME NEW m \in Monitors, NEW self \in BOOLEAN, Len(m.window) <= Window
  PROVE  LET n == Half(m, self)
             strayed == Strayed(IF self THEN m.chain + 1 ELSE 0, Pushes(m.window, self)) IN
         /\ n \in Monitors
         /\ n.chain = (IF self THEN m.chain + 1 ELSE 0)
         /\ n.window = Pushes(m.window, self) /\ Len(n.window) <= Window
         /\ n.enabled = m.enabled /\ n.lambda = m.lambda /\ n.streak = m.streak
         /\ n.refused = m.refused /\ n.would = m.would
         /\ n.pending <=> (m.pending \/ (strayed /\ m.enabled))
         /\ n.shadow <=> (m.shadow \/ (strayed /\ ~m.enabled))
<1> DEFINE c == Chained(m, self)
<1>1. /\ c \in Monitors
      /\ c.chain = (IF self THEN m.chain + 1 ELSE 0)
      /\ c.window = Pushes(m.window, self) /\ Len(c.window) <= Window
      /\ c.enabled = m.enabled /\ c.lambda = m.lambda /\ c.streak = m.streak
      /\ c.pending = m.pending /\ c.shadow = m.shadow /\ c.refused = m.refused /\ c.would = m.would
  BY ChainedKeeps
<1>2. Half(m, self) = Noted(c)
  BY DEF Half
<1> HIDE DEF c
<1> QED
  BY <1>1, <1>2, NotedKeeps

LEMMA CalmedFields ==
  ASSUME NEW m \in Monitors, NEW lambda \in 0 .. Base
  PROVE  LET n == [m EXCEPT !.streak = 0, !.lambda = lambda] IN
         /\ n \in Monitors /\ n.streak = 0 /\ n.lambda = lambda
         /\ n.chain = m.chain /\ n.window = m.window /\ n.enabled = m.enabled
         /\ n.refused = m.refused /\ n.would = m.would /\ n.pending = m.pending /\ n.shadow = m.shadow
<1> DEFINE n == [m EXCEPT !.streak = 0, !.lambda = lambda]
<1>0. 0 \in 0 .. Consecutive - 1
  BY SatiAssumption
<1>1. n.streak = 0 /\ n.lambda = lambda
  BY DEF Monitors
<1>2. n.chain = m.chain /\ n.window = m.window /\ n.enabled = m.enabled
  BY DEF Monitors
<1>3. n.refused = m.refused /\ n.would = m.would /\ n.pending = m.pending /\ n.shadow = m.shadow
  BY DEF Monitors
<1>4. n \in Monitors
  BY <1>0 DEF Monitors
<1> QED
  BY <1>1, <1>2, <1>3, <1>4

\* The second half: only lambda and streak move, and lambda falls only by a
\* streak that is full.
LEMMA RestKeeps ==
  ASSUME NEW m \in Monitors, NEW skewed \in BOOLEAN
  PROVE  LET n == Damped(Skewed(m, skewed)) IN
         /\ n \in Monitors
         /\ n.chain = m.chain /\ n.window = m.window /\ n.enabled = m.enabled
         /\ n.refused = m.refused /\ n.would = m.would /\ n.pending = m.pending /\ n.shadow = m.shadow
         /\ n.streak = 0 \/ (skewed /\ n.streak = m.streak + 1)
         /\ n.lambda < m.lambda => skewed /\ m.streak + 1 = Consecutive
<1>1. CASE ~skewed
  <2> DEFINE up == IF m.lambda < Base THEN m.lambda + 1 ELSE m.lambda
  <2>1. up \in 0 .. Base /\ m.lambda <= up
    BY SatiAssumption DEF Monitors
  <2>2. Skewed(m, skewed) = [m EXCEPT !.streak = 0, !.lambda = up]
    BY <1>1 DEF Skewed
  <2> HIDE DEF up
  <2>3. LET n == [m EXCEPT !.streak = 0, !.lambda = up] IN
        /\ n \in Monitors /\ n.streak = 0 /\ n.lambda = up
        /\ n.chain = m.chain /\ n.window = m.window /\ n.enabled = m.enabled
        /\ n.refused = m.refused /\ n.would = m.would /\ n.pending = m.pending /\ n.shadow = m.shadow
    BY <2>1, CalmedFields
  <2>4. Damped(Skewed(m, skewed)) = Skewed(m, skewed)
    BY <2>2, <2>3, SatiAssumption DEF Damped
  <2>5. ~(up < m.lambda)
    BY <2>1 DEF Monitors
  <2> QED
    BY <2>2, <2>3, <2>4, <2>5
<1>2. CASE skewed /\ m.streak + 1 < Consecutive
  <2>1. Skewed(m, skewed) = [m EXCEPT !.streak = m.streak + 1]
    BY <1>2 DEF Skewed
  <2>2. LET n == [m EXCEPT !.streak = m.streak + 1] IN
        /\ n \in Monitors /\ n.streak = m.streak + 1 /\ n.lambda = m.lambda
        /\ n.chain = m.chain /\ n.window = m.window /\ n.enabled = m.enabled
        /\ n.refused = m.refused /\ n.would = m.would /\ n.pending = m.pending /\ n.shadow = m.shadow
    BY <1>2, SatiAssumption DEF Monitors
  <2>3. Damped(Skewed(m, skewed)) = Skewed(m, skewed)
    BY <1>2, <2>1, <2>2 DEF Damped
  <2>4. ~(m.lambda < m.lambda)
    BY DEF Monitors
  <2> QED
    BY <1>2, <2>1, <2>2, <2>3, <2>4
<1>3. CASE skewed /\ ~(m.streak + 1 < Consecutive)
  <2> DEFINE down == IF m.enabled THEN m.lambda \div 2 ELSE m.lambda
  <2>1. down \in 0 .. Base /\ m.streak + 1 = Consecutive
    BY <1>3, SatiAssumption DEF Monitors
  <2>2. Damped(Skewed(m, skewed)) = [m EXCEPT !.streak = 0, !.lambda = down]
    <3>1. Skewed(m, skewed) = [m EXCEPT !.streak = m.streak + 1]
      BY <1>3 DEF Skewed
    <3> DEFINE n == [m EXCEPT !.streak = m.streak + 1]
    <3>2. n.streak = m.streak + 1 /\ n.enabled = m.enabled /\ n.lambda = m.lambda
      BY DEF Monitors
    <3>3. Damped(n) = [n EXCEPT !.streak = 0, !.lambda = IF n.enabled THEN n.lambda \div 2 ELSE n.lambda]
      BY <1>3, <3>2 DEF Damped
    <3>4. [n EXCEPT !.streak = 0, !.lambda = down] = [m EXCEPT !.streak = 0, !.lambda = down]
      BY DEF Monitors
    <3> QED
      BY <3>1, <3>2, <3>3, <3>4
  <2> HIDE DEF down
  <2>3. LET n == [m EXCEPT !.streak = 0, !.lambda = down] IN
        /\ n \in Monitors /\ n.streak = 0 /\ n.lambda = down
        /\ n.chain = m.chain /\ n.window = m.window /\ n.enabled = m.enabled
        /\ n.refused = m.refused /\ n.would = m.would /\ n.pending = m.pending /\ n.shadow = m.shadow
    BY <2>1, CalmedFields
  <2> QED
    BY <1>3, <2>1, <2>2, <2>3
<1> QED
  BY <1>1, <1>2, <1>3

-----------------------------------------------------------------------------
(* Both monitors, the recalls under way and the last skews                  *)

UnderWay(f) == (IF f[1] = "self" THEN 1 ELSE 0) + (IF f[2] = "self" THEN 1 ELSE 0)

SatiTyped ==
    /\ agent \in [slots : 0 .. 2, refusals : Nat, rests : BOOLEAN]
    /\ flights \in [1 .. 2 -> {"none"} \cup Sources]
    /\ \A s \in 1 .. 2 : s > agent.slots => flights[s] = "none"
    /\ parted \in BOOLEAN
    /\ monitors \in [{"service", "harness"} -> Monitors]
    /\ Len(monitors["service"].window) <= Window /\ Len(monitors["harness"].window) <= Window

\* The service acts, the harness measures.
RolesInv ==
    /\ monitors["service"].enabled /\ ~monitors["service"].shadow
    /\ ~monitors["harness"].enabled /\ ~monitors["harness"].pending

\* What is still under way may lengthen a chain whose return is pending.
ChainInv ==
    LET m == monitors["service"]
    IN  /\ ~m.pending => m.chain <= DMax
        /\ m.pending => m.chain + UnderWay(flights) <= DMax + agent.slots

\* Until the first refusal the two monitors differ at most in a chain that
\* the recall under way will end.
SameInv ==
    agent.slots <= 1 =>
        LET a == monitors["service"]
            b == monitors["harness"]
        IN  IF parted THEN a.refused /\ b.would
            ELSE /\ ~a.refused /\ ~b.would
                 /\ a.window = b.window
                 /\ a.pending <=> b.shadow
                 /\ a.chain = b.chain \/ flights[1] \in {"task", "dream"}

\* The streak counts skews that really came last.
StreakInv ==
    /\ recent \in Seq(BOOLEAN) /\ Len(recent) = Consecutive
    /\ \A k \in 1 .. Consecutive : k > Consecutive - monitors["service"].streak => recent[k]

SatiInv == SatiTyped /\ RolesInv /\ ChainInv /\ SameInv /\ StreakInv

LEMMA SatiStarts == SatiInit => SatiInv
<1> SUFFICES ASSUME SatiInit PROVE SatiInv
  OBVIOUS
<1>1. Fresh(TRUE) \in Monitors /\ Fresh(FALSE) \in Monitors
  <2>1. Base \in 0 .. Base /\ 0 \in 0 .. Consecutive - 1 /\ << >> \in Seq(BOOLEAN)
    BY SatiAssumption
  <2> QED
    BY <2>1 DEF Fresh, Monitors
<1>2. agent \in [slots : 0 .. 2, refusals : Nat, rests : BOOLEAN]
  BY SatiAssumption DEF SatiInit
<1>3. /\ monitors["service"] = Fresh(TRUE) /\ monitors["harness"] = Fresh(FALSE)
      /\ monitors \in [{"service", "harness"} -> Monitors]
  <2>1. ("service" = "service") = TRUE /\ ("harness" = "service") = FALSE
    OBVIOUS
  <2>2. monitors = [k \in {"service", "harness"} |-> Fresh(k = "service")]
    BY DEF SatiInit
  <2>3. monitors["service"] = Fresh(TRUE) /\ monitors["harness"] = Fresh(FALSE)
    BY <2>1, <2>2
  <2> QED
    BY <1>1, <2>2, <2>3
<1>4. \A e \in BOOLEAN : /\ Fresh(e).window = << >> /\ Fresh(e).enabled = e /\ Fresh(e).chain = 0
                         /\ Fresh(e).streak = 0 /\ Fresh(e).pending = FALSE /\ Fresh(e).shadow = FALSE
                         /\ Fresh(e).refused = FALSE /\ Fresh(e).would = FALSE
  BY DEF Fresh
<1>5. SatiTyped
  <2>2. parted \in BOOLEAN
    BY DEF SatiInit
  <2>3. flights \in [1 .. 2 -> {"none"} \cup Sources] /\ \A s \in 1 .. 2 : flights[s] = "none"
    BY DEF SatiInit
  <2>4. Len(monitors["service"].window) <= Window /\ Len(monitors["harness"].window) <= Window
    <3>1. Fresh(TRUE).window = << >> /\ Fresh(FALSE).window = << >>
      BY <1>4
    <3>2. Len(<< >>) <= Window
      BY SatiAssumption
    <3> QED
      BY <1>3, <3>1, <3>2
  <2> QED
    BY <1>2, <1>3, <2>2, <2>3, <2>4 DEF SatiTyped
<1>6. RolesInv
  BY <1>3, <1>4 DEF RolesInv
<1>7. ChainInv
  <2>1. Fresh(TRUE).chain = 0 /\ Fresh(TRUE).pending = FALSE /\ 0 <= DMax
    <3>1. Fresh(TRUE).chain = 0 /\ Fresh(TRUE).pending = FALSE
      BY <1>4
    <3>2. 0 <= DMax
      BY SatiAssumption
    <3> QED
      BY <3>1, <3>2
  <2> QED
    BY <1>3, <2>1 DEF ChainInv
<1>8. SameInv
  <2>0. parted <=> agent.slots > 1
    BY DEF SatiInit
  <2>1. agent.slots <= 1 => ~parted
    BY <1>2, <2>0
  <2> QED
    BY <1>3, <1>4, <2>1 DEF SameInv
<1>9. StreakInv
  <2>1. recent \in Seq(BOOLEAN) /\ Len(recent) = Consecutive
    BY SatiAssumption DEF SatiInit
  <2>2. \A k \in 1 .. Consecutive : ~(k > Consecutive - 0)
    BY SatiAssumption
  <2> QED
    BY <1>3, <1>4, <2>1, <2>2 DEF StreakInv
<1> QED
  BY <1>5, <1>6, <1>7, <1>8, <1>9 DEF SatiInv

\* A recall is asked for.
LEMMA AskKeeps ==
  ASSUME SatiInv, NEW slot \in 1 .. 2, NEW source \in Sources, Ask(slot, source)
  PROVE  SatiInv' /\ monitors'["service"].lambda = monitors["service"].lambda
<1> DEFINE a == monitors["service"]
           b == monitors["harness"]
           self == source = "self"
           n == Admit(a, self)
           h == Admit(b, self)
           own == Refuses(a, self)
<1>0. SatiTyped /\ RolesInv /\ ChainInv /\ SameInv /\ StreakInv
  BY DEF SatiInv
<1>1. a \in Monitors /\ b \in Monitors /\ self \in BOOLEAN /\ own \in BOOLEAN
  BY <1>0 DEF SatiTyped, Refuses
<1>2. /\ monitors' = [k \in {"service", "harness"} |->
                         IF k = "harness" /\ parted THEN b ELSE IF k = "service" THEN n ELSE h]
      /\ monitors'["service"] = n
      /\ monitors'["harness"] = IF parted THEN b ELSE h
  <2>1. DOMAIN monitors = {"service", "harness"}
    BY <1>0 DEF SatiTyped
  <2> QED
    BY <2>1 DEF Ask, Both
<1>3. /\ flights' = [flights EXCEPT ![slot] = IF own THEN "none" ELSE source]
      /\ flights[slot] = "none" /\ slot <= agent.slots
      /\ parted' = (parted \/ n.refused \/ monitors'["harness"].would)
      /\ agent' = agent /\ recent' = recent
  <2>1. parted' = (parted \/ monitors'["service"].refused \/ monitors'["harness"].would)
    BY DEF Ask
  <2> QED
    BY <1>2, <2>1 DEF Ask, Refuses
<1>4. /\ n \in Monitors
      /\ n.enabled = a.enabled /\ n.window = a.window /\ n.lambda = a.lambda /\ n.streak = a.streak
      /\ own => n.refused /\ n.chain = a.chain /\ n.pending = a.pending /\ n.shadow = a.shadow
      /\ ~own => /\ n.refused = a.refused /\ n.chain = IF a.pending THEN 0 ELSE a.chain
                 /\ ~n.pending
                 /\ n.shadow <=> (a.shadow /\ self)
  BY <1>1, AdmitKeeps
<1>5. /\ h \in Monitors
      /\ h.enabled = b.enabled /\ h.window = b.window
      /\ h.chain = b.chain /\ ~h.pending
      /\ h.would <=> (b.would \/ (b.shadow /\ self))
      /\ h.shadow <=> (b.shadow /\ self)
  <2>1. ~Refuses(b, self) /\ ~b.pending
    BY <1>0 DEF RolesInv, Refuses
  <2> QED
    BY <1>1, <2>1, AdmitKeeps
<1>6. own <=> (a.pending /\ self)
  BY DEF Refuses
<1> HIDE DEF a, b, n, h, own
<1>7. SatiTyped'
  <2>1. monitors' \in [{"service", "harness"} -> Monitors]
    BY <1>1, <1>2, <1>4, <1>5
  <2>2. flights' \in [1 .. 2 -> {"none"} \cup Sources]
    BY <1>0, <1>3 DEF SatiTyped
  <2>3. \A s \in 1 .. 2 : s > agent.slots => flights'[s] = "none"
    BY <1>0, <1>3 DEF SatiTyped
  <2>4. parted' \in BOOLEAN
    BY <1>0, <1>1, <1>3, <1>4, <1>5, <1>2 DEF SatiTyped, Monitors
  <2>5. Len(a.window) <= Window /\ Len(b.window) <= Window
    BY <1>0 DEF SatiTyped, a, b
  <2>6. Len(monitors'["service"].window) <= Window /\ Len(monitors'["harness"].window) <= Window
    BY <1>2, <1>4, <1>5, <2>5
  <2> QED
    BY <1>0, <1>3, <2>1, <2>2, <2>3, <2>4, <2>6 DEF SatiTyped
<1>8. RolesInv'
  BY <1>0, <1>2, <1>4, <1>5 DEF RolesInv, a, b
<1>9. ChainInv'
  <2>1. CASE own
    <3>1. \A s \in 1 .. 2 : flights'[s] = flights[s]
      BY <1>0, <1>3, <2>1 DEF SatiTyped
    <3>2. UnderWay(flights') = UnderWay(flights)
      BY <3>1 DEF UnderWay
    <3> QED
      BY <1>0, <1>2, <1>3, <1>4, <2>1, <3>2 DEF ChainInv, a
  <2>2. CASE ~own
    <3>1. n.chain <= DMax
      BY <1>0, <1>4, <2>2, SatiAssumption DEF ChainInv, a
    <3> QED
      BY <1>2, <1>4, <2>2, <3>1 DEF ChainInv
  <2> QED
    BY <2>1, <2>2
<1>10. SameInv'
  <2> SUFFICES ASSUME agent.slots <= 1
               PROVE  IF parted' THEN n.refused /\ monitors'["harness"].would
                      ELSE /\ ~n.refused /\ ~monitors'["harness"].would
                           /\ n.window = monitors'["harness"].window
                           /\ n.pending <=> monitors'["harness"].shadow
                           /\ n.chain = monitors'["harness"].chain \/ flights'[1] \in {"task", "dream"}
    BY <1>2, <1>3 DEF SameInv
  <2>1. slot = 1
    BY <1>0, <1>3 DEF SatiTyped
  <2>2. flights'[1] = IF own THEN "none" ELSE source
    BY <1>0, <1>3, <2>1 DEF SatiTyped
  <2>3. IF parted THEN a.refused /\ b.would
        ELSE /\ ~a.refused /\ ~b.would
             /\ a.window = b.window
             /\ a.pending <=> b.shadow
             /\ a.chain = b.chain \/ flights[1] \in {"task", "dream"}
    BY <1>0 DEF SameInv, a, b
  <2>4. CASE parted
    <3>1. n.refused
      BY <1>4, <2>3, <2>4
    <3> QED
      BY <1>2, <1>3, <2>3, <2>4, <3>1
  <2>5. CASE ~parted
    <3>1. monitors'["harness"] = h
      BY <1>2, <2>5
    <3>2. a.chain = b.chain /\ (a.pending <=> b.shadow) /\ a.window = b.window /\ ~a.refused /\ ~b.would
      BY <1>3, <2>1, <2>3, <2>5
    <3>3. CASE own
      BY <1>3, <1>4, <1>5, <1>6, <3>1, <3>2, <3>3
    <3>4. CASE ~own
      <4>1. ~n.refused /\ ~h.would /\ ~n.pending /\ ~h.shadow /\ n.window = h.window
        BY <1>4, <1>5, <1>6, <3>2, <3>4
      <4>2. ~parted'
        BY <1>3, <2>5, <3>1, <4>1
      <4>3. n.chain = h.chain \/ flights'[1] \in {"task", "dream"}
        <5>1. CASE a.pending
          BY <1>6, <2>2, <3>4, <5>1 DEF Sources
        <5>2. CASE ~a.pending
          BY <1>4, <1>5, <3>2, <3>4, <5>2
        <5> QED
          BY <5>1, <5>2
      <4> QED
        BY <3>1, <4>1, <4>2, <4>3
    <3> QED
      BY <3>3, <3>4
  <2> QED
    BY <2>4, <2>5
<1>11. StreakInv'
  BY <1>0, <1>2, <1>3, <1>4 DEF StreakInv, a
<1> QED
  BY <1>2, <1>4, <1>7, <1>8, <1>9, <1>10, <1>11 DEF SatiInv, a

\* n is m after the first half of observe, and possibly the second.
Halved(n, m, self) ==
    /\ n \in Monitors
    /\ n.chain = Half(m, self).chain /\ n.window = Half(m, self).window
    /\ n.pending = Half(m, self).pending /\ n.shadow = Half(m, self).shadow
    /\ n.enabled = m.enabled /\ n.refused = m.refused /\ n.would = m.would

Grown(m, self) == IF self THEN m.chain + 1 ELSE 0

LEMMA HalvedFields ==
  ASSUME NEW m \in Monitors, NEW self \in BOOLEAN, Len(m.window) <= Window, NEW n, Halved(n, m, self)
  PROVE  LET strayed == Strayed(Grown(m, self), Pushes(m.window, self)) IN
         /\ n \in Monitors
         /\ n.chain = Grown(m, self)
         /\ n.window = Pushes(m.window, self) /\ Len(n.window) <= Window
         /\ n.enabled = m.enabled /\ n.refused = m.refused /\ n.would = m.would
         /\ n.pending <=> (m.pending \/ (strayed /\ m.enabled))
         /\ n.shadow <=> (m.shadow \/ (strayed /\ ~m.enabled))
<1> DEFINE x == Half(m, self)
           strayed == Strayed(Grown(m, self), Pushes(m.window, self))
<1>1. /\ x.chain = Grown(m, self)
      /\ x.window = Pushes(m.window, self) /\ Len(x.window) <= Window
      /\ x.pending <=> (m.pending \/ (strayed /\ m.enabled))
      /\ x.shadow <=> (m.shadow \/ (strayed /\ ~m.enabled))
  BY HalfKeeps DEF Grown
<1>2. /\ n \in Monitors /\ n.chain = x.chain /\ n.window = x.window
      /\ n.pending = x.pending /\ n.shadow = x.shadow
      /\ n.enabled = m.enabled /\ n.refused = m.refused /\ n.would = m.would
  BY DEF Halved
<1> HIDE DEF x, strayed
<1>3. n.pending <=> (m.pending \/ (strayed /\ m.enabled))
  BY <1>1, <1>2
<1>4. n.shadow <=> (m.shadow \/ (strayed /\ ~m.enabled))
  BY <1>1, <1>2
<1>5. n.chain = Grown(m, self) /\ n.window = Pushes(m.window, self) /\ Len(n.window) <= Window
  BY <1>1, <1>2
<1> QED
  BY <1>2, <1>3, <1>4, <1>5 DEF strayed

\* What observe does with the two monitors before the skew is measured.
LEMMA HalvesKeep ==
  ASSUME SatiInv, NEW slot \in 1 .. 2, flights[slot] # "none", NEW n, NEW h,
         Halved(n, monitors["service"], flights[slot] = "self"),
         Halved(h, monitors["harness"], flights[slot] = "self"),
         monitors' = [k \in {"service", "harness"} |->
                         IF k = "harness" /\ parted THEN monitors["harness"]
                         ELSE IF k = "service" THEN n ELSE h],
         flights' = [flights EXCEPT ![slot] = "none"], parted' = parted,
         agent' \in [slots : 0 .. 2, refusals : Nat, rests : BOOLEAN], agent'.slots = agent.slots
  PROVE  SatiTyped' /\ RolesInv' /\ ChainInv' /\ SameInv'
<1> DEFINE a == monitors["service"]
           b == monitors["harness"]
           self == flights[slot] = "self"
<1>0. SatiTyped /\ RolesInv /\ ChainInv /\ SameInv
  BY DEF SatiInv
<1>1. /\ a \in Monitors /\ b \in Monitors /\ self \in BOOLEAN
      /\ Len(a.window) <= Window /\ Len(b.window) <= Window
  BY <1>0 DEF SatiTyped
<1>2. monitors'["service"] = n /\ monitors'["harness"] = IF parted THEN b ELSE h
  OBVIOUS
<1>20. monitors' = [k \in {"service", "harness"} |->
                         IF k = "harness" /\ parted THEN b ELSE IF k = "service" THEN n ELSE h]
  OBVIOUS
<1> DEFINE grown(m) == Grown(m, self)
           strayed(m) == Strayed(grown(m), Pushes(m.window, self))
<1>3. /\ n \in Monitors
      /\ n.chain = grown(a) /\ n.window = Pushes(a.window, self) /\ Len(n.window) <= Window
      /\ n.enabled = a.enabled /\ n.refused = a.refused /\ n.would = a.would
      /\ n.pending <=> (a.pending \/ (strayed(a) /\ a.enabled))
      /\ n.shadow <=> (a.shadow \/ (strayed(a) /\ ~a.enabled))
  <2>1. Halved(n, a, self)
    OBVIOUS
  <2> HIDE DEF a, b, self
  <2> QED
    BY <1>1, <2>1, HalvedFields
<1>4. /\ h \in Monitors
      /\ h.chain = grown(b) /\ h.window = Pushes(b.window, self) /\ Len(h.window) <= Window
      /\ h.enabled = b.enabled /\ h.refused = b.refused /\ h.would = b.would
      /\ h.pending <=> (b.pending \/ (strayed(b) /\ b.enabled))
      /\ h.shadow <=> (b.shadow \/ (strayed(b) /\ ~b.enabled))
  <2>1. Halved(h, b, self)
    OBVIOUS
  <2> HIDE DEF a, b, self
  <2> QED
    BY <1>1, <2>1, HalvedFields
<1>30. self <=> flights[slot] = "self"
  OBVIOUS
<1> HIDE DEF self
<1>5. strayed(a) \/ grown(a) <= DMax
  <2>1. a.chain \in Nat /\ DMax \in Nat
    BY <1>1, SatiAssumption DEF Monitors
  <2>2. grown(a) \in Nat
    BY <2>1 DEF Grown
  <2> QED
    BY <2>1, <2>2 DEF Strayed
<1>6. a.window = b.window /\ grown(a) = grown(b) => (strayed(a) <=> strayed(b))
  OBVIOUS
<1>7. a.chain = b.chain => grown(a) = grown(b)
  BY DEF Grown
<1>8. ~self => grown(a) = 0 /\ grown(b) = 0
  BY DEF Grown
<1>9. self => grown(a) = a.chain + 1
  BY DEF Grown
<1> HIDE DEF grown, strayed, a, b
<1>10. SatiTyped'
  <2>1. monitors' \in [{"service", "harness"} -> Monitors]
    BY <1>1, <1>20, <1>3, <1>4
  <2>2. flights' \in [1 .. 2 -> {"none"} \cup Sources] /\ \A s \in 1 .. 2 : s > agent.slots => flights'[s] = "none"
    BY <1>0 DEF SatiTyped
  <2>3. Len(monitors'["service"].window) <= Window /\ Len(monitors'["harness"].window) <= Window
    BY <1>1, <1>2, <1>3, <1>4
  <2> QED
    BY <1>0, <2>1, <2>2, <2>3 DEF SatiTyped
<1>11. RolesInv'
  BY <1>0, <1>2, <1>3, <1>4 DEF RolesInv, a, b
<1>12. ChainInv'
  <2> SUFFICES /\ ~n.pending => n.chain <= DMax
               /\ n.pending => n.chain + UnderWay(flights') <= DMax + agent.slots
    BY <1>2 DEF ChainInv
  <2>1. /\ a.enabled
        /\ ~a.pending => a.chain <= DMax
        /\ a.pending => a.chain + UnderWay(flights) <= DMax + agent.slots
        /\ a.chain \in Nat /\ DMax \in Nat /\ agent.slots \in 0 .. 2
    BY <1>0, <1>1, SatiAssumption DEF ChainInv, RolesInv, SatiTyped, Monitors, a
  <2>2. /\ UnderWay(flights) \in 0 .. agent.slots
        /\ UnderWay(flights') = IF self THEN UnderWay(flights) - 1 ELSE UnderWay(flights)
    <3>1. \A s \in 1 .. 2 : flights'[s] = IF s = slot THEN "none" ELSE flights[s]
      BY <1>0 DEF SatiTyped
    <3>2. \A s \in 1 .. 2 : s > agent.slots => flights[s] = "none"
      BY <1>0 DEF SatiTyped
    <3>3. UnderWay(flights) \in 0 .. agent.slots
      BY <2>1, <3>2 DEF UnderWay
    <3>4. UnderWay(flights') = IF self THEN UnderWay(flights) - 1 ELSE UnderWay(flights)
      <4>1. CASE slot = 1
        BY <1>30, <3>1, <4>1 DEF UnderWay
      <4>2. CASE slot = 2
        BY <1>30, <3>1, <4>2 DEF UnderWay
      <4> QED
        BY <4>1, <4>2
    <3> QED
      BY <3>3, <3>4
  <2>3. CASE self
    <3>1. n.chain = a.chain + 1
      BY <1>3, <1>9, <2>3
    <3>2. ~n.pending => n.chain <= DMax
      BY <1>3, <1>5, <2>1
    <3>3. a.chain + UnderWay(flights) <= DMax + agent.slots
      BY <2>1, <2>2
    <3> QED
      BY <2>1, <2>2, <2>3, <3>1, <3>2, <3>3
  <2>4. CASE ~self
    BY <1>3, <1>8, <2>1, <2>2, <2>4
  <2> QED
    BY <2>3, <2>4
<1>13. SameInv'
  <2> SUFFICES ASSUME agent.slots <= 1
               PROVE  IF parted THEN n.refused /\ monitors'["harness"].would
                      ELSE /\ ~n.refused /\ ~h.would
                           /\ n.window = h.window
                           /\ n.pending <=> h.shadow
                           /\ n.chain = h.chain \/ flights'[1] \in {"task", "dream"}
    BY <1>2 DEF SameInv
  <2>1. slot = 1
    BY <1>0 DEF SatiTyped
  <2>2. IF parted THEN a.refused /\ b.would
        ELSE /\ ~a.refused /\ ~b.would
             /\ a.window = b.window
             /\ a.pending <=> b.shadow
             /\ a.chain = b.chain \/ flights[1] \in {"task", "dream"}
    BY <1>0 DEF SameInv, a, b
  <2>3. CASE parted
    BY <1>2, <1>3, <2>2, <2>3
  <2>4. CASE ~parted
    <3>1. grown(a) = grown(b)
      BY <1>7, <1>8, <1>30, <2>1, <2>2, <2>4
    <3>2. strayed(a) <=> strayed(b)
      BY <1>6, <2>2, <2>4, <3>1
    <3>3. n.pending <=> h.shadow
      BY <1>0, <1>3, <1>4, <2>2, <2>4, <3>2 DEF RolesInv, a, b
    <3>4. n.chain = h.chain /\ n.window = h.window
      BY <1>3, <1>4, <2>2, <2>4, <3>1
    <3> QED
      BY <1>3, <1>4, <2>2, <2>4, <3>3, <3>4
  <2> QED
    BY <2>3, <2>4
<1> QED
  BY <1>10, <1>11, <1>12, <1>13

\* A recall has been carried out.
LEMMA ObservedKeeps ==
  ASSUME SatiInv, NEW slot \in 1 .. 2, NEW skewed \in BOOLEAN, Observed(slot, skewed)
  PROVE  /\ SatiInv'
         /\ monitors'["service"].lambda < monitors["service"].lambda => \A k \in 1 .. Consecutive : recent'[k]
<1> DEFINE a == monitors["service"]
           b == monitors["harness"]
           self == flights[slot] = "self"
<1>0. SatiTyped /\ RolesInv /\ ChainInv /\ SameInv /\ StreakInv
  BY DEF SatiInv
<1>1. /\ a \in Monitors /\ b \in Monitors /\ self \in BOOLEAN
      /\ Len(a.window) <= Window /\ Len(b.window) <= Window
      /\ DOMAIN monitors = {"service", "harness"}
  BY <1>0 DEF SatiTyped
<1>2. /\ flights' = [flights EXCEPT ![slot] = "none"] /\ parted' = parted /\ flights[slot] # "none"
  BY DEF Observed
<1>3. /\ Half(a, self) \in Monitors /\ Half(b, self) \in Monitors
      /\ Half(a, self).enabled = a.enabled /\ Half(b, self).enabled = b.enabled
      /\ Half(a, self).refused = a.refused /\ Half(b, self).would = b.would
      /\ Half(a, self).would = a.would /\ Half(b, self).refused = b.refused
      /\ Half(a, self).lambda = a.lambda /\ Half(a, self).streak = a.streak
  BY <1>1, HalfKeeps
<1>4. CASE /\ monitors' = Both(LAMBDA m : Damped(Skewed(Noted(Chained(m, self)), skewed)))
           /\ recent' = SubSeq(Append(recent, skewed), Len(recent) + 2 - Consecutive, Len(recent) + 1)
           /\ UNCHANGED agent
  <2> DEFINE n == Damped(Skewed(Half(a, self), skewed))
             h == Damped(Skewed(Half(b, self), skewed))
  <2>1. monitors' = [k \in {"service", "harness"} |->
                        IF k = "harness" /\ parted THEN b ELSE IF k = "service" THEN n ELSE h]
    BY <1>1, <1>4 DEF Both, Half
  <2>2. /\ n \in Monitors /\ n.chain = Half(a, self).chain /\ n.window = Half(a, self).window
        /\ n.enabled = a.enabled /\ n.refused = a.refused /\ n.would = a.would
        /\ n.pending = Half(a, self).pending /\ n.shadow = Half(a, self).shadow
        /\ n.streak = 0 \/ (skewed /\ n.streak = a.streak + 1)
        /\ n.lambda < a.lambda => skewed /\ a.streak + 1 = Consecutive
    BY <1>3, RestKeeps
  <2>3. /\ h \in Monitors /\ h.chain = Half(b, self).chain /\ h.window = Half(b, self).window
        /\ h.enabled = b.enabled /\ h.would = b.would /\ h.refused = b.refused
        /\ h.pending = Half(b, self).pending /\ h.shadow = Half(b, self).shadow
    BY <1>3, RestKeeps
  <2>4. agent' \in [slots : 0 .. 2, refusals : Nat, rests : BOOLEAN] /\ agent'.slots = agent.slots
    BY <1>0, <1>4 DEF SatiTyped
  <2>5. monitors'["service"] = n
    BY <2>1
  <2> HIDE DEF n, h
  <2>6. SatiTyped' /\ RolesInv' /\ ChainInv' /\ SameInv'
    <3>1. Halved(n, a, self) /\ Halved(h, b, self)
      BY <2>2, <2>3 DEF Halved
    <3> QED
      BY <1>2, <2>1, <2>4, <3>1, HalvesKeep
  <2>7. /\ recent' \in Seq(BOOLEAN) /\ Len(recent') = Consecutive
        /\ \A k \in 1 .. Consecutive : recent'[k] = IF k = Consecutive THEN skewed ELSE recent[k + 1]
    <3> DEFINE s == Append(recent, skewed)
    <3>0. Consecutive \in Nat \ {0} /\ recent \in Seq(BOOLEAN) /\ Len(recent) = Consecutive
      BY <1>0, SatiAssumption DEF StreakInv
    <3>1. /\ s \in Seq(BOOLEAN) /\ Len(s) = Consecutive + 1 /\ s[Consecutive + 1] = skewed
          /\ \A k \in 1 .. Consecutive : s[k] = recent[k]
      BY <3>0, AppendProperties
    <3>2. recent' = SubSeq(s, 2, Consecutive + 1)
      BY <1>4, <3>0
    <3> HIDE DEF s
    <3>3. /\ SubSeq(s, 2, Consecutive + 1) \in Seq(BOOLEAN)
          /\ Len(SubSeq(s, 2, Consecutive + 1)) = Consecutive
          /\ \A k \in 1 .. Consecutive : SubSeq(s, 2, Consecutive + 1)[k] = s[k + 1]
      <4>1. 2 \in 1 .. Len(s) + 1 /\ Consecutive + 1 \in 1 .. Len(s)
        BY <3>0, <3>1
      <4>2. /\ SubSeq(s, 2, Consecutive + 1) \in Seq(BOOLEAN)
            /\ Len(SubSeq(s, 2, Consecutive + 1)) = Consecutive
        BY <3>0, <3>1, <4>1
      <4>3. \A k \in 1 .. Consecutive : SubSeq(s, 2, Consecutive + 1)[k] = s[k + 1]
        BY <3>0, <3>1, <4>1
      <4> QED
        BY <4>2, <4>3
    <3>4. ASSUME NEW k \in 1 .. Consecutive PROVE recent'[k] = IF k = Consecutive THEN skewed ELSE recent[k + 1]
      <4>1. recent'[k] = s[k + 1]
        BY <3>2, <3>3
      <4>2. k # Consecutive => k + 1 \in 1 .. Consecutive
        BY <3>0
      <4> QED
        BY <3>1, <4>1, <4>2
    <3> QED
      BY <3>2, <3>3, <3>4
  <2>8. ASSUME NEW k \in 1 .. Consecutive, NEW j, k > Consecutive - j, skewed, j = a.streak + 1
        PROVE  recent'[k]
    <3>0. Consecutive \in Nat \ {0} /\ a.streak \in Nat
      BY <1>1, SatiAssumption DEF Monitors
    <3>1. CASE k = Consecutive
      BY <2>7, <2>8, <3>1
    <3>2. CASE k # Consecutive
      <4>1. k + 1 \in 1 .. Consecutive /\ k + 1 > Consecutive - a.streak
        BY <2>8, <3>0, <3>2
      <4>2. recent[k + 1]
        BY <1>0, <4>1 DEF StreakInv
      <4> QED
        BY <2>7, <3>2, <4>2
    <3> QED
      BY <3>1, <3>2
  <2>9. StreakInv'
    <3>1. ASSUME NEW k \in 1 .. Consecutive, k > Consecutive - n.streak PROVE recent'[k]
      <4>1. Consecutive \in Nat /\ n.streak # 0
        <5>1. ~(k > Consecutive - 0)
          BY SatiAssumption
        <5> QED
          BY <3>1, <5>1, SatiAssumption
      <4> QED
        BY <2>2, <2>8, <3>1, <4>1
    <3> QED
      BY <2>5, <2>7, <3>1 DEF StreakInv
  <2>10. n.lambda < a.lambda => \A k \in 1 .. Consecutive : recent'[k]
    <3> SUFFICES ASSUME n.lambda < a.lambda, NEW k \in 1 .. Consecutive PROVE recent'[k]
      OBVIOUS
    <3>1. skewed /\ a.streak + 1 = Consecutive
      BY <2>2
    <3>2. k > Consecutive - Consecutive
      BY SatiAssumption
    <3> QED
      BY <2>8, <3>1, <3>2
  <2> QED
    BY <2>5, <2>6, <2>9, <2>10 DEF SatiInv
<1>5. CASE /\ agent.refusals > 0
           /\ monitors' = Both(LAMBDA m : Noted(Chained(m, self)))
           /\ agent' = [agent EXCEPT !.refusals = @ - 1]
           /\ UNCHANGED recent
  <2> DEFINE n == Half(a, self)
             h == Half(b, self)
  <2>1. monitors' = [k \in {"service", "harness"} |->
                        IF k = "harness" /\ parted THEN b ELSE IF k = "service" THEN n ELSE h]
    BY <1>1, <1>5 DEF Both, Half
  <2>4. agent' \in [slots : 0 .. 2, refusals : Nat, rests : BOOLEAN] /\ agent'.slots = agent.slots
    BY <1>0, <1>5 DEF SatiTyped
  <2>5. monitors'["service"] = n
    BY <2>1
  <2>6. Halved(n, a, self) /\ Halved(h, b, self)
    BY <1>3 DEF Halved
  <2>9. SatiTyped' /\ RolesInv' /\ ChainInv' /\ SameInv'
    <3> HIDE DEF n, h
    <3> QED
      BY <1>2, <2>1, <2>4, <2>6, HalvesKeep
  <2>7. StreakInv'
    BY <1>0, <1>3, <1>5, <2>5 DEF StreakInv
  <2>8. ~(n.lambda < a.lambda)
    BY <1>1, <1>3 DEF Monitors
  <2> QED
    BY <2>5, <2>7, <2>8, <2>9 DEF SatiInv
<1> QED
  BY <1>4, <1>5 DEF Observed

LEMMA SatiSteps ==
  ASSUME SatiInv, [SatiNext]_satiVars
  PROVE  /\ SatiInv'
         /\ monitors'["service"].lambda < monitors["service"].lambda => \A k \in 1 .. Consecutive : recent'[k]
<1>0. SatiTyped /\ monitors["service"].lambda \in Nat /\ DOMAIN flights = 1 .. 2
  BY SatiAssumption DEF SatiInv, SatiTyped, Monitors
<1>1. ~(monitors["service"].lambda < monitors["service"].lambda)
  BY <1>0
<1>2. ASSUME NEW slot \in Slots, NEW source \in Sources, Ask(slot, source)
      PROVE  /\ SatiInv'
             /\ monitors'["service"].lambda < monitors["service"].lambda => \A k \in 1 .. Consecutive : recent'[k]
  BY <1>0, <1>1, <1>2, AskKeeps DEF Slots
<1>3. ASSUME NEW slot \in Slots, NEW skewed \in BOOLEAN, Observed(slot, skewed)
      PROVE  /\ SatiInv'
             /\ monitors'["service"].lambda < monitors["service"].lambda => \A k \in 1 .. Consecutive : recent'[k]
  BY <1>0, <1>3, ObservedKeeps DEF Slots
<1>4. ASSUME Settle \/ UNCHANGED satiVars
      PROVE  /\ SatiInv'
             /\ monitors'["service"].lambda < monitors["service"].lambda => \A k \in 1 .. Consecutive : recent'[k]
  <2>1. /\ UNCHANGED <<monitors, flights, recent, parted>>
        /\ agent' \in [slots : 0 .. 2, refusals : Nat, rests : BOOLEAN] /\ agent'.slots = agent.slots
    BY <1>0, <1>4 DEF Settle, satiVars, SatiTyped
  <2>2. SatiTyped'
    BY <1>0, <2>1 DEF SatiTyped
  <2>3. RolesInv' /\ ChainInv' /\ SameInv' /\ StreakInv'
    BY <2>1 DEF SatiInv, RolesInv, ChainInv, SameInv, StreakInv
  <2> QED
    BY <1>1, <2>1, <2>2, <2>3 DEF SatiInv
<1> QED
  BY <1>2, <1>3, <1>4 DEF SatiNext

\* Drift is bounded: whatever the recalls, the chain of self-cued ones outruns
\* d_max at most by what is under way, and the harness counts a refusal
\* exactly when the service has refused.
THEOREM DriftStaysBounded == SatiSpec => [](SatiTypeOK /\ ChainIsBounded /\ HarnessAgrees)
<1>1. SatiInit => SatiInv
  BY SatiStarts
<1>2. SatiInv /\ [SatiNext]_satiVars => SatiInv'
  BY SatiSteps
<1>3. SatiInv => SatiTypeOK /\ ChainIsBounded /\ HarnessAgrees
  <2> SUFFICES ASSUME SatiInv PROVE SatiTypeOK /\ ChainIsBounded /\ HarnessAgrees
    OBVIOUS
  <2>0. SatiTyped /\ ChainInv /\ SameInv
    BY DEF SatiInv
  <2>1. SatiTypeOK
    BY <2>0 DEF SatiTyped, SatiTypeOK, Monitors
  <2>2. ChainIsBounded
    <3>1. /\ monitors["service"].chain \in Nat /\ agent.slots \in 0 .. 2 /\ DMax \in Nat
          /\ UnderWay(flights) \in Nat
      BY <2>0, SatiAssumption DEF SatiTyped, Monitors, UnderWay
    <3> QED
      BY <2>0, <3>1 DEF ChainInv, ChainIsBounded
  <2>3. HarnessAgrees
    BY <2>0 DEF SameInv, HarnessAgrees
  <2> QED
    BY <2>1, <2>2, <2>3
<1> QED
  BY <1>1, <1>2, <1>3, PTL DEF SatiSpec

\* The bias is damped only after Consecutive skewed recalls in a row.
THEOREM DampingNeedsAStreak == SatiSpec => DampedByAStreak
<1>1. SatiInit => SatiInv
  BY SatiStarts
<1>2. SatiInv /\ [SatiNext]_satiVars => SatiInv'
  BY SatiSteps
<1>3. SatiInv /\ [SatiNext]_satiVars
        => [monitors'.service.lambda < monitors.service.lambda
                => \A k \in 1 .. Consecutive : recent'[k]]_satiVars
  BY SatiSteps
<1> QED
  BY <1>1, <1>2, <1>3, PTL DEF SatiSpec, DampedByAStreak

-----------------------------------------------------------------------------
(***************************************************************************)
(* The rings of a pair of terms (DriftMonitors)                            *)
(***************************************************************************)

-----------------------------------------------------------------------------
(* One ring                                                                 *)

Entries == Nat \X Int
Rings == [slots : [0 .. Cap - 1 -> Entries], head : 0 .. Cap - 1, len : 0 .. Cap]

\* The entry pushed before the last k others.
Back(ring, k) == ring.slots[(ring.head + Cap - 1 - k) % Cap]
Place(head, k) == IF k < head THEN head - 1 - k ELSE head + Cap - 1 - k

LEMMA Wraps ==
  ASSUME NEW c \in Nat \ {0}, NEW x \in 0 .. 2 * c - 1
  PROVE  x % c = IF x < c THEN x ELSE x - c
<1>1. CASE x < c
  BY <1>1
<1>2. CASE ~(x < c)
  BY <1>2
<1> QED
  BY <1>1, <1>2

LEMMA PlaceIs ==
  ASSUME NEW head \in 0 .. Cap - 1, NEW k \in 0 .. Cap - 1
  PROVE  (head + Cap - 1 - k) % Cap = Place(head, k) /\ Place(head, k) \in 0 .. Cap - 1
<1>0. Cap \in Nat \ {0}
  BY RingAssumption
<1>1. head + Cap - 1 - k \in 0 .. 2 * Cap - 1
  BY <1>0
<1> DEFINE x == head + Cap - 1 - k
<1>2. x % Cap = IF x < Cap THEN x ELSE x - Cap
  <2> HIDE DEF x
  <2> QED
    BY <1>0, <1>1, Wraps DEF x
<1> QED
  BY <1>0, <1>2 DEF Place

\* A ring is written from its first slot on.
InOrder(ring) == ring \in Rings /\ (ring.len < Cap => ring.head = ring.len)

LEMMA PushKeeps ==
  ASSUME NEW r, InOrder(r), NEW e \in Entries
  PROVE  /\ InOrder(Pushed(r, e))
         /\ Pushed(r, e).len = IF r.len < Cap THEN r.len + 1 ELSE r.len
         /\ Back(Pushed(r, e), 0) = e
         /\ \A k \in 1 .. Cap - 1 : Back(Pushed(r, e), k) = Back(r, k - 1)
<1> DEFINE slots == [r.slots EXCEPT ![r.head] = e]
           head == (r.head + 1) % Cap
           len == IF r.len < Cap THEN r.len + 1 ELSE r.len
           n == Pushed(r, e)
<1>0. Cap \in Nat /\ Cap > 2
  BY RingAssumption
<1>1. r.slots \in [0 .. Cap - 1 -> Entries] /\ r.head \in 0 .. Cap - 1 /\ r.len \in 0 .. Cap
  BY DEF InOrder, Rings
<1>2. slots \in [0 .. Cap - 1 -> Entries]
  BY <1>1
<1>3. head = IF r.head + 1 < Cap THEN r.head + 1 ELSE 0
  <2>1. r.head + 1 \in 0 .. 2 * Cap - 1 /\ Cap \in Nat \ {0}
    BY <1>0, <1>1
  <2> DEFINE x == r.head + 1
  <2>2. x % Cap = IF x < Cap THEN x ELSE x - Cap
    <3>1. x \in 0 .. 2 * Cap - 1
      BY <2>1
    <3> HIDE DEF x
    <3> QED
      BY <2>1, <3>1, Wraps
  <2> QED
    BY <1>0, <1>1, <2>2
<1>4. head \in 0 .. Cap - 1 /\ len \in 0 .. Cap
  BY <1>0, <1>1, <1>3
<1>5. n = [slots |-> slots, head |-> head, len |-> len]
  BY DEF Pushed
<1>6. n.slots = slots /\ n.head = head /\ n.len = len
  BY <1>5
<1>7. n \in Rings
  BY <1>2, <1>4, <1>5 DEF Rings
<1> HIDE DEF n, head, len
<1>8. n.len < Cap => n.head = n.len
  BY <1>0, <1>1, <1>3, <1>6 DEF InOrder, len
<1>9. \A i \in 0 .. Cap - 1 : slots[i] = IF i = r.head THEN e ELSE r.slots[i]
  BY <1>1
<1> HIDE DEF slots
<1>10. ASSUME NEW k \in 0 .. Cap - 1 PROVE Back(n, k) = slots[Place(head, k)] /\ Place(head, k) \in 0 .. Cap - 1
  <2>1. (head + Cap - 1 - k) % Cap = Place(head, k) /\ Place(head, k) \in 0 .. Cap - 1
    BY <1>4, PlaceIs
  <2> QED
    BY <1>6, <2>1 DEF Back
<1>11. ASSUME NEW k \in 0 .. Cap - 1 PROVE Back(r, k) = r.slots[Place(r.head, k)] /\ Place(r.head, k) \in 0 .. Cap - 1
  <2>1. (r.head + Cap - 1 - k) % Cap = Place(r.head, k) /\ Place(r.head, k) \in 0 .. Cap - 1
    BY <1>1, PlaceIs
  <2> QED
    BY <2>1 DEF Back
<1>12. Back(n, 0) = e
  <2>1. 0 \in 0 .. Cap - 1
    BY <1>0
  <2>2. Place(head, 0) = r.head
    BY <1>0, <1>1, <1>3 DEF Place
  <2> QED
    BY <1>9, <1>10, <2>1, <2>2
<1>13. ASSUME NEW k \in 1 .. Cap - 1 PROVE Back(n, k) = Back(r, k - 1)
  <2>1. k \in 0 .. Cap - 1 /\ k - 1 \in 0 .. Cap - 1
    BY <1>0
  <2>2. Place(head, k) = Place(r.head, k - 1) /\ Place(head, k) # r.head
    <3>1. CASE r.head + 1 < Cap
      BY <1>0, <1>1, <1>3, <3>1 DEF Place
    <3>2. CASE ~(r.head + 1 < Cap)
      BY <1>0, <1>1, <1>3, <3>2 DEF Place
    <3> QED
      BY <3>1, <3>2
  <2>3. Back(n, k) = slots[Place(head, k)] /\ Place(head, k) \in 0 .. Cap - 1
    BY <1>10, <2>1
  <2>4. Back(r, k - 1) = r.slots[Place(r.head, k - 1)]
    BY <1>11, <2>1
  <2> QED
    BY <1>9, <2>2, <2>3, <2>4
<1> QED
  BY <1>6, <1>7, <1>8, <1>12, <1>13 DEF InOrder, n, len

LEMMA OrderedIs ==
  ASSUME NEW r, InOrder(r), NEW i \in 1 .. r.len
  PROVE  Ordered(r)[i] = Back(r, r.len - i)
<1> DEFINE start == IF r.len < Cap THEN 0 ELSE r.head
<1>0. Cap \in Nat /\ Cap > 2
  BY RingAssumption
<1>1. r.slots \in [0 .. Cap - 1 -> Entries] /\ r.head \in 0 .. Cap - 1 /\ r.len \in 0 .. Cap
  BY DEF InOrder, Rings
<1>2. r.len < Cap => r.head = r.len
  BY DEF InOrder
<1>3. Ordered(r)[i] = r.slots[(start + i - 1) % Cap]
  BY DEF Ordered
<1>4. start + i - 1 \in 0 .. 2 * Cap - 1 /\ Cap \in Nat \ {0} /\ start \in 0 .. Cap - 1
  BY <1>0, <1>1
<1> HIDE DEF start
<1> DEFINE x == start + i - 1
<1>5. x % Cap = IF x < Cap THEN x ELSE x - Cap
  <2>1. x \in 0 .. 2 * Cap - 1
    BY <1>4
  <2> HIDE DEF x
  <2> QED
    BY <1>4, <2>1, Wraps
<1>6. r.len - i \in 0 .. Cap - 1
  BY <1>0, <1>1
<1>7. (r.head + Cap - 1 - (r.len - i)) % Cap = Place(r.head, r.len - i)
  BY <1>1, <1>6, PlaceIs
<1>8. Place(r.head, r.len - i) = (start + i - 1) % Cap
  <2>1. CASE r.len < Cap
    <3>1. r.head = r.len /\ start = 0
      BY <1>2, <2>1 DEF start
    <3>2. x = i - 1 /\ i - 1 < Cap
      BY <1>0, <1>1, <3>1
    <3>3. Place(r.head, r.len - i) = i - 1
      BY <1>1, <3>1 DEF Place
    <3> QED
      BY <1>5, <3>2, <3>3
  <2>2. CASE ~(r.len < Cap)
    <3>1. r.len = Cap /\ start = r.head
      BY <1>0, <1>1, <2>2 DEF start
    <3>2. r.head \in Nat /\ i \in Nat /\ x = r.head + i - 1
      BY <1>1, <3>1
    <3>3. Place(r.head, r.len - i) = IF x < Cap THEN x ELSE x - Cap
      <4>1. (Cap - i < r.head) <=> ~(x < Cap)
        BY <1>0, <3>2
      <4>2. r.head - 1 - (Cap - i) = x - Cap /\ r.head + Cap - 1 - (Cap - i) = x
        BY <1>0, <3>2
      <4> HIDE DEF x
      <4> QED
        BY <3>1, <4>1, <4>2 DEF Place
    <3> QED
      BY <1>5, <3>3
  <2> QED
    BY <2>1, <2>2
<1> QED
  BY <1>3, <1>7, <1>8 DEF Back

-----------------------------------------------------------------------------
(* All pairs                                                                *)

\* The ring r holds the last observations of s.
Holds(r, s) ==
    /\ InOrder(r) /\ r.len <= Len(s)
    /\ \A k \in 0 .. Cap - 1 : k < r.len => Back(r, k) = s[Len(s) - k]

SeenOK(s) == s \in Seq(Entries) /\ Len(s) > 0 /\ \A i \in 1 .. Len(s) : s[i][1] <= tick

PairIs(s, there, r, now) ==
    /\ there => Holds(r, s) /\ r.len > 0
    /\ now - s[Len(s)][1] <= Stale => there
    /\ there /\ Len(s) > 1 /\ s[Len(s)][1] - s[Len(s) - 1][1] <= Stale => r.len > 1

PairOK(p) == PairIs(seen[p], p \in DOMAIN histories, histories[p], tick)

TermInv ==
    /\ tick \in Nat /\ IsFiniteSet(known)
    /\ DOMAIN histories \subseteq DOMAIN seen
    /\ \A p \in DOMAIN seen : SeenOK(seen[p]) /\ PairOK(p)

LEMMA TermStarts == TermInit => TermInv
<1> SUFFICES ASSUME TermInit PROVE TermInv
  OBVIOUS
<1>1. IsFiniteSet(known) /\ tick \in Nat
  BY RingAssumption DEF TermInit
<1>2. DOMAIN histories = {} /\ DOMAIN seen = {}
  BY DEF TermInit
<1> QED
  BY <1>1, <1>2 DEF TermInv

LEMMA DivIsInt ==
  ASSUME NEW x \in Int, NEW d \in Nat \ {0}
  PROVE  x \div d \in Int
  OBVIOUS

LEMMA JaccardIsInt ==
  ASSUME IsFiniteSet(known), NEW p \in PairsOf(Anchored)
  PROVE  Jaccard(p) \in Int
<1> DEFINE common == {id \in known : p \subseteq Terms(id)}
           all == UNION {Posting(t) : t \in p}
<1>1. common \subseteq known /\ all \subseteq known
  BY DEF Posting
<1>2. IsFiniteSet(common) /\ IsFiniteSet(all)
  BY <1>1, FS_Subset
<1>3. p \subseteq Anchored /\ p # {}
  <2>1. Cardinality(p) = 2 /\ p \subseteq Anchored
    BY DEF PairsOf
  <2>2. Cardinality({}) = 0
    BY FS_EmptySet
  <2> QED
    BY <2>1, <2>2
<1>4. all # {}
  <2>1. PICK t \in p : TRUE
    BY <1>3
  <2>2. Posting(t) # {}
    BY <1>3, <2>1 DEF Anchored
  <2> QED
    BY <2>1, <2>2
<1>5. Cardinality(common) \in Nat /\ Cardinality(all) \in Nat \ {0}
  BY <1>2, <1>4, FS_CardinalityType, FS_EmptySet
<1>6. Jaccard(p) = (Unit * Cardinality(common)) \div Cardinality(all)
  BY DEF Jaccard
<1> HIDE DEF common, all
<1>7. Unit * Cardinality(common) \in Int
  BY <1>5, RingAssumption
<1> QED
  BY <1>5, <1>6, <1>7, DivIsInt

\* A night with an anchor: every sampled pair is observed once more.
Dreamt(p) ==
    IF p \in PairsOf(Anchored)
    THEN Append(IF p \in DOMAIN seen THEN seen[p] ELSE << >>, <<tick + 1, Jaccard(p)>>) ELSE seen[p]
Turned(p) ==
    IF p \in PairsOf(Anchored)
    THEN Pushed(IF p \in DOMAIN histories THEN histories[p] ELSE EmptyRing, <<tick + 1, Jaccard(p)>>)
    ELSE histories[p]

LEMMA LastTickIs ==
  ASSUME NEW r, NEW s, Holds(r, s), r.len > 0
  PROVE  LastTick(r) = s[Len(s)][1]
<1>0. Cap \in Nat /\ Cap > 2 /\ r.len \in 0 .. Cap /\ r.head \in 0 .. Cap - 1
  BY RingAssumption DEF Holds, InOrder, Rings
<1>1. Back(r, 0) = s[Len(s) - 0]
  BY <1>0 DEF Holds
<1>2. r.head + Cap - 1 - 0 = r.head + Cap - 1
  BY <1>0
<1>3. LastTick(r) = Back(r, 0)[1]
  BY <1>0, <1>2 DEF LastTick, Back
<1> QED
  BY <1>1, <1>3 DEF Holds

LEMMA PushHolds ==
  ASSUME NEW r, NEW s \in Seq(Entries), Holds(r, s), NEW e \in Entries
  PROVE  /\ Holds(Pushed(r, e), Append(s, e)) /\ Pushed(r, e).len > 0
         /\ r.len > 0 => Pushed(r, e).len > 1
<1> DEFINE n == Pushed(r, e)
           t == Append(s, e)
<1>0. Cap \in Nat /\ Cap > 2 /\ r.len \in 0 .. Cap /\ Len(s) \in Nat
  BY RingAssumption DEF Holds, InOrder, Rings
<1>1. /\ InOrder(n) /\ n.len = IF r.len < Cap THEN r.len + 1 ELSE r.len
      /\ Back(n, 0) = e
      /\ \A k \in 1 .. Cap - 1 : Back(n, k) = Back(r, k - 1)
  BY PushKeeps DEF Holds
<1>2. Len(t) = Len(s) + 1 /\ t[Len(s) + 1] = e /\ \A i \in 1 .. Len(s) : t[i] = s[i]
  BY AppendProperties
<1> HIDE DEF n, t
<1>3. n.len <= Len(t)
  BY <1>0, <1>1, <1>2 DEF Holds
<1>4. ASSUME NEW k \in 0 .. Cap - 1, k < n.len PROVE Back(n, k) = t[Len(t) - k]
  <2>1. CASE k = 0
    <3>1. Len(t) - k = Len(s) + 1
      BY <1>0, <1>2, <2>1
    <3> QED
      BY <1>1, <1>2, <2>1, <3>1
  <2>2. CASE k # 0
    <3>1. k \in 1 .. Cap - 1 /\ k - 1 \in 0 .. Cap - 1 /\ k - 1 < r.len
      BY <1>0, <1>1, <1>4, <2>2
    <3>2. Back(r, k - 1) = s[Len(s) - (k - 1)]
      BY <3>1 DEF Holds
    <3>3. Len(t) - k = Len(s) - (k - 1) /\ Len(s) - (k - 1) \in 1 .. Len(s)
      BY <1>0, <1>2, <3>1 DEF Holds
    <3> QED
      BY <1>1, <1>2, <3>1, <3>2, <3>3
  <2> QED
    BY <2>1, <2>2
<1>5. n.len > 0 /\ (r.len > 0 => n.len > 1)
  BY <1>0, <1>1
<1> QED
  BY <1>1, <1>3, <1>4, <1>5 DEF Holds, n, t

LEMMA EmptyHolds ==
  ASSUME NEW s \in Seq(Entries)
  PROVE  Holds(EmptyRing, s)
<1>0. Cap \in Nat /\ Cap > 2
  BY RingAssumption
<1>1. <<0, 0>> \in Entries
  BY DEF Entries
<1>2. EmptyRing \in Rings
  BY <1>0, <1>1 DEF EmptyRing, Rings
<1>3. EmptyRing.len = 0 /\ EmptyRing.head = 0
  BY DEF EmptyRing
<1>4. \A k \in 0 .. Cap - 1 : ~(k < EmptyRing.len)
  BY <1>3
<1>5. 0 <= Len(s)
  OBVIOUS
<1> QED
  BY <1>2, <1>3, <1>4, <1>5 DEF Holds, InOrder

\* What a night makes of one pair.
LEMMA NightOfPair ==
  ASSUME TermInv, NEW p \in DOMAIN seen \cup PairsOf(Anchored),
         NEW inHistories \in BOOLEAN, NEW kept \in BOOLEAN,
         inHistories <=> p \in DOMAIN histories \/ p \in PairsOf(Anchored),
         kept <=> inHistories /\ Kept(Turned(p))
  PROVE  LET s == Dreamt(p)
             n == Len(s)
         IN  /\ s \in Seq(Entries) /\ n > 0 /\ \A i \in 1 .. n : s[i][1] <= tick + 1
             /\ PairIs(s, kept, Turned(p), tick + 1)
<1>0. tick \in Nat /\ Stale \in Nat /\ IsFiniteSet(known)
  BY RingAssumption DEF TermInv
<1> DEFINE s == Dreamt(p)
           n == Len(s)
           r == Turned(p)
<1>1. CASE p \in PairsOf(Anchored)
  <2> DEFINE old == IF p \in DOMAIN seen THEN seen[p] ELSE << >>
             before == IF p \in DOMAIN histories THEN histories[p] ELSE EmptyRing
             e == <<tick + 1, Jaccard(p)>>
  <2>1. e \in Entries /\ e[1] = tick + 1
    BY <1>0, <1>1, JaccardIsInt DEF Entries
  <2>2. old \in Seq(Entries) /\ \A i \in 1 .. Len(old) : old[i][1] <= tick /\ old[i][1] \in Nat
    <3>1. CASE p \in DOMAIN seen
      <4>1. seen[p] \in Seq(Entries) /\ \A i \in 1 .. Len(seen[p]) : seen[p][i][1] <= tick
        BY <3>1 DEF TermInv, SeenOK
      <4>2. \A i \in 1 .. Len(seen[p]) : seen[p][i] \in Entries
        BY <4>1
      <4>3. \A x \in Entries : x[1] \in Nat
        BY DEF Entries
      <4> QED
        BY <3>1, <4>1, <4>2, <4>3
    <3>2. CASE p \notin DOMAIN seen
      BY <3>2
    <3> QED
      BY <3>1, <3>2
  <2>3. Holds(before, old) /\ (p \in DOMAIN histories => before.len > 0)
    <3>1. CASE p \in DOMAIN histories
      BY <3>1 DEF TermInv, PairOK, PairIs
    <3>2. CASE p \notin DOMAIN histories
      BY <2>2, <3>2, EmptyHolds
    <3> QED
      BY <3>1, <3>2
  <2>4. s = Append(old, e) /\ r = Pushed(before, e)
    BY <1>1 DEF Dreamt, Turned
  <2>5. old # << >> => p \in DOMAIN seen /\ old = seen[p]
    OBVIOUS
  <2>6. Holds(r, s) /\ r.len > 0 /\ (p \in DOMAIN histories => r.len > 1)
    <3> HIDE DEF before, old, e
    <3> QED
      BY <2>1, <2>2, <2>3, <2>4, PushHolds
  <2> HIDE DEF before, old, e
  <2>7. /\ s \in Seq(Entries) /\ n = Len(old) + 1 /\ s[n] = e /\ Len(old) \in Nat
        /\ \A i \in 1 .. Len(old) : s[i] = old[i]
    BY <2>1, <2>2, <2>4, AppendProperties
  <2> HIDE DEF s, r, n
  <2>8. \A i \in 1 .. n : s[i][1] <= tick + 1
    <3> SUFFICES ASSUME NEW i \in 1 .. n PROVE s[i][1] <= tick + 1
      OBVIOUS
    <3>1. CASE i = n
      <4>1. s[i][1] = tick + 1
        BY <2>1, <2>7, <3>1
      <4> QED
        BY <1>0, <4>1
    <3>2. CASE i # n
      <4>1. i \in 1 .. Len(old)
        BY <2>7, <3>2
      <4>2. s[i][1] = old[i][1] /\ old[i][1] <= tick /\ old[i][1] \in Nat
        BY <2>2, <2>7, <4>1
      <4> QED
        BY <1>0, <4>2
    <3> QED
      BY <3>1, <3>2
  <2>9. kept
    <3>1. LastTick(r) = tick + 1
      BY <2>1, <2>6, <2>7, LastTickIs DEF n
    <3>2. (tick + 1) - (tick + 1) <= Stale
      BY <1>0
    <3>3. Kept(r)
      BY <3>1, <3>2 DEF Kept
    <3> QED
      BY <1>1, <3>3 DEF r
  <2>10. n > 1 /\ s[n][1] - s[n - 1][1] <= Stale => r.len > 1
    <3> SUFFICES ASSUME n > 1, s[n][1] - s[n - 1][1] <= Stale PROVE r.len > 1
      OBVIOUS
    <3>1. Len(old) \in 1 .. Len(old) /\ n - 1 = Len(old)
      BY <2>7
    <3>2. old # << >>
      BY <3>1
    <3>6. s[n - 1] = old[Len(old)] /\ s[n][1] = tick + 1
      BY <2>1, <2>7, <3>1
    <3>7. s[n][1] - s[n - 1][1] <= Stale
      OBVIOUS
    <3>8. s[n - 1][1] = old[Len(old)][1]
      BY <3>6
    <3>9. old[Len(old)][1] \in Nat
      BY <2>2, <3>1
    <3> DEFINE x == s[n][1]
               y == s[n - 1][1]
               z == old[Len(old)][1]
    <3>10. x - y <= Stale /\ x = tick + 1 /\ y = z /\ z \in Nat
      BY <3>6, <3>7, <3>8, <3>9
    <3>3. (tick + 1) - old[Len(old)][1] <= Stale /\ old[Len(old)][1] \in Nat
      <4> HIDE DEF x, y, z
      <4>1. (tick + 1) - z <= Stale
        BY <3>10
      <4> QED
        BY <3>9, <4>1 DEF z
    <3>4. tick - old[Len(old)][1] <= Stale
      BY <1>0, <3>3
    <3>5. p \in DOMAIN histories
      BY <2>5, <3>2, <3>4 DEF TermInv, PairOK, PairIs
    <3> QED
      BY <2>6, <3>5
  <2>11. PairIs(s, kept, r, tick + 1)
    BY <2>6, <2>9, <2>10 DEF PairIs, n
  <2> QED
    BY <2>7, <2>8, <2>11 DEF s, r, n
<1>2. CASE p \notin PairsOf(Anchored)
  <2>0. p \in DOMAIN seen /\ s = seen[p] /\ r = histories[p] /\ (inHistories <=> p \in DOMAIN histories)
    BY <1>2 DEF Dreamt, Turned
  <2>1. SeenOK(seen[p]) /\ PairOK(p)
    BY <2>0 DEF TermInv
  <2>2. s \in Seq(Entries) /\ n > 0 /\ \A i \in 1 .. n : s[i][1] <= tick
    BY <2>0, <2>1 DEF SeenOK
  <2>3. /\ p \in DOMAIN histories => Holds(r, s) /\ r.len > 0
        /\ tick - s[n][1] <= Stale => p \in DOMAIN histories
        /\ p \in DOMAIN histories /\ n > 1 /\ s[n][1] - s[n - 1][1] <= Stale => r.len > 1
    BY <2>0, <2>1 DEF PairOK, PairIs
  <2>4. \A i \in 1 .. n : s[i][1] \in Nat
    <3>1. \A i \in 1 .. n : s[i] \in Entries
      BY <2>2
    <3>2. \A x \in Entries : x[1] \in Nat
      BY DEF Entries
    <3> QED
      BY <3>1, <3>2
  <2>5. n \in 1 .. n /\ n \in Nat
    BY <2>2
  <2> HIDE DEF s, r
  <2>6. \A i \in 1 .. n : s[i][1] <= tick + 1
    BY <1>0, <2>2, <2>4
  <2>7. p \in DOMAIN histories => LastTick(r) = s[n][1]
    BY <2>3, LastTickIs
  <2>8. (tick + 1) - s[n][1] <= Stale => kept
    <3> SUFFICES ASSUME (tick + 1) - s[n][1] <= Stale PROVE kept
      OBVIOUS
    <3>1. s[n][1] \in Nat
      BY <2>4, <2>5
    <3>2. tick - s[n][1] <= Stale
      BY <1>0, <3>1
    <3>3. p \in DOMAIN histories
      BY <2>3, <3>2
    <3>4. Kept(r)
      BY <2>7, <3>3 DEF Kept
    <3> QED
      BY <2>0, <3>3, <3>4 DEF r
  <2>9. kept => p \in DOMAIN histories
    BY <2>0
  <2>10. PairIs(s, kept, r, tick + 1)
    BY <2>3, <2>8, <2>9 DEF PairIs
  <2> QED
    BY <2>2, <2>6, <2>10 DEF s, r
<1> QED
  BY <1>1, <1>2

LEMMA DreamKeeps == TermInv /\ Dream => TermInv'
<1> SUFFICES ASSUME TermInv, Dream PROVE TermInv'
  OBVIOUS
<1>0. /\ tick \in Nat /\ Stale \in Nat /\ IsFiniteSet(known)
      /\ DOMAIN histories \subseteq DOMAIN seen
      /\ \A p \in DOMAIN seen : SeenOK(seen[p]) /\ PairOK(p)
  BY RingAssumption DEF TermInv
<1>1. tick' = tick + 1 /\ tick' \in Nat /\ known' = known
  BY <1>0 DEF Dream
<1>2. CASE anchors = {}
  <2>1. histories' = histories /\ seen' = seen
    BY <1>2 DEF Dream
  <2>2. ASSUME NEW p \in DOMAIN seen PROVE SeenOK(seen[p])' /\ PairOK(p)'
    <3> DEFINE s == seen[p]
               n == Len(s)
    <3>1. s \in Seq(Entries) /\ n > 0 /\ \A i \in 1 .. n : s[i][1] <= tick
      BY <1>0, <2>2 DEF SeenOK
    <3>2. \A i \in 1 .. n : s[i][1] \in Nat
      <4>1. \A i \in 1 .. n : s[i] \in Entries
        BY <3>1
      <4>2. \A x \in Entries : x[1] \in Nat
        BY DEF Entries
      <4> QED
        BY <4>1, <4>2
    <3>3. n \in 1 .. n
      BY <3>1
    <3>4. PairOK(p)
      BY <1>0, <2>2
    <3>5. SeenOK(seen[p])'
      <4> HIDE DEF s, n
      <4>1. \A i \in 1 .. n : s[i][1] <= tick + 1
        BY <1>0, <3>1, <3>2
      <4> QED
        BY <1>1, <2>1, <3>1, <4>1 DEF SeenOK, s, n
    <3>6. (tick + 1) - s[n][1] <= Stale => tick - s[n][1] <= Stale
      <4>1. s[n][1] \in Nat
        BY <3>2, <3>3
      <4> HIDE DEF s, n
      <4> QED
        BY <1>0, <4>1
    <3>7. PairOK(p)'
      <4>1. PairIs(s, p \in DOMAIN histories, histories[p], tick + 1)
        BY <3>4, <3>6 DEF PairOK, PairIs
      <4> QED
        BY <1>1, <2>1, <4>1 DEF PairOK
    <3> QED
      BY <3>5, <3>7
  <2> QED
    BY <1>0, <1>1, <2>1, <2>2 DEF TermInv
<1>3. CASE anchors # {}
  <2> DEFINE sampled == PairsOf(Anchored)
             there(p) == p \in DOMAIN histories \/ p \in sampled
  <2>1. /\ DOMAIN seen' = DOMAIN seen \cup sampled
        /\ \A p \in DOMAIN seen \cup sampled : seen'[p] = Dreamt(p)
    <3>1. seen' = [p \in DOMAIN seen \union sampled |->
                    LET old == IF p \in DOMAIN seen THEN seen[p] ELSE <<>>
                    IN  IF p \in sampled THEN Append(old, <<tick + 1, Jaccard(p)>>) ELSE old]
      BY <1>3 DEF Dream
    <3>2. ASSUME NEW p \in DOMAIN seen \cup sampled PROVE seen'[p] = Dreamt(p)
      BY <3>1, <3>2 DEF Dreamt
    <3> QED
      BY <3>1, <3>2
  <2>2. \A p : p \in DOMAIN histories' <=> there(p) /\ Kept(Turned(p))
    <3> DEFINE before(p) == IF p \in DOMAIN histories THEN histories[p] ELSE EmptyRing
               after == [p \in DOMAIN histories \union sampled |->
                            IF p \in sampled THEN Pushed(before(p), <<tick + 1, Jaccard(p)>>) ELSE before(p)]
    <3>1. histories' = [p \in {q \in DOMAIN after : Kept(after[q])} |-> after[p]]
      BY <1>3 DEF Dream
    <3>2. DOMAIN after = DOMAIN histories \cup sampled
      OBVIOUS
    <3>3. \A p \in DOMAIN histories \cup sampled : after[p] = Turned(p)
      BY DEF Turned
    <3> HIDE DEF after, sampled
    <3> QED
      BY <3>1, <3>2, <3>3
  <2>3. \A p \in DOMAIN histories' : histories'[p] = Turned(p)
    <3> DEFINE before(p) == IF p \in DOMAIN histories THEN histories[p] ELSE EmptyRing
               after == [p \in DOMAIN histories \union sampled |->
                            IF p \in sampled THEN Pushed(before(p), <<tick + 1, Jaccard(p)>>) ELSE before(p)]
    <3>1. histories' = [p \in {q \in DOMAIN after : Kept(after[q])} |-> after[p]]
      BY <1>3 DEF Dream
    <3>2. DOMAIN after = DOMAIN histories \cup sampled
      OBVIOUS
    <3>3. \A p \in DOMAIN histories \cup sampled : after[p] = Turned(p)
      BY DEF Turned
    <3> HIDE DEF after, sampled
    <3> QED
      BY <3>1, <3>2, <3>3
  <2>4. ASSUME NEW p \in DOMAIN seen' PROVE SeenOK(seen[p])' /\ PairOK(p)'
    <3> DEFINE s == Dreamt(p)
               n == Len(s)
               kept == p \in DOMAIN histories'
    <3>0. p \in DOMAIN seen \cup sampled /\ seen'[p] = s
      BY <2>1, <2>4
    <3>1. /\ s \in Seq(Entries) /\ n > 0 /\ \A i \in 1 .. n : s[i][1] <= tick + 1
          /\ PairIs(s, kept, Turned(p), tick + 1)
      <4>1. kept <=> there(p) /\ Kept(Turned(p))
        BY <2>2
      <4> HIDE DEF kept
      <4> QED
        BY <3>0, <4>1, NightOfPair
    <3>2. kept => histories'[p] = Turned(p)
      BY <2>3
    <3> HIDE DEF s
    <3>3. SeenOK(seen[p])'
      BY <1>1, <3>0, <3>1 DEF SeenOK
    <3>4. PairOK(p)'
      <4>1. PairIs(s, kept, histories'[p], tick + 1)
        BY <3>1, <3>2 DEF PairIs
      <4> QED
        BY <1>1, <3>0, <4>1 DEF PairOK
    <3> QED
      BY <3>3, <3>4
  <2>5. DOMAIN histories' \subseteq DOMAIN seen'
    BY <1>0, <2>1, <2>2
  <2> QED
    BY <1>0, <1>1, <2>4, <2>5 DEF TermInv
<1> QED
  BY <1>2, <1>3

LEMMA TermSteps == TermInv /\ [TermNext]_termVars => TermInv'
<1> SUFFICES ASSUME TermInv, [TermNext]_termVars PROVE TermInv'
  OBVIOUS
<1>1. CASE Dream
  BY <1>1, DreamKeeps
<1>2. ASSUME NEW id, UNCHANGED <<histories, tick, seen>>, known' = known \/ known' = known \cup {id}
      PROVE  TermInv'
  <2>1. IsFiniteSet(known')
    BY <1>2, FS_AddElement DEF TermInv
  <2>2. \A p \in DOMAIN seen : SeenOK(seen[p])' /\ PairOK(p)'
    BY <1>2 DEF TermInv, SeenOK, PairOK
  <2> QED
    BY <1>2, <2>1, <2>2 DEF TermInv
<1>3. ASSUME NEW id, Learnt(id) \/ Toggled(id) PROVE TermInv'
  BY <1>2, <1>3 DEF Learnt, Toggled
<1>4. CASE UNCHANGED termVars
  BY <1>2, <1>4 DEF termVars
<1> QED
  BY <1>1, <1>3, <1>4 DEF TermNext

\* Whatever nights pass, whatever anchors come and go: the ring of a pair holds
\* its latest observations, and the rate is that of the last two.
THEOREM RingsStayTrue == TermSpec => [](RingHoldsTheLatest /\ RateIsOfTheLastTwo)
<1>1. TermInit => TermInv
  BY TermStarts
<1>2. TermInv /\ [TermNext]_termVars => TermInv'
  BY TermSteps
<1>3. TermInv => RingHoldsTheLatest /\ RateIsOfTheLastTwo
  <2> SUFFICES ASSUME TermInv PROVE RingHoldsTheLatest /\ RateIsOfTheLastTwo
    OBVIOUS
  <2>0. Cap \in Nat /\ Cap > 2
    BY RingAssumption
  <2>1. ASSUME NEW p \in DOMAIN histories
        PROVE  /\ histories[p].len \in 1 .. Len(seen[p]) /\ Len(seen[p]) \in Nat
               /\ InOrder(histories[p])
               /\ \A i \in 1 .. histories[p].len :
                      Ordered(histories[p])[i] = seen[p][Len(seen[p]) - histories[p].len + i]
    <3> DEFINE r == histories[p]
               s == seen[p]
    <3>1. Holds(r, s) /\ r.len > 0 /\ s \in Seq(Entries)
      BY <2>1 DEF TermInv, PairOK, PairIs, SeenOK
    <3>2. Len(s) \in Nat /\ r.len \in 0 .. Cap /\ r.len <= Len(s) /\ InOrder(r)
      BY <3>1 DEF Holds, InOrder, Rings
    <3> HIDE DEF r, s
    <3>3. ASSUME NEW i \in 1 .. r.len PROVE Ordered(r)[i] = s[Len(s) - r.len + i]
      <4>1. Ordered(r)[i] = Back(r, r.len - i)
        BY <3>2, OrderedIs
      <4>2. r.len - i \in 0 .. Cap - 1 /\ r.len - i < r.len
        BY <2>0, <3>2
      <4>3. Back(r, r.len - i) = s[Len(s) - (r.len - i)]
        BY <3>1, <4>2 DEF Holds
      <4>4. Len(s) - (r.len - i) = Len(s) - r.len + i
        BY <3>2
      <4> QED
        BY <4>1, <4>3, <4>4
    <3>4. r.len \in 1 .. Len(s)
      BY <3>1, <3>2
    <3> QED
      BY <3>2, <3>3, <3>4 DEF r, s
  <2>2. RingHoldsTheLatest
    <3> SUFFICES ASSUME NEW p \in DOMAIN histories
                 PROVE  LET o == Ordered(histories[p])
                        IN  Len(o) <= Len(seen[p]) /\ o = LastOf(seen[p], Len(o)) /\ Len(o) > 0
      BY DEF RingHoldsTheLatest
    <3> DEFINE o == Ordered(histories[p])
               m == histories[p].len
               s == seen[p]
    <3>1. m \in 1 .. Len(s) /\ Len(s) \in Nat
      BY <2>1
    <3>2. s \in Seq(Entries)
      BY DEF TermInv, SeenOK
    <3>3. o = [i \in 1 .. m |-> o[i]]
      BY DEF Ordered
    <3>4. \A i \in 1 .. m : o[i] = s[Len(s) - m + i]
      BY <2>1
    <3> HIDE DEF o, m, s
    <3>5. Len(o) = m
      BY <3>1, <3>3
    <3>6. SubSeq(s, Len(s) - m + 1, Len(s)) = [i \in 1 .. m |-> s[Len(s) - m + i]]
      <4>1. Len(s) - m + 1 \in 1 .. Len(s) + 1 /\ Len(s) \in 1 .. Len(s)
        BY <3>1
      <4>2. \A i \in 1 .. m : (Len(s) - m + 1) + i - 1 = Len(s) - m + i
        BY <3>1
      <4>3. 1 .. (Len(s) - (Len(s) - m + 1) + 1) = 1 .. m
        BY <3>1
      <4>4. SubSeq(s, Len(s) - m + 1, Len(s))
              = [i \in 1 .. (Len(s) - (Len(s) - m + 1) + 1) |-> s[(Len(s) - m + 1) + i - 1]]
        BY <3>1, <3>2
      <4> QED
        BY <4>2, <4>3, <4>4
    <3>7. o = LastOf(s, m)
      BY <3>3, <3>4, <3>6 DEF LastOf
    <3> QED
      BY <3>1, <3>5, <3>7 DEF o, s
  <2>3. RateIsOfTheLastTwo
    <3> SUFFICES ASSUME NEW p \in DOMAIN seen, Len(seen[p]) > 1,
                        tick - seen[p][Len(seen[p])][1] <= Stale,
                        seen[p][Len(seen[p])][1] - seen[p][Len(seen[p]) - 1][1] <= Stale
                 PROVE  /\ p \in DOMAIN histories
                        /\ LET n == Len(seen[p])
                           IN  Velocity(histories[p]) =
                                {(60 * (seen[p][n][2] - seen[p][n - 1][2]))
                                    \div (seen[p][n][1] - seen[p][n - 1][1])}
      BY DEF RateIsOfTheLastTwo
    <3>1. p \in DOMAIN histories /\ histories[p].len > 1
      BY DEF TermInv, PairOK, PairIs
    <3> DEFINE o == Ordered(histories[p])
               m == histories[p].len
               s == seen[p]
    <3>2. m \in 1 .. Len(s) /\ Len(s) \in Nat
      BY <2>1, <3>1
    <3>3. \A i \in 1 .. m : o[i] = s[Len(s) - m + i]
      BY <2>1, <3>1
    <3>4. Velocity(histories[p]) = IF m < 2 THEN {} ELSE
                {(60 * (o[m][2] - o[m - 1][2])) \div (o[m][1] - o[m - 1][1])}
      BY DEF Velocity
    <3> HIDE DEF o, m, s
    <3>5. m - 1 \in 1 .. m /\ m \in 1 .. m /\ ~(m < 2) /\ Len(s) - m + m = Len(s) /\ Len(s) - m + (m - 1) = Len(s) - 1
      BY <3>1, <3>2 DEF m
    <3>6. o[m] = s[Len(s)] /\ o[m - 1] = s[Len(s) - 1]
      BY <3>3, <3>5
    <3>7. Velocity(histories[p]) = {(60 * (s[Len(s)][2] - s[Len(s) - 1][2])) \div (s[Len(s)][1] - s[Len(s) - 1][1])}
      BY <3>4, <3>5, <3>6, Zenon
    <3> QED
      BY <3>1, <3>7 DEF s
  <2> QED
    BY <2>2, <2>3
<1> QED
  BY <1>1, <1>2, <1>3, PTL DEF TermSpec

-----------------------------------------------------------------------------
(***************************************************************************)
(* The mood (Affect)                                                       *)
(***************************************************************************)

-----------------------------------------------------------------------------
(* The scores                                                               *)

Level == {x \in Nat : x <= 1500}
Scores == [Emotions -> Level]

LEMMA EmotionsAre ==
  Emotions = {"joy", "trust", "fear", "surprise", "sadness", "boredom", "anger", "interest"}
<1>1. DOMAIN ALL = 1 .. 8
  BY DEF ALL
<1>2. Emotions = {ALL[k] : k \in 1 .. 8}
  BY <1>1 DEF Emotions, ToSet
<1>3. /\ ALL[1] = "joy" /\ ALL[2] = "trust" /\ ALL[3] = "fear" /\ ALL[4] = "surprise"
      /\ ALL[5] = "sadness" /\ ALL[6] = "boredom" /\ ALL[7] = "anger" /\ ALL[8] = "interest"
  BY DEF ALL
<1> HIDE DEF ALL
<1>4. \A k \in 1 .. 8 : k \in {1, 2, 3, 4, 5, 6, 7, 8}
  OBVIOUS
<1> QED
  BY <1>2, <1>3, <1>4

\* Whatever a stimulus adds, the scores are clamped.
LEMMA MovedIsTyped ==
  ASSUME NEW s \in Scores, NEW stimulus
  PROVE  Moved(s, stimulus) \in Scores
<1>1. \A e \in DOMAIN Moves(stimulus) : Moves(stimulus)[e] \in Int
  BY DEF Moves
<1>3. ASSUME NEW e \in Emotions, e \in DOMAIN Moves(stimulus)
      PROVE  Within(s[e] + Moves(stimulus)[e]) \in Level
  <2>1. s[e] + Moves(stimulus)[e] \in Int
    <3>0. \A x \in Level : x \in Int
      BY DEF Level
    <3>1. s[e] \in Int /\ Moves(stimulus)[e] \in Int
      <4> HIDE DEF Level
      <4> QED
        BY <1>1, <1>3, <3>0 DEF Scores
    <3> QED
      BY <3>1
  <2> DEFINE x == s[e] + Moves(stimulus)[e]
  <2> HIDE DEF x
  <2>2. x \in Int
    BY <2>1 DEF x
  <2>3. Within(x) \in Level
    BY <2>2 DEF Within, Level
  <2> QED
    BY <2>3 DEF x
<1>4. \A e \in Emotions : s[e] \in Level
  BY DEF Scores
<1>5. Moved(s, stimulus)
        = [e \in Emotions |-> IF e \in DOMAIN Moves(stimulus) THEN Within(s[e] + Moves(stimulus)[e]) ELSE s[e]]
  BY DEF Moved
<1> QED
  BY <1>3, <1>4, <1>5 DEF Scores

LEMMA DecayedIsTyped ==
  ASSUME NEW s \in Scores
  PROVE  Decayed(s) \in Scores
<1>2. ASSUME NEW e \in Emotions
      PROVE  (88 * s[e] + 12 * (IF e = Baseline THEN 450 ELSE 80)) \div 100 \in Level
  <2>1. s[e] \in Level
    BY DEF Scores
  <2> DEFINE x == s[e]
  <2>0. x \in Level
    BY <2>1
  <2> HIDE DEF x
  <2>2. (88 * x + 12 * 450) \div 100 \in Level /\ (88 * x + 12 * 80) \div 100 \in Level
    BY <2>0 DEF Level
  <2>3. CASE e = Baseline
    BY <2>2, <2>3 DEF x
  <2>4. CASE e # Baseline
    BY <2>2, <2>4 DEF x
  <2> QED
    BY <2>3, <2>4
<1> QED
  BY <1>2 DEF Decayed, Scores

Decays(f, n, s) == f = [k \in 0 .. n |-> IF k = 0 THEN s ELSE Decayed(f[k - 1])]

LEMMA TimesIsTyped ==
  ASSUME NEW s \in Scores, NEW n \in Nat
  PROVE  Times(n, s) \in Scores
<1> DEFINE P == {m \in 0 .. n : \E f : Decays(f, m, s)}
<1>1. 0 \in P
  <2>1. Decays([k \in 0 .. 0 |-> s], 0, s)
    BY DEF Decays
  <2> QED
    BY <2>1
<1>2. ASSUME NEW m \in 1 .. n, m - 1 \in P
      PROVE  m \in P
  <2>1. PICK f : Decays(f, m - 1, s)
    BY <1>2
  <2> DEFINE g == [k \in 0 .. m |-> IF k = m THEN Decayed(f[m - 1]) ELSE f[k]]
  <2>2. \A k \in 0 .. m : g[k] = IF k = 0 THEN s ELSE Decayed(g[k - 1])
    <3> TAKE k \in 0 .. m
    <3>1. CASE k = m
      <4>1. m - 1 \in 0 .. m /\ m - 1 # m /\ k # 0
        BY <3>1
      <4>2. g[m - 1] = f[m - 1] /\ g[m] = Decayed(f[m - 1])
        BY <4>1
      <4> QED
        BY <3>1, <4>1, <4>2
    <3>2. CASE k # m
      <4>1. k \in 0 .. m - 1
        BY <3>2
      <4>2. g[k] = f[k] /\ (k # 0 => g[k - 1] = f[k - 1])
        BY <3>2, <4>1
      <4>3. f[k] = IF k = 0 THEN s ELSE Decayed(f[k - 1])
        BY <2>1, <4>1 DEF Decays
      <4> QED
        BY <4>2, <4>3
    <3> QED
      BY <3>1, <3>2
  <2>3. Decays(g, m, s)
    BY <2>2 DEF Decays
  <2> HIDE DEF g
  <2> QED
    BY <2>3
<1>3. \E f : Decays(f, n, s)
  <2>1. 0 .. n \subseteq P
    <3> HIDE DEF P
    <3> QED
      BY <1>1, <1>2, IntervalInduction
  <2> QED
    BY <2>1
<1> DEFINE all == CHOOSE f : Decays(f, n, s)
<1>4. Decays(all, n, s)
  BY <1>3
<1>5. Times(n, s) = all[n]
  BY DEF Times, Decays
<1> HIDE DEF all, P
<1> DEFINE Q == {m \in 0 .. n : all[m] \in Scores}
<1>6. 0 \in Q
  BY <1>4 DEF Decays
<1>7. ASSUME NEW m \in 1 .. n, m - 1 \in Q
      PROVE  m \in Q
  <2>1. all[m] = Decayed(all[m - 1])
    BY <1>4, <1>7 DEF Decays
  <2> QED
    BY <1>7, <2>1, DecayedIsTyped
<1>8. 0 .. n \subseteq Q
  <2> HIDE DEF Q
  <2> QED
    BY <1>6, <1>7, IntervalInduction
<1> QED
  BY <1>5, <1>8

-----------------------------------------------------------------------------
(* The label                                                                *)

\* k is the first of the best of I, up to m.
FirstOf(v, I, m, k) ==
    k \in I /\ k <= m /\ \A j \in I : j <= m => v[j] < v[k] \/ (v[j] = v[k] /\ k <= j)

LEMMA FirstExists ==
  ASSUME NEW v \in [1 .. 8 -> Nat], NEW I \in SUBSET (1 .. 8), I # {}
  PROVE  \E k \in I : \A j \in I : v[j] < v[k] \/ (v[j] = v[k] /\ k <= j)
<1> DEFINE P == {m \in 0 .. 8 : (\E j \in I : j <= m) => \E k \in I : FirstOf(v, I, m, k)}
<1>0. \A j \in I : j \in 1 .. 8 /\ v[j] \in Int
  OBVIOUS
<1>1. 0 \in P
  BY <1>0
<1>2. ASSUME NEW m \in 1 .. 8, m - 1 \in P
      PROVE  m \in P
  <2> SUFFICES ASSUME NEW i \in I, i <= m PROVE \E k \in I : FirstOf(v, I, m, k)
    OBVIOUS
  <2>0. \A j \in I : j <= m <=> (j = m \/ j <= m - 1)
    BY <1>0
  <2>1. CASE ~ \E j \in I : j <= m - 1
    <3>1. i = m /\ \A j \in I : j <= m => j = m
      BY <1>0, <2>0, <2>1
    <3>2. FirstOf(v, I, m, m)
      BY <3>1 DEF FirstOf
    <3> QED
      BY <3>1, <3>2
  <2>2. CASE \E j \in I : j <= m - 1
    <3>1. PICK k \in I : FirstOf(v, I, m - 1, k)
      BY <1>2, <2>2
    <3>2. /\ k <= m - 1 /\ k \in 1 .. 8 /\ v[k] \in Int
          /\ \A j \in I : j <= m - 1 => v[j] < v[k] \/ (v[j] = v[k] /\ k <= j)
      BY <1>0, <3>1 DEF FirstOf
    <3>3. CASE m \in I /\ v[k] < v[m]
      <4>1. ASSUME NEW j \in I, j <= m PROVE v[j] < v[m] \/ (v[j] = v[m] /\ m <= j)
        <5>1. CASE j = m
          BY <5>1
        <5>2. CASE j # m
          BY <1>0, <2>0, <3>2, <3>3, <4>1, <5>2
        <5> QED
          BY <5>1, <5>2
      <4>2. FirstOf(v, I, m, m)
        BY <3>3, <4>1 DEF FirstOf
      <4> QED
        BY <3>3, <4>2
    <3>4. CASE ~(m \in I /\ v[k] < v[m])
      <4>1. ASSUME NEW j \in I, j <= m PROVE v[j] < v[k] \/ (v[j] = v[k] /\ k <= j)
        <5>1. CASE j = m
          BY <1>0, <3>2, <3>4, <5>1
        <5>2. CASE j # m
          BY <2>0, <3>2, <4>1, <5>2
        <5> QED
          BY <5>1, <5>2
      <4>2. FirstOf(v, I, m, k)
        BY <3>2, <4>1 DEF FirstOf
      <4> QED
        BY <4>2
    <3> QED
      BY <3>3, <3>4
  <2> QED
    BY <2>1, <2>2
<1>3. 8 \in P
  <2>1. 0 .. 8 \subseteq P
    <3> HIDE DEF P
    <3> QED
      BY <1>1, <1>2, IntervalInduction
  <2> QED
    BY <2>1
<1>4. PICK k \in I : FirstOf(v, I, 8, k)
  <2>0. \A i \in 1 .. 8 : i <= 8
    OBVIOUS
  <2>1. \E i \in I : i <= 8
    BY <1>0, <2>0, Zenon
  <2> QED
    BY <1>3, <2>1
<1>5. \A j \in I : v[j] < v[k] \/ (v[j] = v[k] /\ k <= j)
  BY <1>0, <1>4 DEF FirstOf
<1> QED
  BY <1>5

\* The emotion that comes first exists, and none among them is above it.
LEMMA ForemostIsFirst ==
  ASSUME NEW s \in Scores, NEW among \in SUBSET Emotions, among # {}
  PROVE  Foremost(s, among) \in among /\ \A e \in among : s[e] <= s[Foremost(s, among)]
<1>0. \A k \in 1 .. 8 : ALL[k] \in Emotions
  BY DEF Emotions, ToSet, ALL
<1>1. \A e \in Emotions : \E k \in 1 .. 8 : ALL[k] = e
  BY DEF Emotions, ToSet, ALL
<1> HIDE DEF ALL
<1> DEFINE v == [k \in 1 .. 8 |-> s[ALL[k]]]
           I == {k \in 1 .. 8 : ALL[k] \in among}
           best(k) == /\ ALL[k] \in among
                      /\ \A j \in 1 .. 8 : ALL[j] \in among =>
                            s[ALL[j]] < s[ALL[k]] \/ (s[ALL[j]] = s[ALL[k]] /\ k <= j)
<1>2. v \in [1 .. 8 -> Nat]
  <2>1. \A x \in Level : x \in Nat
    BY DEF Level
  <2> QED
    BY <1>0, <2>1 DEF Scores
<1>3. I \in SUBSET (1 .. 8) /\ I # {}
  BY <1>1
<1>4. \E k \in 1 .. 8 : best(k)
  <2>1. PICK k \in I : \A j \in I : v[j] < v[k] \/ (v[j] = v[k] /\ k <= j)
    <3> HIDE DEF v, I
    <3> QED
      BY <1>2, <1>3, FirstExists
  <2>2. k \in 1 .. 8 /\ ALL[k] \in among /\ v[k] = s[ALL[k]]
    BY <2>1
  <2>3. ASSUME NEW j \in 1 .. 8, ALL[j] \in among
        PROVE  s[ALL[j]] < s[ALL[k]] \/ (s[ALL[j]] = s[ALL[k]] /\ k <= j)
    <3>1. j \in I /\ v[j] = s[ALL[j]]
      BY <2>3
    <3> HIDE DEF v, I
    <3> QED
      BY <2>1, <2>2, <3>1, Zenon
  <2> QED
    BY <2>2, <2>3
<1> DEFINE top == CHOOSE k \in 1 .. 8 : best(k)
<1>5. top \in 1 .. 8 /\ best(top)
  <2> HIDE DEF best
  <2> QED
    BY <1>4
<1>6. Foremost(s, among) = ALL[top]
  BY DEF Foremost
<1> HIDE DEF top
<1>7. ASSUME NEW e \in among PROVE s[e] <= s[ALL[top]]
  <2>1. PICK j \in 1 .. 8 : ALL[j] = e
    BY <1>1
  <2>2. s[ALL[j]] < s[ALL[top]] \/ s[ALL[j]] = s[ALL[top]]
    BY <1>5, <2>1
  <2>3. v[j] = s[ALL[j]] /\ v[top] = s[ALL[top]] /\ v[j] \in Nat /\ v[top] \in Nat
    BY <1>2, <1>5
  <2> DEFINE x == v[j]
             y == v[top]
  <2>4. x \in Nat /\ y \in Nat /\ (x < y \/ x = y)
    BY <2>2, <2>3
  <2> HIDE DEF x, y
  <2>5. x <= y
    BY <2>4
  <2> QED
    BY <2>1, <2>3, <2>5 DEF x, y
<1> QED
  BY <1>5, <1>6, <1>7

Labels == Dyads \union {{e} : e \in Emotions}

Justified(l, s) ==
    /\ \E e \in l : \A f \in Emotions : s[f] <= s[e]
    /\ \A e \in l, f \in Emotions : 100 * s[e] >= 72 * s[f]

\* The label the scores resolve to is justified by them.
LEMMA ResolvedIsJustified ==
  ASSUME NEW s \in Scores
  PROVE  Resolved(s) \in Labels /\ Justified(Resolved(s), s)
<1> DEFINE top == Foremost(s, Emotions)
           second == Foremost(s, Emotions \ {top})
<1>0. \A e \in Emotions : s[e] \in Nat
  <2>1. \A x \in Level : x \in Nat
    BY DEF Level
  <2> QED
    BY <2>1 DEF Scores
<1>1. top \in Emotions /\ \A e \in Emotions : s[e] <= s[top]
  <2>1. Emotions # {} /\ Emotions \in SUBSET Emotions
    BY EmotionsAre
  <2> QED
    BY <2>1, ForemostIsFirst
<1> HIDE DEF top
<1>2. second \in Emotions
  <2>1. Emotions \ {top} # {} /\ Emotions \ {top} \in SUBSET Emotions
    <3>1. "joy" \in Emotions /\ "trust" \in Emotions /\ "joy" # "trust"
      BY EmotionsAre
    <3> QED
      BY <3>1
  <2> QED
    BY <2>1, ForemostIsFirst
<1> HIDE DEF second
<1>3. \A f \in Emotions : 100 * s[top] >= 72 * s[f]
  <2> SUFFICES ASSUME NEW f \in Emotions PROVE 100 * s[top] >= 72 * s[f]
    OBVIOUS
  <2> DEFINE x == s[f]
             y == s[top]
  <2>1. x <= y /\ x \in Nat /\ y \in Nat
    BY <1>0, <1>1
  <2> HIDE DEF x, y
  <2>2. 100 * y >= 72 * x
    BY <2>1
  <2> QED
    BY <2>2 DEF x, y
<1>4. CASE 100 * s[second] >= 72 * s[top] /\ {top, second} \in Dyads
  <2>1. Resolved(s) = {top, second}
    BY <1>4 DEF Resolved, top, second
  <2>2. \A f \in Emotions : 100 * s[second] >= 72 * s[f]
    <3> SUFFICES ASSUME NEW f \in Emotions PROVE 100 * s[second] >= 72 * s[f]
      OBVIOUS
    <3> DEFINE x == s[f]
               y == s[top]
               z == s[second]
    <3>1. x <= y /\ x \in Nat /\ y \in Nat /\ z \in Nat /\ 100 * z >= 72 * y
      BY <1>0, <1>1, <1>2, <1>4
    <3> HIDE DEF x, y, z
    <3>2. 100 * z >= 72 * x
      BY <3>1
    <3> QED
      BY <3>2 DEF x, z
  <2> QED
    BY <1>1, <1>3, <1>4, <2>1, <2>2 DEF Labels, Justified
<1>5. CASE ~(100 * s[second] >= 72 * s[top] /\ {top, second} \in Dyads)
  <2>1. Resolved(s) = {top}
    BY <1>5 DEF Resolved, top, second
  <2> QED
    BY <1>1, <1>3, <2>1 DEF Labels, Justified
<1> QED
  BY <1>4, <1>5

-----------------------------------------------------------------------------
(* The demand                                                               *)

Classes == {"Standard", "Cheap", "Broad", "Fast", "Lite", "Frontier", "Deep", "Local"}

LEMMA PreferredIsSome ==
  ASSUME NEW l
  PROVE  Preferred(l) \in Seq(Classes) /\ Preferred(l) # << >>
<1> DEFINE Demands ==
        {<<"Standard", "Cheap">>, <<"Broad", "Standard">>, <<"Fast", "Lite", "Cheap">>, <<"Fast", "Lite">>,
         <<"Frontier", "Deep">>, <<"Lite", "Fast", "Local">>, <<"Deep", "Standard">>, <<"Deep", "Local">>,
         <<"Standard", "Fast">>, <<"Broad", "Fast">>}
<1>1. Preferred(l) \in Demands
  BY DEF Preferred
<1>2. \A a, b \in Classes : <<a, b>> \in Seq(Classes) /\ <<a, b>> # << >>
  OBVIOUS
<1>3. \A a, b, c \in Classes : <<a, b, c>> \in Seq(Classes) /\ <<a, b, c>> # << >>
  OBVIOUS
<1>4. /\ "Standard" \in Classes /\ "Cheap" \in Classes /\ "Broad" \in Classes /\ "Fast" \in Classes
      /\ "Lite" \in Classes /\ "Frontier" \in Classes /\ "Deep" \in Classes /\ "Local" \in Classes
  BY DEF Classes
<1>5. \A d \in Demands : d \in Seq(Classes) /\ d # << >>
  BY <1>2, <1>3, <1>4, Zenon
<1> QED
  BY <1>1, <1>5

Drops(f, n, classes, dropped) ==
    f = [k \in 0 .. n |-> IF k = 0 THEN << >>
                          ELSE IF classes[k] \in dropped THEN f[k - 1] ELSE Append(f[k - 1], classes[k])]

\* What is dropped is gone.
LEMMA WithoutDrops ==
  ASSUME NEW classes \in Seq(Classes), NEW dropped
  PROVE  Without(classes, dropped) \in Seq(Classes \ dropped)
<1> DEFINE n == Len(classes)
           step(f, k) == IF classes[k] \in dropped THEN f[k - 1] ELSE Append(f[k - 1], classes[k])
           P == {m \in 0 .. n : \E f : Drops(f, m, classes, dropped)}
<1>0. n \in Nat
  OBVIOUS
<1> HIDE DEF n
<1>1. 0 \in P
  <2>1. Drops([k \in 0 .. 0 |-> << >>], 0, classes, dropped)
    BY DEF Drops
  <2> QED
    BY <1>0, <2>1
<1>2. ASSUME NEW m \in 1 .. n, m - 1 \in P
      PROVE  m \in P
  <2>1. PICK f : Drops(f, m - 1, classes, dropped)
    BY <1>2
  <2> DEFINE g == [k \in 0 .. m |-> IF k = m THEN step(f, m) ELSE f[k]]
  <2>2. \A k \in 0 .. m : g[k] = IF k = 0 THEN << >> ELSE step(g, k)
    <3> TAKE k \in 0 .. m
    <3>1. CASE k = m
      <4>1. m - 1 \in 0 .. m /\ m - 1 # m /\ k # 0
        BY <3>1
      <4>2. g[m - 1] = f[m - 1] /\ g[m] = step(f, m)
        BY <4>1
      <4> QED
        BY <3>1, <4>1, <4>2
    <3>2. CASE k # m
      <4>1. k \in 0 .. m - 1
        BY <3>2
      <4>2. g[k] = f[k] /\ (k # 0 => g[k - 1] = f[k - 1])
        BY <3>2, <4>1
      <4>3. f[k] = IF k = 0 THEN << >> ELSE step(f, k)
        BY <2>1, <4>1 DEF Drops
      <4> QED
        BY <4>2, <4>3
    <3> QED
      BY <3>1, <3>2
  <2>3. Drops(g, m, classes, dropped)
    BY <2>2 DEF Drops
  <2> HIDE DEF g
  <2> QED
    BY <2>3
<1>3. \E f : Drops(f, n, classes, dropped)
  <2>1. 0 .. n \subseteq P
    <3> HIDE DEF P
    <3> QED
      BY <1>0, <1>1, <1>2, IntervalInduction
  <2> QED
    BY <1>0, <2>1
<1> DEFINE all == CHOOSE f : Drops(f, n, classes, dropped)
<1>4. Drops(all, n, classes, dropped)
  BY <1>3
<1>5. Without(classes, dropped) = all[n]
  BY DEF Without, Drops, n
<1> HIDE DEF all, P
<1>40. \A k \in 0 .. n : all[k] = IF k = 0 THEN << >> ELSE step(all, k)
  BY <1>4 DEF Drops
<1> DEFINE Q == {m \in 0 .. n : all[m] \in Seq(Classes \ dropped)}
<1>6. 0 \in Q
  <2>1. all[0] = << >>
    BY <1>0, <1>40
  <2>2. 0 \in 0 .. n /\ << >> \in Seq(Classes \ dropped)
    BY <1>0
  <2> QED
    BY <2>1, <2>2
<1>7. ASSUME NEW m \in 1 .. n, m - 1 \in Q
      PROVE  m \in Q
  <2>1. all[m] = IF classes[m] \in dropped THEN all[m - 1] ELSE Append(all[m - 1], classes[m])
    <3>1. m \in 0 .. n /\ m # 0
      BY <1>0
    <3> QED
      BY <1>40, <3>1
  <2>2. classes[m] \in Classes
    BY DEF n
  <2>3. CASE classes[m] \in dropped
    BY <1>7, <2>1, <2>3
  <2>4. CASE classes[m] \notin dropped
    <3>0. all[m - 1] \in Seq(Classes \ dropped) /\ classes[m] \in Classes \ dropped
      BY <1>7, <2>2, <2>4
    <3>1. Append(all[m - 1], classes[m]) \in Seq(Classes \ dropped)
      BY <3>0, AppendProperties
    <3>2. all[m] = Append(all[m - 1], classes[m])
      BY <2>1, <2>4
    <3>3. m \in 0 .. n
      BY <1>0
    <3> QED
      BY <3>1, <3>2, <3>3
  <2> QED
    BY <2>3, <2>4
<1>8. 0 .. n \subseteq Q
  <2> HIDE DEF Q
  <2> QED
    BY <1>0, <1>6, <1>7, IntervalInduction
<1> QED
  BY <1>0, <1>5, <1>8

Pressures == {0, 50, 75, 90}

LEMMA DemandFits ==
  ASSUME pressure \in Pressures
  PROVE  DemandFitsTheBudget
<1> DEFINE classes == Preferred(label)
<1>1. classes \in Seq(Classes) /\ classes # << >>
  BY PreferredIsSome
<1>2. ModelDemand = Demoted(classes, pressure)
  BY DEF ModelDemand
<1> HIDE DEF classes
<1>3. CASE pressure = 0
  <2>1. ModelDemand = classes
    BY <1>2, <1>3 DEF Demoted
  <2> QED
    BY <1>1, <1>3, <2>1 DEF DemandFitsTheBudget
<1>4. CASE pressure = 50
  <2> DEFINE kept == Without(classes, {"Frontier"})
  <2>1. ModelDemand = OrElse(kept, <<"Standard", "Deep">>)
    BY <1>2, <1>4 DEF Demoted
  <2>2. kept \in Seq(Classes \ {"Frontier"})
    BY <1>1, WithoutDrops
  <2>3. <<"Standard", "Deep">> \in Seq(Classes \ {"Frontier"}) /\ <<"Standard", "Deep">> # << >>
    BY DEF Classes
  <2> HIDE DEF kept
  <2>4. ModelDemand \in Seq(Classes \ {"Frontier"}) /\ ModelDemand # << >>
    BY <2>1, <2>2, <2>3 DEF OrElse
  <2>5. ~Contains(ModelDemand, "Frontier")
    BY <2>4 DEF Contains
  <2> QED
    BY <1>4, <2>4, <2>5 DEF DemandFitsTheBudget
<1>5. CASE pressure = 75
  <2> DEFINE bare == Without(classes, {"Frontier", "Deep"})
             kept == OrElse(bare, <<"Lite", "Cheap">>)
             Left == Classes \ {"Frontier", "Deep"}
  <2>1. ModelDemand = IF Contains(kept, "Cheap") THEN kept ELSE Append(kept, "Cheap")
    BY <1>2, <1>5 DEF Demoted
  <2>2. bare \in Seq(Left)
    BY <1>1, WithoutDrops
  <2>3. <<"Lite", "Cheap">> \in Seq(Left) /\ <<"Lite", "Cheap">> # << >> /\ "Cheap" \in Left
    BY DEF Classes
  <2>9. "Frontier" \notin Left /\ "Deep" \notin Left
    OBVIOUS
  <2> HIDE DEF bare, Left
  <2>4. kept \in Seq(Left) /\ kept # << >>
    BY <2>2, <2>3 DEF OrElse
  <2> HIDE DEF kept
  <2>5. /\ Append(kept, "Cheap") \in Seq(Left) /\ Append(kept, "Cheap") # << >>
        /\ Contains(Append(kept, "Cheap"), "Cheap")
    <3>1. /\ Append(kept, "Cheap") \in Seq(Left) /\ Len(Append(kept, "Cheap")) = Len(kept) + 1
          /\ Append(kept, "Cheap")[Len(kept) + 1] = "Cheap" /\ Len(kept) \in Nat
      BY <2>3, <2>4, AppendProperties
    <3> QED
      BY <3>1 DEF Contains
  <2>6. ModelDemand \in Seq(Left) /\ ModelDemand # << >> /\ Contains(ModelDemand, "Cheap")
    BY <2>1, <2>4, <2>5
  <2>7. ~Contains(ModelDemand, "Frontier") /\ ~Contains(ModelDemand, "Deep")
    BY <2>6, <2>9 DEF Contains
  <2> QED
    BY <1>5, <2>6, <2>7 DEF DemandFitsTheBudget
<1>6. CASE pressure = 90
  <2>1. ModelDemand = <<"Local", "Cheap", "Lite">>
    BY <1>2, <1>6 DEF Demoted
  <2> QED
    BY <1>6, <2>1 DEF DemandFitsTheBudget, Contains
<1> QED
  BY <1>3, <1>4, <1>5, <1>6 DEF Pressures

-----------------------------------------------------------------------------
(* The mood                                                                 *)

AffectInv == scores \in Scores /\ label \in Labels /\ Justified(label, scores) /\ pressure \in Pressures

LEMMA AffectStarts == AffectInit => AffectInv
<1> SUFFICES ASSUME AffectInit PROVE AffectInv
  OBVIOUS
<1>1. Baseline \in Emotions
  BY EmotionsAre DEF Baseline
<1>2. scores \in Scores /\ \A e \in Emotions : scores[e] = IF e = Baseline THEN 550 ELSE 50
  <2>1. 550 \in Level /\ 50 \in Level
    BY DEF Level
  <2> QED
    BY <2>1 DEF AffectInit, Scores
<1>3. label = {Baseline} /\ pressure \in Pressures
  BY DEF AffectInit, Pressures
<1>4. Justified(label, scores)
  BY <1>1, <1>2, <1>3 DEF Justified
<1> QED
  BY <1>1, <1>2, <1>3, <1>4 DEF AffectInv, Labels

LEMMA AffectSteps == AffectInv /\ [AffectNext]_affectVars => AffectInv'
<1> SUFFICES ASSUME AffectInv, [AffectNext]_affectVars PROVE AffectInv'
  OBVIOUS
<1>1. ASSUME NEW s \in Scores, scores' = s, label' = Resolved(s), pressure' \in Pressures PROVE AffectInv'
  BY <1>1, ResolvedIsJustified DEF AffectInv
<1>2. ASSUME NEW stimulus \in Stimuli, Stimulus(stimulus) PROVE AffectInv'
  <2>1. Moved(scores, stimulus) \in Scores
    BY MovedIsTyped DEF AffectInv
  <2> QED
    BY <1>1, <1>2, <2>1 DEF Stimulus, AffectInv
<1>3. ASSUME NEW p \in {0, 50, 75, 90}, BudgetPressure(p) PROVE AffectInv'
  <2> DEFINE s == IF p >= 75 THEN Moved(scores, "pressure") ELSE scores
  <2>1. s \in Scores
    BY MovedIsTyped DEF AffectInv
  <2>2. scores' = s /\ label' = Resolved(s) /\ pressure' \in Pressures
    BY <1>3 DEF BudgetPressure, Pressures
  <2> HIDE DEF s
  <2> QED
    BY <1>1, <2>1, <2>2
<1>4. ASSUME Decay(8) PROVE AffectInv'
  <2>1. Times(8, scores) \in Scores
    BY TimesIsTyped DEF AffectInv
  <2> QED
    BY <1>1, <1>4, <2>1 DEF Decay, AffectInv
<1>5. CASE UNCHANGED affectVars
  BY <1>5 DEF affectVars, AffectInv, Justified
<1> QED
  BY <1>2, <1>3, <1>4, <1>5 DEF AffectNext

\* Whatever moves the scores, the label is justified by them, and the classes
\* of model it asks for fit the budget.
THEOREM MoodsStayJustified == AffectSpec => [](AffectTypeOK /\ LabelIsJustified /\ DemandFitsTheBudget)
<1>1. AffectInit => AffectInv
  BY AffectStarts
<1>2. AffectInv /\ [AffectNext]_affectVars => AffectInv'
  BY AffectSteps
<1>3. AffectInv => AffectTypeOK /\ LabelIsJustified /\ DemandFitsTheBudget
  <2> SUFFICES ASSUME AffectInv PROVE AffectTypeOK /\ LabelIsJustified /\ DemandFitsTheBudget
    OBVIOUS
  <2>1. AffectTypeOK
    <3>2. \A e \in Emotions : scores[e] \in Level
      BY DEF AffectInv, Scores
    <3>3. ASSUME NEW e \in Emotions PROVE scores[e] \in 0 .. 1500
      <4> DEFINE x == scores[e]
      <4>1. x \in Level
        BY <3>2
      <4> HIDE DEF x
      <4>2. x \in 0 .. 1500
        BY <4>1 DEF Level
      <4> QED
        BY <4>2 DEF x
    <3> QED
      BY <3>3, Zenon DEF AffectInv, AffectTypeOK, Labels
  <2>2. LabelIsJustified
    BY DEF AffectInv, Justified, LabelIsJustified
  <2>3. DemandFitsTheBudget
    BY DemandFits DEF AffectInv
  <2> QED
    BY <2>1, <2>2, <2>3
<1> QED
  BY <1>1, <1>2, <1>3, PTL DEF AffectSpec

-----------------------------------------------------------------------------
(* All measures                                                             *)

\* What cognition measures is true: drift is bounded by what is under way,
\* the rates are those of what came last, the label and the model it asks for
\* are justified by the scores and the budget.
THEOREM MeasuresStayTrue == SatiSpec /\ TermSpec /\ AffectSpec => []MeasuresAreTrue
<1>1. SatiSpec => [](SatiTypeOK /\ ChainIsBounded /\ HarnessAgrees)
  BY DriftStaysBounded
<1>2. TermSpec => [](RingHoldsTheLatest /\ RateIsOfTheLastTwo)
  BY RingsStayTrue
<1>3. AffectSpec => [](AffectTypeOK /\ LabelIsJustified /\ DemandFitsTheBudget)
  BY MoodsStayJustified
<1>4. /\ SatiTypeOK /\ ChainIsBounded /\ HarnessAgrees
      /\ RingHoldsTheLatest /\ RateIsOfTheLastTwo
      /\ AffectTypeOK /\ LabelIsJustified /\ DemandFitsTheBudget
      => MeasuresAreTrue
  BY DEF MeasuresAreTrue
<1> QED
  BY <1>1, <1>2, <1>3, <1>4, PTL

\* The parts of cognition side by side, as they are model-checked: a step of
\* one leaves the others where they were, so each keeps its promise.
THEOREM CognitionStaysTrue == MCSpec => [](NightIsLogged /\ MeasuresAreTrue /\ BriefingIsEligible)
<1>1. MCInit => NightInit /\ SatiInit /\ AffectInit /\ TermInit /\ CurationInit
  BY DEF MCInit
<1>2. [MCNext]_<<nightVars, satiVars, affectVars, termVars, curationVars>>
        => /\ [NightNext]_nightVars /\ [SatiNext]_satiVars /\ [AffectNext]_affectVars
           /\ [TermNext]_termVars /\ [CurationNext]_curationVars
  BY DEF MCNext
<1>3. MCSpec => NightSpec /\ SatiSpec /\ AffectSpec /\ TermSpec /\ CurationSpec
  BY <1>1, <1>2, PTL DEF MCSpec, NightSpec, SatiSpec, AffectSpec, TermSpec, CurationSpec
<1> QED
  BY <1>3, NightsStayLogged, MeasuresStayTrue, BriefingsStayEligible, PTL
=============================================================================
