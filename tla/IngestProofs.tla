----------------------------- MODULE IngestProofs -----------------------------
(***************************************************************************)
(* Proofs about MentionIngest.                                             *)
(***************************************************************************)
EXTENDS MentionIngest, WellFoundedInduction, FiniteSetTheorems, SequenceTheorems, TLAPS

-----------------------------------------------------------------------------
(* Induction, for sets of numbers: the library states it for predicates.    *)

LEMMA SetInduction ==
  ASSUME NEW P, 0 \in P, \A n \in Nat : n \in P => n + 1 \in P
  PROVE  Nat \subseteq P
<1> DEFINE R == OpToRel(<, Nat)
<1> DEFINE T == Nat \ P
<1>1. IsWellFoundedOn(R, Nat)
  BY NatLessThanWellFounded
<1>2. \A x, y \in Nat : y < x => <<y, x>> \in R
  BY DEF OpToRel
<1> HIDE DEF R
<1>3. SUFFICES ASSUME T # {} PROVE FALSE
  OBVIOUS
<1>4. PICK x \in T : \A y \in T : ~ (<<y, x>> \in R)
  BY <1>1, <1>3, WFMin
<1>5. x \in Nat /\ x # 0
  OBVIOUS
<1>6. x - 1 \in Nat /\ x - 1 < x /\ x = (x - 1) + 1
  BY <1>5
<1>7. x - 1 \in T
  BY <1>6
<1>8. <<x - 1, x>> \in R
  BY <1>2, <1>5, <1>6
<1> QED
  BY <1>4, <1>7, <1>8

LEMMA IntervalInduction ==
  ASSUME NEW n \in Nat, NEW P, 0 \in P, \A s \in 1 .. n : s - 1 \in P => s \in P
  PROVE  0 .. n \subseteq P
<1> DEFINE Q == {s \in Nat : s <= n => s \in P}
<1>1. 0 \in Q
  OBVIOUS
<1>2. ASSUME NEW s \in Nat, s \in Q
      PROVE  s + 1 \in Q
  <2>1. CASE s + 1 <= n
    <3>1. s + 1 \in 1 .. n /\ (s + 1) - 1 = s /\ s \in P
      BY <1>2, <2>1
    <3> QED
      BY <3>1
  <2> QED
    BY <1>2, <2>1
<1>3. Nat \subseteq Q
  <2> HIDE DEF Q
  <2> QED
    BY <1>1, <1>2, SetInduction
<1> QED
  BY <1>3

\* The loop of apply_batch is what its recursive definition says: there is a
\* state after every turn.
LEMMA LoopUnfolds ==
  ASSUME NEW start, NEW S
  PROVE  \E after :
            /\ after = [s \in 0 .. Height |->
                          IF s = 0 THEN start ELSE Continued(after[s - 1], s, S)]
            /\ Loop(start, S) = after[Height]
<1> USE LedgersAssumption
<1> DEFINE Run(f, n) == f = [s \in 0 .. n |-> IF s = 0 THEN start ELSE Continued(f[s - 1], s, S)]
<1> DEFINE P == {n \in 0 .. Height : \E f : Run(f, n)}
<1>1. 0 \in P
  <2>1. Run([s \in 0 .. 0 |-> start], 0)
    OBVIOUS
  <2> HIDE DEF Run
  <2> QED
    BY <2>1
<1>2. ASSUME NEW n \in 1 .. Height, n - 1 \in P
      PROVE  n \in P
  <2>1. PICK f : Run(f, n - 1)
    BY <1>2
  <2> DEFINE g == [s \in 0 .. n |-> IF s = n THEN Continued(f[n - 1], n, S) ELSE f[s]]
  <2>2. \A s \in 0 .. n : g[s] = IF s = 0 THEN start ELSE Continued(g[s - 1], s, S)
    <3> TAKE s \in 0 .. n
    <3>1. CASE s = n
      BY <3>1
    <3>2. CASE s # n
      <4>1. s \in 0 .. n - 1
        BY <3>2
      <4>2. g[s] = f[s] /\ (s # 0 => g[s - 1] = f[s - 1])
        BY <3>2, <4>1
      <4> QED
        BY <2>1, <4>1, <4>2
    <3> QED
      BY <3>1, <3>2
  <2>3. Run(g, n)
    BY <2>2
  <2> HIDE DEF Run, g
  <2> QED
    BY <2>3
<1>3. \E f : Run(f, Height)
  <2>1. 0 .. Height \subseteq P
    <3> HIDE DEF P
    <3> QED
      BY <1>1, <1>2, IntervalInduction
  <2> QED
    BY <2>1
<1> DEFINE after == CHOOSE f : Run(f, Height)
<1>4. Run(after, Height)
  BY <1>3
<1>5. Loop(start, S) = after[Height]
  BY DEF Loop
<1> QED
  BY <1>4, <1>5
-----------------------------------------------------------------------------
(* The invariant                                                            *)

States ==
    [last : 0 .. Height, gap : BOOLEAN, ring : Seq(Seqs), queue : Seq(Considerations),
     fate : [Seqs -> Fates], jumped : SUBSET Seqs]

WithinBounds(st) ==
    /\ Len(st.ring) <= DedupeCapacity
    /\ Len(st.queue) <= ConsiderationCapacity
    /\ \A a \in Actors : PendingForActor(st, a) <= MaxPendingPerActor

\* Every event up to n was looked at, or left to the operator.
LookedAt(st, n) == \A s \in 1 .. n : st.fate[s] # "unseen" \/ s \in st.jumped

\* So is everything behind the cursor and behind each key of the ring: after a
\* rewind the keys are ahead of the cursor, and the loop steps over them.
Thorough(st) ==
    /\ LookedAt(st, st.last)
    /\ \A k \in DOMAIN st.ring : LookedAt(st, st.ring[k])

Alone(st) ==
    \A i, j \in DOMAIN st.queue : st.queue[i].seq = st.queue[j].seq => i = j

Waits(st, s) == \E i \in Pending(st) : st.queue[i].seq = s

\* What was considered waits or was handed over, and what the queue says was
\* handed over was.
Kept(st, h) ==
    /\ \A s \in Seqs : st.fate[s] = "considered" => h[s] > 0 \/ Waits(st, s)
    /\ \A i \in DOMAIN st.queue : st.queue[i].enqueued => h[st.queue[i].seq] > 0

Good(st, h) ==
    st \in States /\ WithinBounds(st) /\ Thorough(st) /\ Alone(st) /\ Kept(st, h)

\* Unless the cursor was rewound, ring and queue hold what is behind it.
Behind(st) ==
    /\ \A k \in DOMAIN st.ring : st.ring[k] <= st.last
    /\ \A i \in DOMAIN st.queue : st.queue[i].seq <= st.last

\* What was handed over once, and neither forgotten nor replayed, is behind
\* the cursor and waits no more.
Done(st, h) == \A s \in Seqs : h[s] < 2 /\ (h[s] > 0 => s <= st.last /\ ~ Waits(st, s))

IngestInv ==
    /\ ledger \in [Seqs -> EventBodies] /\ handed \in [Seqs -> 0 .. 2]
    /\ crashes \in Nat /\ forced \in Nat /\ rewound \in BOOLEAN
    /\ Good(state, handed) /\ Good(disk, handed)
    /\ ~ rewound => Behind(state) /\ Behind(disk)
    /\ crashes = 0 /\ ~ rewound => Done(state, handed)

-----------------------------------------------------------------------------
(* The queue                                                                *)

LEMMA RemoveAtProperties ==
  ASSUME NEW T, NEW q \in Seq(T), NEW i \in 1 .. Len(q)
  PROVE  /\ RemoveAt(q, i) \in Seq(T)
         /\ Len(RemoveAt(q, i)) = Len(q) - 1
         /\ \A j \in 1 .. Len(q) - 1 : RemoveAt(q, i)[j] = IF j < i THEN q[j] ELSE q[j + 1]
<1> DEFINE front == SubSeq(q, 1, i - 1)
           back == SubSeq(q, i + 1, Len(q))
<1>1. Len(q) \in Nat /\ i \in Nat /\ i <= Len(q) /\ 1 <= i /\ \A j \in 1 .. Len(q) : q[j] \in T
  BY LenProperties, ElementOfSeq
<1>2. \A j \in 1 .. i - 1 : q[j] \in T
  BY <1>1
<1>3. /\ front \in Seq(T)
      /\ Len(front) = i - 1
      /\ \A j \in 1 .. i - 1 : front[j] = q[j]
  <2>1. /\ front \in Seq(T)
        /\ Len(front) = IF 1 <= i - 1 THEN (i - 1) - 1 + 1 ELSE 0
        /\ \A j \in 1 .. (i - 1) - 1 + 1 : front[j] = q[1 + j - 1]
    <3>1. 1 \in Int /\ i - 1 \in Int
      BY <1>1
    <3> QED
      BY <1>2, <3>1, SubSeqProperties
  <2> QED
    BY <1>1, <2>1
<1>4. /\ back \in Seq(T)
      /\ Len(back) = Len(q) - i
      /\ \A j \in 1 .. Len(q) - i : back[j] = q[i + j]
  <2>1. \A j \in i + 1 .. Len(q) : q[j] \in T
    BY <1>1
  <2>2. /\ back \in Seq(T)
        /\ Len(back) = IF i + 1 <= Len(q) THEN Len(q) - (i + 1) + 1 ELSE 0
        /\ \A j \in 1 .. Len(q) - (i + 1) + 1 : back[j] = q[(i + 1) + j - 1]
    <3>1. i + 1 \in Int /\ Len(q) \in Int
      BY <1>1
    <3> QED
      BY <2>1, <3>1, SubSeqProperties
  <2> QED
    BY <1>1, <2>2
<1> HIDE DEF front, back
<1>5. /\ front \o back \in Seq(T)
      /\ Len(front \o back) = Len(front) + Len(back)
      /\ \A j \in 1 .. Len(front) + Len(back) :
            (front \o back)[j] = IF j <= Len(front) THEN front[j] ELSE back[j - Len(front)]
  BY <1>3, <1>4, ConcatProperties
<1>6. RemoveAt(q, i) = front \o back
  BY DEF RemoveAt, front, back
<1>7. ASSUME NEW j \in 1 .. Len(q) - 1
      PROVE  (front \o back)[j] = IF j < i THEN q[j] ELSE q[j + 1]
  <2>1. CASE j < i
    BY <1>1, <1>3, <1>4, <1>5, <2>1
  <2>2. CASE ~ (j < i)
    <3> DEFINE k == j - (i - 1)
    <3>1. k \in 1 .. Len(q) - i /\ i + k = j + 1 /\ j - Len(front) = k /\ ~ (j <= Len(front))
      BY <1>1, <1>3, <2>2
    <3>2. j \in 1 .. Len(front) + Len(back)
      BY <1>1, <1>3, <1>4
    <3> HIDE DEF k
    <3>3. (front \o back)[j] = back[k]
      BY <1>5, <3>1, <3>2
    <3>4. back[k] = q[j + 1]
      BY <1>4, <3>1
    <3> QED
      BY <2>2, <3>3, <3>4
  <2> QED
    BY <2>1, <2>2
<1>8. Len(front) + Len(back) = Len(q) - 1
  BY <1>1, <1>3, <1>4
<1> QED
  BY <1>5, <1>6, <1>7, <1>8

\* All that the queue's operators look at is the queue.
LEMMA SameQueue ==
  ASSUME NEW st, NEW r, r.queue = st.queue
  PROVE  /\ Pending(r) = Pending(st)
         /\ \A a : PendingForActor(r, a) = PendingForActor(st, a)
         /\ \A s : Waits(r, s) <=> Waits(st, s)
         /\ \A s : HasConsiderationFor(r, s) <=> HasConsiderationFor(st, s)
         /\ Evictable(r) = Evictable(st) /\ (IsFull(r) <=> IsFull(st))
BY DEF Pending, PendingForActor, Waits, HasConsiderationFor, Evictable, IsFull

\* kept holds entries of q, g telling from where, each at most once.
Picks(g, kept, q) ==
    /\ g \in [DOMAIN kept -> DOMAIN q]
    /\ \A i, j \in DOMAIN kept : g[i] = g[j] => i = j
    /\ \A j \in DOMAIN kept : kept[j] = q[g[j]]

Spares(g, kept, st) == \A i \in Pending(st) : \E j \in DOMAIN kept : g[j] = i

\* Making room takes an entry that was handed over, if any: what is left are
\* entries of the old queue, each at most once, and all that wait.
LEMMA RoomIsMade ==
  ASSUME NEW st \in States, Len(st.queue) <= ConsiderationCapacity,
         ~ (IsFull(st) /\ Evictable(st) = {}),
         NEW kept, kept = IF IsFull(st) THEN RemoveAt(st.queue, CHOOSE i \in Evictable(st) : TRUE)
                          ELSE st.queue
  PROVE  /\ kept \in Seq(Considerations) /\ Len(kept) + 1 <= ConsiderationCapacity
         /\ \E g : Picks(g, kept, st.queue) /\ Spares(g, kept, st)
<1> DEFINE q == st.queue
<1>1. q \in Seq(Considerations) /\ Len(q) \in Nat /\ DOMAIN q = 1 .. Len(q)
  BY LenProperties DEF States
<1>2. ConsiderationCapacity \in Nat
  BY MentionIngestAssumption DEF ValidConfig
<1>3. CASE ~ IsFull(st)
  <2> DEFINE g == [j \in DOMAIN kept |-> j]
  <2>1. kept = q
    BY <1>3
  <2>2. Len(q) + 1 <= ConsiderationCapacity
    BY <1>1, <1>2, <1>3 DEF IsFull
  <2>3. Picks(g, kept, q) /\ Spares(g, kept, st)
    BY <2>1 DEF Pending, Picks, Spares
  <2> HIDE DEF g
  <2> QED
    BY <1>1, <2>1, <2>2, <2>3
<1>4. CASE IsFull(st)
  <2> DEFINE e == CHOOSE i \in Evictable(st) : TRUE
             g == [j \in DOMAIN kept |-> IF j < e THEN j ELSE j + 1]
  <2>1. e \in Evictable(st)
    BY <1>4
  <2>2. e \in 1 .. Len(q) /\ q[e].enqueued
    BY <1>1, <2>1 DEF Evictable
  <2>3. kept = RemoveAt(q, e)
    BY <1>4
  <2> HIDE DEF e
  <2>4. /\ kept \in Seq(Considerations)
        /\ Len(kept) = Len(q) - 1
        /\ \A j \in 1 .. Len(q) - 1 : kept[j] = IF j < e THEN q[j] ELSE q[j + 1]
    <3> HIDE DEF q, g
    <3>1. /\ RemoveAt(q, e) \in Seq(Considerations)
          /\ Len(RemoveAt(q, e)) = Len(q) - 1
          /\ \A j \in 1 .. Len(q) - 1 : RemoveAt(q, e)[j] = IF j < e THEN q[j] ELSE q[j + 1]
      BY <1>1, <2>2, RemoveAtProperties
    <3> QED
      BY <2>3, <3>1
  <2>5. DOMAIN kept = 1 .. Len(q) - 1
    <3>1. DOMAIN kept = 1 .. Len(kept)
      BY <2>4, LenProperties
    <3> QED
      BY <2>4, <3>1
  <2>6. g \in [DOMAIN kept -> DOMAIN q]
    <3>1. \A j \in 1 .. Len(q) - 1 : (IF j < e THEN j ELSE j + 1) \in 1 .. Len(q)
      BY <1>1, <2>2
    <3> QED
      BY <1>1, <2>5, <3>1
  <2>7. \A i, j \in DOMAIN kept : g[i] = g[j] => i = j
    BY <1>1, <2>2, <2>5
  <2>8. \A j \in DOMAIN kept : kept[j] = q[g[j]]
    BY <2>4, <2>5
  <2>9. ASSUME NEW i \in Pending(st)
        PROVE  \E j \in DOMAIN kept : g[j] = i
    <3>1. i \in 1 .. Len(q) /\ i # e
      BY <1>1, <2>2 DEF Pending
    <3>2. CASE i < e
      <4>1. i \in DOMAIN kept /\ g[i] = i
        BY <1>1, <2>2, <2>5, <3>1, <3>2
      <4> QED
        BY <4>1
    <3>3. CASE ~ (i < e)
      <4>1. i - 1 \in DOMAIN kept /\ g[i - 1] = i
        BY <1>1, <2>2, <2>5, <3>1, <3>3
      <4> QED
        BY <4>1
    <3> QED
      BY <3>2, <3>3
  <2>10. Len(kept) + 1 <= ConsiderationCapacity
    BY <1>1, <1>2, <2>4
  <2>11. Picks(g, kept, q) /\ Spares(g, kept, st)
    <3> HIDE DEF g
    <3> QED
      BY <2>6, <2>7, <2>8, <2>9 DEF Picks, Spares
  <2> HIDE DEF g
  <2> QED
    BY <2>4, <2>10, <2>11
<1> QED
  BY <1>3, <1>4

\* No more than one entry of an actor is new.
LEMMA ShareGrows ==
  ASSUME NEW st \in States, NEW r, NEW kept \in Seq(Considerations), NEW c \in Considerations,
         r.queue = Append(kept, c),
         NEW g, Picks(g, kept, st.queue), NEW a
  PROVE  /\ PendingForActor(st, a) \in Nat /\ PendingForActor(r, a) \in Nat
         /\ PendingForActor(r, a) <= PendingForActor(st, a) + 1
         /\ a # c.actor => PendingForActor(r, a) <= PendingForActor(st, a)
<1> DEFINE q == st.queue
           A == {i \in Pending(r) : r.queue[i].actor = a}
           B == {i \in Pending(st) : q[i].actor = a}
           n == Len(kept) + 1
           C == B \cup {0}
           f == [i \in A |-> IF i = n THEN 0 ELSE g[i]]
<1> USE DEF Picks
<1>1. /\ q \in Seq(Considerations) /\ Len(q) \in Nat /\ DOMAIN q = 1 .. Len(q)
      /\ Len(kept) \in Nat /\ DOMAIN kept = 1 .. Len(kept)
  BY LenProperties DEF States
<1>2. /\ r.queue \in Seq(Considerations) /\ Len(r.queue) = n /\ DOMAIN r.queue = 1 .. n
      /\ \A i \in 1 .. Len(kept) : r.queue[i] = kept[i]
      /\ r.queue[n] = c
  <2>1. /\ Append(kept, c) \in Seq(Considerations)
        /\ Len(Append(kept, c)) = n
        /\ \A i \in 1 .. Len(kept) : Append(kept, c)[i] = kept[i]
        /\ Append(kept, c)[n] = c
    BY AppendProperties
  <2> QED
    BY <2>1, LenProperties
<1>3. IsFiniteSet(B) /\ Cardinality(B) \in Nat /\ 0 \notin B /\ B \subseteq 1 .. Len(q)
  <2>1. B \subseteq 1 .. Len(q)
    BY <1>1 DEF Pending
  <2>2. IsFiniteSet(1 .. Len(q))
    BY <1>1, FS_Interval
  <2> HIDE DEF B
  <2>3. IsFiniteSet(B) /\ Cardinality(B) \in Nat
    BY <2>1, <2>2, FS_Subset, FS_CardinalityType
  <2> QED
    BY <1>1, <2>1, <2>3
<1>4. IsFiniteSet(C) /\ Cardinality(C) = Cardinality(B) + 1
  <2> HIDE DEF B
  <2> QED
    BY <1>3, FS_AddElement
<1>5. A \subseteq 1 .. n
  BY <1>2 DEF Pending
<1>6. ASSUME NEW i \in A, i # n
      PROVE  i \in DOMAIN kept /\ g[i] \in B
  <2>1. i \in 1 .. Len(kept)
    <3>1. i \in 1 .. n
      BY <1>5
    <3> QED
      BY <1>1, <1>6, <3>1
  <2>2. r.queue[i] = q[g[i]] /\ g[i] \in DOMAIN q
    BY <1>1, <1>2, <2>1
  <2> QED
    BY <1>1, <2>1, <2>2 DEF Pending
<1>7. a # c.actor => n \notin A
  BY <1>2
<1>8. f \in Injection(A, C)
  <2>1. f \in [A -> C]
    BY <1>6
  <2>2. ASSUME NEW i \in A, NEW j \in A, f[i] = f[j]
        PROVE  i = j
    <3>1. f[i] = (IF i = n THEN 0 ELSE g[i]) /\ f[j] = (IF j = n THEN 0 ELSE g[j])
      OBVIOUS
    <3>2. ASSUME NEW k \in A, k # n
          PROVE  g[k] # 0
      <4>1. g[k] \in B
        BY <1>6, <3>2
      <4> HIDE DEF B
      <4> QED
        BY <1>3, <4>1
    <3>3. CASE i = n \/ j = n
      BY <2>2, <3>1, <3>2, <3>3
    <3>4. CASE i # n /\ j # n
      <4>1. i \in DOMAIN kept /\ j \in DOMAIN kept /\ g[i] = g[j]
        BY <1>6, <2>2, <3>1, <3>4
      <4> QED
        BY <4>1
    <3> QED
      BY <3>3, <3>4
  <2> HIDE DEF f, A, C
  <2> QED
    BY <2>1, <2>2 DEF Injection, IsInjective
<1>9. a # c.actor => f \in Injection(A, B)
  <2> SUFFICES ASSUME a # c.actor PROVE f \in Injection(A, B)
    OBVIOUS
  <2>1. f \in [A -> B]
    BY <1>6, <1>7
  <2>2. \A i, j \in A : f[i] = f[j] => i = j
    <3> HIDE DEF f, A, C, B
    <3> QED
      BY <1>8 DEF Injection, IsInjective
  <2> HIDE DEF f, A, B
  <2> QED
    BY <2>1, <2>2 DEF Injection, IsInjective
<1>10. PendingForActor(st, a) = Cardinality(B) /\ PendingForActor(r, a) = Cardinality(A)
  BY DEF PendingForActor
<1> HIDE DEF A, B, C, f
<1>11. IsFiniteSet(A) /\ Cardinality(A) <= Cardinality(C)
  BY <1>4, <1>8, FS_Injection
<1>12. a # c.actor => Cardinality(A) <= Cardinality(B)
  BY <1>3, <1>9, FS_Injection
<1>13. Cardinality(A) \in Nat
  BY <1>11, FS_CardinalityType
<1> QED
  BY <1>3, <1>4, <1>10, <1>11, <1>12, <1>13

\* Admitting a consideration of an event that has none, for an actor with room.
LEMMA AdmittedQueue ==
  ASSUME NEW st \in States, WithinBounds(st), Alone(st),
         NEW c \in Considerations, ~ c.enqueued,
         ~ HasConsiderationFor(st, c.seq),
         PendingForActor(st, c.actor) < MaxPendingPerActor,
         ~ (IsFull(st) /\ Evictable(st) = {}),
         NEW r, r = Admitted(st, c)
  PROVE  /\ r = [st EXCEPT !.queue = r.queue]
         /\ r.queue \in Seq(Considerations)
         /\ Len(r.queue) <= ConsiderationCapacity
         /\ \A a \in Actors : PendingForActor(r, a) <= MaxPendingPerActor
         /\ Alone(r)
         /\ \A j \in DOMAIN r.queue :
               r.queue[j] = c \/ \E i \in DOMAIN st.queue : r.queue[j] = st.queue[i]
         /\ \A s : Waits(r, s) <=> Waits(st, s) \/ s = c.seq
<1>1. PICK kept : kept = IF IsFull(st) THEN RemoveAt(st.queue, CHOOSE i \in Evictable(st) : TRUE) ELSE st.queue
  OBVIOUS
<1>2. r = [st EXCEPT !.queue = Append(kept, c)]
  BY <1>1 DEF Admitted
<1>3. r.queue = Append(kept, c)
  BY <1>2 DEF States
<1>4. kept \in Seq(Considerations) /\ Len(kept) + 1 <= ConsiderationCapacity
  BY <1>1, RoomIsMade DEF WithinBounds
<1>5. PICK g : Picks(g, kept, st.queue) /\ Spares(g, kept, st)
  <2>1. Len(st.queue) <= ConsiderationCapacity
    BY DEF WithinBounds
  <2> QED
    BY <1>1, <2>1, RoomIsMade
<1> DEFINE n == Len(kept) + 1
<1>6. /\ r.queue \in Seq(Considerations) /\ Len(r.queue) = n /\ DOMAIN r.queue = 1 .. n
      /\ DOMAIN kept = 1 .. Len(kept) /\ Len(kept) \in Nat
      /\ \A i \in 1 .. Len(kept) : r.queue[i] = kept[i]
      /\ r.queue[n] = c
  <2>1. /\ Append(kept, c) \in Seq(Considerations)
        /\ Len(Append(kept, c)) = n
        /\ \A i \in 1 .. Len(kept) : Append(kept, c)[i] = kept[i]
        /\ Append(kept, c)[n] = c
    BY <1>4, AppendProperties
  <2> QED
    BY <1>3, <1>4, <2>1, LenProperties
<1>7. \A a \in Actors : PendingForActor(r, a) <= MaxPendingPerActor
  <2> TAKE a \in Actors
  <2>1. /\ PendingForActor(st, a) \in Nat /\ PendingForActor(r, a) \in Nat
        /\ PendingForActor(r, a) <= PendingForActor(st, a) + 1
        /\ a # c.actor => PendingForActor(r, a) <= PendingForActor(st, a)
    BY <1>3, <1>4, <1>5, ShareGrows
  <2>2. PendingForActor(st, a) <= MaxPendingPerActor
    BY DEF WithinBounds
  <2>3. MaxPendingPerActor \in Nat
    BY MentionIngestAssumption DEF ValidConfig
  <2> QED
    BY <2>1, <2>2, <2>3
<1>8. \A i \in DOMAIN st.queue : st.queue[i].seq # c.seq
  BY DEF HasConsiderationFor
<1>9. \A j \in 1 .. Len(kept) : j \in DOMAIN kept /\ g[j] \in DOMAIN st.queue /\ r.queue[j] = st.queue[g[j]]
  BY <1>5, <1>6 DEF Picks
<1>10. Alone(r)
  <2> SUFFICES ASSUME NEW i \in 1 .. n, NEW j \in 1 .. n, r.queue[i].seq = r.queue[j].seq
               PROVE  i = j
    BY <1>6 DEF Alone
  <2>1. \A k \in 1 .. n : k = n \/ k \in 1 .. Len(kept)
    BY <1>6
  <2>2. CASE i \in 1 .. Len(kept) /\ j \in 1 .. Len(kept)
    <3>1. g[i] = g[j]
      BY <1>9, <2>2 DEF Alone
    <3> QED
      BY <1>5, <1>9, <2>2, <3>1 DEF Picks
  <2>3. CASE i = n /\ j = n
    BY <2>3
  <2>4. CASE (i = n /\ j \in 1 .. Len(kept)) \/ (j = n /\ i \in 1 .. Len(kept))
    BY <1>6, <1>8, <1>9, <2>4
  <2> QED
    BY <2>1, <2>2, <2>3, <2>4
<1>11. ASSUME NEW j \in DOMAIN r.queue
       PROVE  r.queue[j] = c \/ \E i \in DOMAIN st.queue : r.queue[j] = st.queue[i]
  BY <1>6, <1>9
<1>12. ASSUME NEW s
       PROVE  Waits(r, s) <=> Waits(st, s) \/ s = c.seq
  <2>1. ASSUME NEW j \in DOMAIN r.queue, ~ r.queue[j].enqueued, r.queue[j].seq = s, s # c.seq
        PROVE  Waits(st, s)
    BY <1>11, <2>1 DEF Waits, Pending
  <2>2. ASSUME NEW i \in Pending(st), st.queue[i].seq = s
        PROVE  Waits(r, s)
    <3>1. PICK j \in DOMAIN kept : g[j] = i
      BY <1>5 DEF Spares
    <3>2. j \in DOMAIN r.queue /\ r.queue[j] = st.queue[i]
      BY <1>6, <1>9, <3>1
    <3> QED
      BY <2>2, <3>2 DEF Waits, Pending
  <2>3. Waits(r, c.seq)
    BY <1>6 DEF Waits, Pending
  <2> QED
    BY <2>1, <2>2, <2>3 DEF Waits, Pending
<1>13. r = [st EXCEPT !.queue = r.queue]
  BY <1>2, <1>3
<1> QED
  BY <1>4, <1>6, <1>7, <1>10, <1>11, <1>12, <1>13

-----------------------------------------------------------------------------
(* One event                                                                *)

LEMMA KeepLastProperties ==
  ASSUME NEW T, NEW q \in Seq(T), NEW n \in Nat
  PROVE  /\ KeepLast(q, n) \in Seq(T)
         /\ Len(KeepLast(q, n)) <= n
         /\ \A k \in DOMAIN KeepLast(q, n) : \E j \in DOMAIN q : KeepLast(q, n)[k] = q[j]
         /\ Len(q) <= n => KeepLast(q, n) = q
<1>1. Len(q) \in Nat /\ DOMAIN q = 1 .. Len(q) /\ \A j \in 1 .. Len(q) : q[j] \in T
  BY LenProperties, ElementOfSeq
<1>2. CASE Len(q) <= n
  BY <1>1, <1>2 DEF KeepLast
<1>3. CASE ~ (Len(q) <= n)
  <2> DEFINE m == Len(q) - n + 1
             rest == SubSeq(q, m, Len(q))
  <2>1. KeepLast(q, n) = rest
    BY <1>1, <1>3 DEF KeepLast
  <2>2. m \in Int /\ m >= 1 /\ m <= Len(q) + 1 /\ Len(q) - m + 1 = n
    BY <1>1, <1>3
  <2> HIDE DEF m
  <2>3. \A j \in m .. Len(q) : q[j] \in T
    BY <1>1, <2>2
  <2>4. /\ rest \in Seq(T)
        /\ Len(rest) = IF m <= Len(q) THEN Len(q) - m + 1 ELSE 0
        /\ \A k \in 1 .. Len(q) - m + 1 : rest[k] = q[m + k - 1]
    BY <1>1, <2>2, <2>3, SubSeqProperties
  <2>5. Len(rest) <= n /\ DOMAIN rest = 1 .. Len(rest) /\ Len(rest) \in Nat
    BY <2>2, <2>4, LenProperties
  <2> HIDE DEF rest
  <2>6. ASSUME NEW k \in DOMAIN rest
        PROVE  \E j \in DOMAIN q : rest[k] = q[j]
    <3>1. k \in 1 .. n /\ m + k - 1 \in 1 .. Len(q)
      BY <1>1, <2>2, <2>5
    <3>2. rest[k] = q[m + k - 1]
      BY <2>2, <2>4, <3>1
    <3> QED
      BY <1>1, <3>1, <3>2
  <2> QED
    BY <1>3, <2>1, <2>4, <2>5, <2>6
<1> QED
  BY <1>2, <1>3

\* The ring takes a key in and keeps its bound.
LEMMA RememberedRing ==
  ASSUME NEW st \in States, Len(st.ring) <= DedupeCapacity, NEW s \in Seqs,
         NEW r, r = Remembered(st, s)
  PROVE  /\ r = [st EXCEPT !.ring = r.ring] /\ r \in States
         /\ Len(r.ring) <= DedupeCapacity
         /\ \A k \in DOMAIN r.ring : r.ring[k] = s \/ \E j \in DOMAIN st.ring : r.ring[k] = st.ring[j]
<1>1. CASE AlreadyProcessed(st, s)
  BY <1>1 DEF Remembered, States
<1>2. CASE ~ AlreadyProcessed(st, s)
  <2> DEFINE q == Append(st.ring, s)
             kept == KeepLast(q, DedupeCapacity)
  <2>1. st.ring \in Seq(Seqs)
    BY DEF States
  <2>2. /\ q \in Seq(Seqs)
        /\ Len(q) = Len(st.ring) + 1
        /\ \A k \in 1 .. Len(st.ring) : q[k] = st.ring[k]
        /\ q[Len(st.ring) + 1] = s
    BY <2>1, AppendProperties
  <2>3. /\ DOMAIN q = 1 .. Len(st.ring) + 1
        /\ DOMAIN st.ring = 1 .. Len(st.ring) /\ Len(st.ring) \in Nat
    BY <2>1, <2>2, LenProperties
  <2>4. \A k \in DOMAIN q : q[k] = s \/ \E j \in DOMAIN st.ring : q[k] = st.ring[j]
    <3> TAKE k \in DOMAIN q
    <3>1. k = Len(st.ring) + 1 \/ k \in 1 .. Len(st.ring)
      BY <2>3
    <3> HIDE DEF q
    <3> QED
      BY <2>2, <2>3, <3>1
  <2>5. DedupeCapacity \in Nat
    BY MentionIngestAssumption DEF ValidConfig
  <2> HIDE DEF q
  <2>6. /\ kept \in Seq(Seqs)
        /\ Len(kept) <= DedupeCapacity
        /\ \A k \in DOMAIN kept : \E j \in DOMAIN q : kept[k] = q[j]
    BY <2>2, <2>5, KeepLastProperties
  <2>7. r = [st EXCEPT !.ring = kept]
    BY <1>2 DEF Remembered, q
  <2> HIDE DEF kept
  <2>8. r.ring = kept /\ r \in States
    BY <2>6, <2>7 DEF States
  <2>9. r = [st EXCEPT !.ring = r.ring]
    BY <2>7, <2>8
  <2> QED
    BY <2>4, <2>6, <2>8, <2>9
<1> QED
  BY <1>1, <1>2

\* Remembering a key behind the cursor.
LEMMA RememberedGood ==
  ASSUME NEW st, NEW h, Good(st, h), NEW s \in Seqs, LookedAt(st, s),
         NEW r, r = Remembered(st, s)
  PROVE  /\ Good(r, h) /\ r.last = st.last /\ r.gap = st.gap /\ r.queue = st.queue
         /\ r.fate = st.fate /\ r.jumped = st.jumped
         /\ \A k \in DOMAIN r.ring : r.ring[k] = s \/ \E j \in DOMAIN st.ring : r.ring[k] = st.ring[j]
<1>1. st \in States /\ Len(st.ring) <= DedupeCapacity
  BY DEF Good, WithinBounds
<1>2. /\ r = [st EXCEPT !.ring = r.ring] /\ r \in States
      /\ Len(r.ring) <= DedupeCapacity
      /\ \A k \in DOMAIN r.ring : r.ring[k] = s \/ \E j \in DOMAIN st.ring : r.ring[k] = st.ring[j]
  BY <1>1, RememberedRing
<1>3. /\ r.last = st.last /\ r.gap = st.gap /\ r.queue = st.queue
      /\ r.fate = st.fate /\ r.jumped = st.jumped
  BY <1>1, <1>2 DEF States
<1>4. \A n : LookedAt(st, n) => LookedAt(r, n)
  BY <1>3 DEF LookedAt
<1>5. Thorough(r)
  BY <1>2, <1>3, <1>4 DEF Good, Thorough
<1>6. /\ \A a : PendingForActor(r, a) = PendingForActor(st, a)
      /\ \A x : Waits(r, x) <=> Waits(st, x)
  BY <1>3, SameQueue
<1>7. WithinBounds(r)
  BY <1>2, <1>3, <1>6 DEF Good, WithinBounds
<1>8. Alone(r)
  BY <1>3 DEF Good, Alone
<1>9. Kept(r, h)
  BY <1>3, <1>6 DEF Good, Kept
<1> QED
  BY <1>2, <1>3, <1>5, <1>7, <1>8, <1>9 DEF Good

\* r is st after the event s, next in line, field by field; f is its fate.
PassedTo(r, st, s, b, f) ==
    /\ r \in States /\ r.last = s /\ r.gap = st.gap
    /\ r.jumped = IF b THEN st.jumped \cup 1 .. s - 1 ELSE st.jumped
    /\ r.fate = [st.fate EXCEPT ![s] = f]
    /\ f \in {"considered", "refused", "skipped"}
    /\ Len(r.ring) <= DedupeCapacity
    /\ \A k \in DOMAIN r.ring : r.ring[k] = s \/ \E j \in DOMAIN st.ring : r.ring[k] = st.ring[j]
    /\ Len(r.queue) <= ConsiderationCapacity
    /\ \A a \in Actors : PendingForActor(r, a) <= MaxPendingPerActor
    /\ Alone(r)
    /\ \A j \in DOMAIN r.queue :
          \/ f = "considered" /\ ~ r.queue[j].enqueued /\ r.queue[j].seq = s
          \/ \E i \in DOMAIN st.queue : r.queue[j] = st.queue[i]
    /\ \A x : Waits(r, x) <=> Waits(st, x) \/ (f = "considered" /\ x = s)

LEMMA PassedFields ==
  ASSUME NEW st, NEW h, Good(st, h), NEW s \in Seqs, NEW b \in BOOLEAN,
         ledger \in [Seqs -> EventBodies],
         NEW r, r = Passed(st, s, b)
  PROVE  PassedTo(r, st, s, b, Fate(st, s))
<1>1. st \in States /\ WithinBounds(st) /\ Alone(st)
  BY DEF Good
<1> DEFINE f == Fate(st, s)
           m == Remembered(st, s)
           p == [m EXCEPT !.fate[s] = f]
           c == [seq |-> s, actor |-> ledger[s].by, enqueued |-> FALSE]
           app == IF f = "considered" THEN Admitted(p, c) ELSE p
<1>2. f \in {"considered", "refused", "skipped"}
  BY DEF Fate
<1>3. /\ m = [st EXCEPT !.ring = m.ring] /\ m \in States
      /\ Len(m.ring) <= DedupeCapacity
      /\ \A k \in DOMAIN m.ring : m.ring[k] = s \/ \E j \in DOMAIN st.ring : m.ring[k] = st.ring[j]
  <2> HIDE DEF m
  <2>1. Len(st.ring) <= DedupeCapacity /\ m = Remembered(st, s)
    BY <1>1 DEF WithinBounds, m
  <2> QED
    BY <1>1, <2>1, RememberedRing
<1>4. r = [app EXCEPT !.last = s, !.jumped = IF b THEN @ \cup 1 .. s - 1 ELSE @]
  BY DEF Passed, Applied
<1> HIDE DEF m, f
<1>5. /\ p \in States /\ p.ring = m.ring /\ p.queue = st.queue /\ p.gap = st.gap
      /\ p.jumped = st.jumped /\ p.fate = [st.fate EXCEPT ![s] = f] /\ p.last = st.last
  BY <1>1, <1>2, <1>3 DEF States, Fates
<1> HIDE DEF p
<1>6. /\ \A a : PendingForActor(p, a) = PendingForActor(st, a)
      /\ \A x : Waits(p, x) <=> Waits(st, x)
      /\ \A x : HasConsiderationFor(p, x) <=> HasConsiderationFor(st, x)
      /\ Evictable(p) = Evictable(st) /\ (IsFull(p) <=> IsFull(st))
  BY <1>5, SameQueue
<1>7. /\ app \in States /\ app.ring = m.ring /\ app.gap = st.gap /\ app.jumped = st.jumped
      /\ app.fate = [st.fate EXCEPT ![s] = f]
      /\ Len(app.queue) <= ConsiderationCapacity
      /\ \A a \in Actors : PendingForActor(app, a) <= MaxPendingPerActor
      /\ Alone(app)
      /\ \A j \in DOMAIN app.queue :
               \/ f = "considered" /\ ~ app.queue[j].enqueued /\ app.queue[j].seq = s
               \/ \E i \in DOMAIN st.queue : app.queue[j] = st.queue[i]
      /\ \A x : Waits(app, x) <=> Waits(st, x) \/ (f = "considered" /\ x = s)
  <2>1. CASE f # "considered"
    <3>1. app = p
      BY <2>1
    <3>2. Alone(p)
      BY <1>1, <1>5 DEF Alone
    <3>3. /\ Len(p.queue) <= ConsiderationCapacity
          /\ \A a \in Actors : PendingForActor(p, a) <= MaxPendingPerActor
      BY <1>1, <1>5, <1>6 DEF WithinBounds
    <3> QED
      BY <1>5, <1>6, <2>1, <3>1, <3>2, <3>3
  <2>2. CASE f = "considered"
    <3>1. app = Admitted(p, c)
      BY <2>2
    <3>2. /\ IsCandidate(Normalized(ledger[s])) /\ ~ HasConsiderationFor(st, s)
          /\ ~ (PendingForActor(st, ledger[s].by) >= MaxPendingPerActor)
          /\ ~ (IsFull(st) /\ Evictable(st) = {})
      BY <2>2 DEF f, Fate, Normalized
    <3>3. ledger[s].by \in Actors
      BY <3>2 DEF IsCandidate, Normalized, EventBodies
    <3>4. c \in Considerations /\ c.seq = s /\ c.actor = ledger[s].by /\ ~ c.enqueued
      BY <3>3 DEF Considerations
    <3> HIDE DEF c, app
    <3>5. WithinBounds(p) /\ Alone(p)
      BY <1>1, <1>3, <1>5, <1>6 DEF WithinBounds, Alone
    <3>6. PendingForActor(p, c.actor) < MaxPendingPerActor
      <4>1. PendingForActor(p, c.actor) \in Nat
        <5> DEFINE B == {i \in Pending(p) : p.queue[i].actor = c.actor}
        <5>1. p.queue \in Seq(Considerations)
          BY <1>5 DEF States
        <5>2. Len(p.queue) \in Nat /\ DOMAIN p.queue = 1 .. Len(p.queue)
          BY <5>1, LenProperties
        <5>3. B \subseteq 1 .. Len(p.queue) /\ IsFiniteSet(1 .. Len(p.queue))
          BY <5>2, FS_Interval DEF Pending
        <5> HIDE DEF B
        <5>4. Cardinality(B) \in Nat
          BY <5>3, FS_Subset, FS_CardinalityType
        <5> QED
          BY <5>4 DEF B, PendingForActor
      <4>2. MaxPendingPerActor \in Nat
        BY MentionIngestAssumption DEF ValidConfig
      <4> QED
        BY <1>6, <3>2, <3>4, <4>1, <4>2
    <3>7. ~ HasConsiderationFor(p, c.seq) /\ ~ (IsFull(p) /\ Evictable(p) = {})
      BY <1>6, <3>2, <3>4
    <3>8. /\ app = [p EXCEPT !.queue = app.queue]
          /\ app.queue \in Seq(Considerations)
          /\ Len(app.queue) <= ConsiderationCapacity
          /\ \A a \in Actors : PendingForActor(app, a) <= MaxPendingPerActor
          /\ Alone(app)
          /\ \A j \in DOMAIN app.queue :
               app.queue[j] = c \/ \E i \in DOMAIN p.queue : app.queue[j] = p.queue[i]
          /\ \A x : Waits(app, x) <=> Waits(p, x) \/ x = c.seq
      BY <1>5, <3>1, <3>4, <3>5, <3>6, <3>7, AdmittedQueue
    <3>9. /\ app \in States /\ app.ring = p.ring /\ app.gap = p.gap
          /\ app.jumped = p.jumped /\ app.fate = p.fate
      BY <1>5, <3>8 DEF States
    <3> QED
      BY <1>5, <1>6, <2>2, <3>4, <3>8, <3>9
  <2> QED
    BY <2>1, <2>2
<1> HIDE DEF app
<1>8. /\ r \in States /\ r.last = s /\ r.gap = app.gap /\ r.ring = app.ring
      /\ r.queue = app.queue /\ r.fate = app.fate
      /\ r.jumped = IF b THEN app.jumped \cup 1 .. s - 1 ELSE app.jumped
  <2>1. s \in 0 .. Height /\ 1 .. s - 1 \subseteq Seqs
    BY LedgersAssumption DEF Seqs
  <2> DEFINE j == IF b THEN app.jumped \cup 1 .. s - 1 ELSE app.jumped
  <2>2. j \in SUBSET Seqs
    BY <1>7, <2>1 DEF States
  <2>3. r = [app EXCEPT !.last = s, !.jumped = j]
    BY <1>4, <1>7 DEF States
  <2> HIDE DEF j
  <2>4. r \in States
    BY <1>7, <2>1, <2>2, <2>3 DEF States
  <2>5. /\ r.last = s /\ r.gap = app.gap /\ r.ring = app.ring
        /\ r.queue = app.queue /\ r.fate = app.fate /\ r.jumped = j
    BY <1>7, <2>3 DEF States
  <2> QED
    BY <2>4, <2>5 DEF j
<1>9. /\ \A a : PendingForActor(r, a) = PendingForActor(app, a)
      /\ \A x : Waits(r, x) <=> Waits(app, x)
  BY <1>8, SameQueue
<1>10. Alone(r)
  BY <1>7, <1>8 DEF Alone
<1> QED
  BY <1>2, <1>3, <1>7, <1>8, <1>9, <1>10 DEF f, PassedTo

LEMMA PassedGood ==
  ASSUME NEW st, NEW h, Good(st, h), NEW s \in Seqs, st.last < s, NEW b \in BOOLEAN,
         b \/ LookedAt(st, s - 1), ledger \in [Seqs -> EventBodies],
         NEW r, r = Passed(st, s, b)
  PROVE  /\ Good(r, h) /\ r.last = s /\ r.gap = st.gap
         /\ \A k \in DOMAIN r.ring : r.ring[k] = s \/ \E j \in DOMAIN st.ring : r.ring[k] = st.ring[j]
         /\ Behind(st) => Behind(r)
         /\ \A x : Waits(st, x) => Waits(r, x)
         /\ \A x : Waits(r, x) => Waits(st, x) \/ x = s
<1> DEFINE f == Fate(st, s)
<1>0. PassedTo(r, st, s, b, f)
  BY PassedFields
<1>1. /\ r \in States /\ r.last = s /\ r.gap = st.gap
      /\ r.jumped = IF b THEN st.jumped \cup 1 .. s - 1 ELSE st.jumped
      /\ r.fate = [st.fate EXCEPT ![s] = f]
      /\ f \in {"considered", "refused", "skipped"}
      /\ Len(r.ring) <= DedupeCapacity
      /\ \A k \in DOMAIN r.ring : r.ring[k] = s \/ \E j \in DOMAIN st.ring : r.ring[k] = st.ring[j]
      /\ Len(r.queue) <= ConsiderationCapacity
      /\ \A a \in Actors : PendingForActor(r, a) <= MaxPendingPerActor
      /\ Alone(r)
      /\ \A j \in DOMAIN r.queue :
            \/ f = "considered" /\ ~ r.queue[j].enqueued /\ r.queue[j].seq = s
            \/ \E i \in DOMAIN st.queue : r.queue[j] = st.queue[i]
      /\ \A x : Waits(r, x) <=> Waits(st, x) \/ (f = "considered" /\ x = s)
  BY <1>0 DEF PassedTo
<1> HIDE DEF f
<1>2. st \in States /\ Thorough(st) /\ Kept(st, h)
  BY DEF Good
<1>3. /\ st.fate \in [Seqs -> Fates] /\ st.last \in Nat /\ s \in Nat /\ s - 1 \in Nat
      /\ \A k \in DOMAIN st.ring : st.ring[k] \in Seqs
      /\ \A i \in DOMAIN st.queue : st.queue[i] \in Considerations
  <2>1. st.ring \in Seq(Seqs) /\ st.queue \in Seq(Considerations)
    BY <1>2 DEF States
  <2>2. /\ \A k \in DOMAIN st.ring : st.ring[k] \in Seqs
        /\ \A i \in DOMAIN st.queue : st.queue[i] \in Considerations
    BY <2>1, ElementOfSeq, LenProperties
  <2>3. st.last \in Nat /\ s \in Nat /\ s - 1 \in Nat
    BY <1>2, LedgersAssumption DEF States, Seqs
  <2> QED
    BY <1>2, <2>2, <2>3 DEF States
<1>4. ASSUME NEW x, st.fate[x] # "unseen" \/ x \in st.jumped, x \in Seqs
      PROVE  r.fate[x] # "unseen" \/ x \in r.jumped
  BY <1>1, <1>3, <1>4
<1>5. ASSUME NEW n \in Seqs \cup {0}, LookedAt(st, n)
      PROVE  LookedAt(r, n)
  <2>1. \A x \in 1 .. n : x \in Seqs
    BY LedgersAssumption DEF Seqs
  <2> QED
    BY <1>4, <1>5, <2>1 DEF LookedAt
<1>6. LookedAt(r, s)
  <2> SUFFICES ASSUME NEW x \in 1 .. s
               PROVE  r.fate[x] # "unseen" \/ x \in r.jumped
    BY DEF LookedAt
  <2>0. x \in Seqs
    BY <1>3, LedgersAssumption DEF Seqs
  <2>1. CASE x = s
    BY <1>1, <1>3, <2>1
  <2>2. CASE x # s
    <3>1. x \in 1 .. s - 1
      BY <1>3, <2>2
    <3>2. CASE b
      BY <1>1, <3>1, <3>2
    <3>3. CASE ~ b
      BY <1>4, <2>0, <3>1, <3>3 DEF LookedAt
    <3> QED
      BY <3>2, <3>3
  <2> QED
    BY <2>1, <2>2
<1>7. Thorough(r)
  <2>1. ASSUME NEW k \in DOMAIN r.ring
        PROVE  LookedAt(r, r.ring[k])
    <3>1. CASE r.ring[k] = s
      BY <1>6, <3>1
    <3>2. ASSUME NEW j \in DOMAIN st.ring, r.ring[k] = st.ring[j]
          PROVE  LookedAt(r, r.ring[k])
      <4>1. LookedAt(st, st.ring[j]) /\ st.ring[j] \in Seqs
        BY <1>2, <1>3 DEF Thorough
      <4> QED
        BY <1>5, <3>2, <4>1
    <3> QED
      BY <1>1, <3>1, <3>2
  <2> QED
    BY <1>1, <1>6, <2>1 DEF Thorough
<1>8. Kept(r, h)
  <2>1. ASSUME NEW x \in Seqs, r.fate[x] = "considered"
        PROVE  h[x] > 0 \/ Waits(r, x)
    <3>1. CASE x = s
      BY <1>1, <1>3, <2>1, <3>1
    <3>2. CASE x # s
      <4>1. st.fate[x] = "considered"
        BY <1>1, <1>3, <2>1, <3>2
      <4> QED
        BY <1>1, <1>2, <4>1 DEF Kept
    <3> QED
      BY <3>1, <3>2
  <2>2. ASSUME NEW j \in DOMAIN r.queue, r.queue[j].enqueued
        PROVE  h[r.queue[j].seq] > 0
    <3>1. PICK i \in DOMAIN st.queue : r.queue[j] = st.queue[i]
      BY <1>1, <2>2
    <3> QED
      BY <1>2, <2>2, <3>1 DEF Kept
  <2> QED
    BY <2>1, <2>2 DEF Kept
<1>9. WithinBounds(r)
  BY <1>1 DEF WithinBounds
<1>10. Good(r, h)
  BY <1>1, <1>7, <1>8, <1>9 DEF Good
<1>11. ASSUME Behind(st)
       PROVE  Behind(r)
  <2>1. ASSUME NEW k \in DOMAIN r.ring
        PROVE  r.ring[k] <= r.last
    <3>1. CASE r.ring[k] = s
      BY <1>1, <1>3, <3>1
    <3>2. ASSUME NEW j \in DOMAIN st.ring, r.ring[k] = st.ring[j]
          PROVE  r.ring[k] <= r.last
      <4>1. st.ring[j] <= st.last /\ st.ring[j] \in Nat
        BY <1>3, <1>11, LedgersAssumption DEF Behind, Seqs
      <4> QED
        BY <1>1, <1>3, <3>2, <4>1
    <3> QED
      BY <1>1, <3>1, <3>2
  <2>2. ASSUME NEW j \in DOMAIN r.queue
        PROVE  r.queue[j].seq <= r.last
    <3>1. CASE r.queue[j].seq = s
      BY <1>1, <1>3, <3>1
    <3>2. ASSUME NEW i \in DOMAIN st.queue, r.queue[j] = st.queue[i]
          PROVE  r.queue[j].seq <= r.last
      <4>1. st.queue[i].seq <= st.last /\ st.queue[i].seq \in Nat
        BY <1>3, <1>11, LedgersAssumption DEF Behind, Seqs, Considerations
      <4> QED
        BY <1>1, <1>3, <3>2, <4>1
    <3> QED
      BY <1>1, <3>1, <3>2
  <2> QED
    BY <2>1, <2>2 DEF Behind
<1> QED
  BY <1>1, <1>10, <1>11

-----------------------------------------------------------------------------
(* One batch                                                                *)

Carried ==
    [st : States, next : Int, applied : Nat,
     bootstrap : BOOLEAN, hole : BOOLEAN, advanced : BOOLEAN]

\* From st0 the loop came to a, no event passed over and no mention lost.
Underway(a, st0, h) ==
    /\ a \in Carried /\ Good(a.st, h)
    /\ a.bootstrap \/ LookedAt(a.st, a.next - 1)
    /\ Behind(st0) => Behind(a.st)
    /\ st0.last <= a.st.last
    /\ \A x \in Seqs : Waits(st0, x) => Waits(a.st, x)
    /\ \A x \in Seqs : Waits(a.st, x) => Waits(st0, x) \/ st0.last < x

LEMMA StartUnderway ==
  ASSUME NEW st, NEW h, Good(st, h)
  PROVE  Underway(Start(st), st, h)
<1>1. st \in States /\ st.last \in Nat /\ LookedAt(st, st.last)
  BY LedgersAssumption DEF Good, States, Thorough
<1>2. (st.last + 1) - 1 = st.last
  BY <1>1
<1> QED
  BY <1>1, <1>2 DEF Start, Underway, Carried

\* Whether there is a gap is nothing the rest depends on.
LEMMA Regapped ==
  ASSUME NEW u, NEW h, Good(u, h), NEW r,
         r = [u EXCEPT !.gap = TRUE] \/ r = [u EXCEPT !.gap = FALSE]
  PROVE  /\ Good(r, h) /\ (Behind(u) => Behind(r)) /\ r.last = u.last
         /\ \A n : LookedAt(u, n) => LookedAt(r, n)
         /\ \A x : Waits(r, x) <=> Waits(u, x)
<1>1. u \in States
  BY DEF Good
<1>2. /\ r \in States /\ r.last = u.last /\ r.queue = u.queue /\ r.ring = u.ring
      /\ r.fate = u.fate /\ r.jumped = u.jumped
  BY <1>1 DEF States
<1>3. /\ \A x : Waits(r, x) <=> Waits(u, x)
      /\ \A x : PendingForActor(r, x) = PendingForActor(u, x)
  BY <1>2, SameQueue
<1>4. \A n : LookedAt(u, n) => LookedAt(r, n)
  BY <1>2 DEF LookedAt
<1>5. Good(r, h) /\ (Behind(u) => Behind(r))
  BY <1>2, <1>3, <1>4 DEF Good, WithinBounds, Thorough, Alone, Kept, Behind
<1> QED
  BY <1>2, <1>3, <1>4, <1>5

LEMMA InOrderUnderway ==
  ASSUME NEW st0, NEW h, NEW a, Underway(a, st0, h), st0 \in States,
         ledger \in [Seqs -> EventBodies],
         NEW s \in Seqs, ~ (s <= a.st.last), s = Expected(a, s)
  PROVE  Underway(InOrder(a, s), st0, h)
<1>1. /\ a \in Carried /\ Good(a.st, h) /\ a.st \in States
      /\ a.st.last \in Nat /\ st0.last \in Nat /\ s \in Nat /\ a.st.last < s
      /\ st0.last <= a.st.last /\ (s + 1) - 1 = s
  BY LedgersAssumption DEF Underway, Good, States, Seqs
<1>2. a.bootstrap \/ LookedAt(a.st, s - 1)
  BY DEF Underway, Expected
<1>3. CASE AlreadyProcessed(a.st, s)
  <2> DEFINE v == [a EXCEPT !.next = s + 1, !.bootstrap = FALSE]
  <2>1. InOrder(a, s) = v
    BY <1>3 DEF InOrder
  <2>2. v \in Carried /\ v.st = a.st /\ v.next = s + 1 /\ v.bootstrap = FALSE
    <3>1. s + 1 \in Int
      BY <1>1
    <3> QED
      BY <1>1, <3>1 DEF Carried
  <2>3. LookedAt(a.st, s)
    BY <1>1, <1>3 DEF Good, Thorough, AlreadyProcessed, Range
  <2> HIDE DEF v
  <2> QED
    BY <1>1, <2>1, <2>2, <2>3 DEF Underway
<1>4. CASE ~ AlreadyProcessed(a.st, s)
  <2> DEFINE r == Passed(a.st, s, a.bootstrap)
             v == [a EXCEPT !.next = s + 1, !.bootstrap = FALSE,
                            !.applied = a.applied + 1, !.advanced = TRUE, !.st = r]
  <2>1. InOrder(a, s) = v
    BY <1>1, <1>4 DEF InOrder, Carried
  <2>2. a.bootstrap \in BOOLEAN
    BY <1>1 DEF Carried
  <2>3. /\ Good(r, h) /\ r.last = s
        /\ Behind(a.st) => Behind(r)
        /\ \A x : Waits(a.st, x) => Waits(r, x)
        /\ \A x : Waits(r, x) => Waits(a.st, x) \/ x = s
    <3> HIDE DEF r
    <3>1. r = Passed(a.st, s, a.bootstrap)
      BY DEF r
    <3> QED
      BY <1>1, <1>2, <2>2, <3>1, PassedGood
  <2> HIDE DEF r
  <2>4. r \in States /\ LookedAt(r, s)
    BY <2>3 DEF Good, Thorough
  <2>5. v \in Carried /\ v.st = r /\ v.next = s + 1 /\ v.bootstrap = FALSE
    <3>1. s + 1 \in Int /\ a.applied + 1 \in Nat
      BY <1>1 DEF Carried
    <3> QED
      BY <1>1, <2>4, <3>1 DEF Carried
  <2> HIDE DEF v
  <2>6. /\ \A x \in Seqs : Waits(st0, x) => Waits(a.st, x)
        /\ \A x \in Seqs : Waits(a.st, x) => Waits(st0, x) \/ st0.last < x
        /\ Behind(st0) => Behind(a.st)
    BY DEF Underway
  <2>7. st0.last < s /\ st0.last <= r.last
    BY <1>1, <2>3
  <2> QED
    BY <1>1, <2>1, <2>3, <2>4, <2>5, <2>6, <2>7 DEF Underway
<1> QED
  BY <1>3, <1>4

LEMMA TurnUnderway ==
  ASSUME NEW st0, NEW h, NEW a, Underway(a, st0, h), st0 \in States,
         ledger \in [Seqs -> EventBodies], NEW s \in Seqs
  PROVE  Underway(Turn(a, s), st0, h)
<1>1. /\ a \in Carried /\ Good(a.st, h) /\ a.st \in States
      /\ a.st.last \in Nat /\ s \in Nat
  BY LedgersAssumption DEF Underway, Good, States, Seqs
<1>2. CASE s <= a.st.last
  <2> DEFINE r == Remembered(a.st, s)
             v == [a EXCEPT !.st = r]
  <2>1. Turn(a, s) = v
    BY <1>2 DEF Turn
  <2>2. LookedAt(a.st, s)
    BY <1>1, <1>2 DEF Good, Thorough, LookedAt
  <2>3. /\ Good(r, h) /\ r.last = a.st.last /\ r.queue = a.st.queue
        /\ r.fate = a.st.fate /\ r.jumped = a.st.jumped
        /\ \A k \in DOMAIN r.ring : r.ring[k] = s \/ \E j \in DOMAIN a.st.ring : r.ring[k] = a.st.ring[j]
    <3> HIDE DEF r
    <3>1. r = Remembered(a.st, s)
      BY DEF r
    <3> QED
      BY <1>1, <2>2, <3>1, RememberedGood
  <2> HIDE DEF r
  <2>4. v \in Carried /\ v.st = r /\ v.next = a.next /\ v.bootstrap = a.bootstrap
    BY <1>1, <2>3 DEF Carried, Good
  <2> HIDE DEF v
  <2>5. LookedAt(a.st, a.next - 1) => LookedAt(r, a.next - 1)
    BY <2>3 DEF LookedAt
  <2>6. Behind(a.st) => Behind(r)
    BY <1>1, <1>2, <2>3 DEF Behind
  <2>7. \A x : Waits(r, x) <=> Waits(a.st, x)
    BY <2>3, SameQueue
  <2> QED
    BY <2>1, <2>3, <2>4, <2>5, <2>6, <2>7 DEF Underway
<1>3. CASE ~ (s <= a.st.last) /\ (a.hole \/ a.applied >= MaxApplyPerBatch)
  BY <1>3 DEF Turn
<1>4. CASE /\ ~ (s <= a.st.last) /\ ~ (a.hole \/ a.applied >= MaxApplyPerBatch)
           /\ s # Expected(a, s)
  <2> DEFINE r == [a.st EXCEPT !.gap = TRUE]
             v == [a EXCEPT !.hole = TRUE, !.st = r]
  <2>1. Turn(a, s) = v
    BY <1>1, <1>4 DEF Turn, Carried
  <2>2. r = [a.st EXCEPT !.gap = TRUE]
    OBVIOUS
  <2> HIDE DEF r
  <2>3. /\ Good(r, h) /\ (Behind(a.st) => Behind(r)) /\ r.last = a.st.last
        /\ LookedAt(a.st, a.next - 1) => LookedAt(r, a.next - 1)
        /\ \A x : Waits(r, x) <=> Waits(a.st, x)
    BY <1>1, <2>2, Regapped
  <2>4. r \in States
    BY <2>3 DEF Good
  <2>5. v \in Carried /\ v.st = r /\ v.next = a.next /\ v.bootstrap = a.bootstrap
    BY <1>1, <2>4 DEF Carried
  <2> HIDE DEF v
  <2> QED
    BY <2>1, <2>3, <2>5 DEF Underway
<1>5. CASE /\ ~ (s <= a.st.last) /\ ~ (a.hole \/ a.applied >= MaxApplyPerBatch)
           /\ s = Expected(a, s)
  BY <1>5, InOrderUnderway DEF Turn
<1> QED
  BY <1>2, <1>3, <1>4, <1>5

LEMMA ContinuedIs ==
  ASSUME NEW a, NEW s, NEW S
  PROVE  Continued(a, s, S) = IF s \in S THEN Turn(a, s) ELSE a
BY DEF Continued

\* The whole loop, by induction over the sequences it goes through.
LEMMA LoopUnderway ==
  ASSUME NEW st, NEW h, Good(st, h), ledger \in [Seqs -> EventBodies], NEW S
  PROVE  Underway(Loop(Start(st), S), st, h)
<1>1. PICK after :
            /\ after = [s \in 0 .. Height |->
                          IF s = 0 THEN Start(st) ELSE Continued(after[s - 1], s, S)]
            /\ Loop(Start(st), S) = after[Height]
  BY LoopUnfolds
<1> DEFINE P == {s \in 0 .. Height : Underway(after[s], st, h)}
<1>2. Height \in Nat /\ st \in States
  BY LedgersAssumption DEF Good
<1>3. 0 \in P
  BY <1>1, <1>2, StartUnderway
<1>4. ASSUME NEW s \in 1 .. Height, s - 1 \in P
      PROVE  s \in P
  <2>1. after[s] = Continued(after[s - 1], s, S)
    BY <1>1, <1>2
  <2>2. after[s] = IF s \in S THEN Turn(after[s - 1], s) ELSE after[s - 1]
    BY <2>1, ContinuedIs
  <2>3. Underway(after[s - 1], st, h) /\ s \in Seqs
    BY <1>4 DEF Seqs
  <2>4. Underway(Turn(after[s - 1], s), st, h)
    BY <1>2, <2>3, TurnUnderway
  <2> QED
    BY <1>2, <2>2, <2>3, <2>4
<1>5. Height \in P
  <2>1. 0 .. Height \subseteq P
    <3> HIDE DEF P
    <3> QED
      BY <1>2, <1>3, <1>4, IntervalInduction
  <2> QED
    BY <1>2, <2>1
<1> QED
  BY <1>1, <1>5

\* What apply_batch does with any batch, of any source.
LEMMA BatchGood ==
  ASSUME NEW st, NEW h, Good(st, h), ledger \in [Seqs -> EventBodies],
         NEW S, NEW floor, NEW gap,
         NEW r, r = AfterBatch(st, S, floor, gap)
  PROVE  /\ Good(r, h)
         /\ Behind(st) => Behind(r)
         /\ st.last <= r.last
         /\ \A x \in Seqs : Waits(st, x) => Waits(r, x)
         /\ \A x \in Seqs : Waits(r, x) => Waits(st, x) \/ st.last < x
<1> DEFINE a == Loop(Start(st), S)
<1>1. st \in States /\ st.last \in Nat
  BY LedgersAssumption DEF Good, States
<1>2. Underway(a, st, h)
  BY LoopUnderway
<1> HIDE DEF a
<1>3. CASE gap \/ (st.last > 0 /\ floor > st.last + 1)
  <2>1. r = [st EXCEPT !.gap = TRUE]
    BY <1>3 DEF AfterBatch
  <2>2. /\ Good(r, h) /\ (Behind(st) => Behind(r)) /\ r.last = st.last
        /\ \A x : Waits(r, x) <=> Waits(st, x)
    BY <2>1, Regapped
  <2> QED
    BY <1>1, <2>2
<1>4. CASE ~ (gap \/ (st.last > 0 /\ floor > st.last + 1))
  <2>1. r = Settled(a)
    BY <1>4 DEF AfterBatch, a
  <2>2. /\ Good(a.st, h) /\ a.st \in States
        /\ Behind(st) => Behind(a.st)
        /\ st.last <= a.st.last
        /\ \A x \in Seqs : Waits(st, x) => Waits(a.st, x)
        /\ \A x \in Seqs : Waits(a.st, x) => Waits(st, x) \/ st.last < x
    BY <1>2 DEF Underway, Good
  <2>3. CASE r = [a.st EXCEPT !.gap = FALSE]
    <3>1. /\ Good(r, h) /\ (Behind(a.st) => Behind(r)) /\ r.last = a.st.last
          /\ \A x : Waits(r, x) <=> Waits(a.st, x)
      BY <2>2, <2>3, Regapped
    <3> QED
      BY <2>2, <3>1
  <2>4. CASE r = a.st
    BY <2>2, <2>4
  <2> QED
    BY <2>1, <2>3, <2>4 DEF Settled
<1> QED
  BY <1>3, <1>4

-----------------------------------------------------------------------------
(* Hand-overs, saves, restarts and the operator                             *)

LEMMA GoodIsMonotone ==
  ASSUME NEW st, NEW h, Good(st, h), NEW h2, \A x \in Seqs : h[x] > 0 => h2[x] > 0
  PROVE  Good(st, h2)
<1>1. \A i \in DOMAIN st.queue : st.queue[i].seq \in Seqs
  <2>1. st.queue \in Seq(Considerations)
    BY DEF Good, States
  <2>2. \A i \in DOMAIN st.queue : st.queue[i] \in Considerations
    BY <2>1, ElementOfSeq, LenProperties
  <2> QED
    BY <2>2 DEF Considerations
<1> QED
  BY <1>1 DEF Good, Kept

\* r's queue is st's, with some entries marked as handed over; all that are
\* marked were, as h2 has it.
Marks(r, st, h2) ==
    \A i \in DOMAIN st.queue :
        /\ r.queue[i].seq = st.queue[i].seq /\ r.queue[i].actor = st.queue[i].actor
        /\ st.queue[i].enqueued => r.queue[i].enqueued
        /\ r.queue[i].enqueued => h2[r.queue[i].seq] > 0

\* The first n numbers are finitely many.
LEMMA FirstsAreFinite ==
  ASSUME NEW n \in Nat
  PROVE  IsFiniteSet(1 .. n)
BY FS_Interval

LEMMA MarkedGood ==
  ASSUME NEW st, NEW h, Good(st, h), NEW r, NEW h2,
         r = [st EXCEPT !.queue = r.queue], r.queue \in Seq(Considerations),
         Len(r.queue) = Len(st.queue),
         Marks(r, st, h2),
         \A x \in Seqs : h[x] > 0 => h2[x] > 0
  PROVE  /\ Good(r, h2) /\ r.last = st.last
         /\ Behind(st) => Behind(r)
         /\ \A x : Waits(r, x) => Waits(st, x)
<1>1. st \in States /\ st.queue \in Seq(Considerations)
  BY DEF Good, States
<1>2. /\ r \in States /\ r.last = st.last /\ r.ring = st.ring /\ r.fate = st.fate
      /\ r.jumped = st.jumped
  BY <1>1 DEF States
<1>3. /\ DOMAIN r.queue = DOMAIN st.queue /\ DOMAIN st.queue = 1 .. Len(st.queue)
      /\ Len(st.queue) \in Nat
      /\ \A i \in DOMAIN st.queue : st.queue[i] \in Considerations
  BY <1>1, LenProperties, ElementOfSeq
<1>4. Pending(r) \subseteq Pending(st)
  BY <1>3 DEF Pending, Marks
<1>5. \A a \in Actors : PendingForActor(r, a) <= MaxPendingPerActor
  <2> TAKE a \in Actors
  <2> DEFINE A == {i \in Pending(r) : r.queue[i].actor = a}
             B == {i \in Pending(st) : st.queue[i].actor = a}
  <2>1. A \subseteq B /\ B \subseteq 1 .. Len(st.queue)
    <3>1. ASSUME NEW i \in A
          PROVE  i \in B
      <4>1. i \in Pending(st) /\ i \in DOMAIN st.queue
        BY <1>4 DEF Pending
      <4>2. r.queue[i].actor = st.queue[i].actor
        BY <4>1 DEF Marks
      <4> QED
        BY <4>1, <4>2
    <3>2. B \subseteq 1 .. Len(st.queue)
      BY <1>3 DEF Pending
    <3> QED
      BY <3>1, <3>2
  <2>2. IsFiniteSet(1 .. Len(st.queue))
    BY <1>3, FirstsAreFinite, Zenon
  <2>3. PendingForActor(r, a) = Cardinality(A) /\ PendingForActor(st, a) = Cardinality(B)
    BY DEF PendingForActor
  <2> HIDE DEF A, B
  <2>4. IsFiniteSet(B)
    BY <2>1, <2>2, FS_Subset
  <2>5. IsFiniteSet(A) /\ Cardinality(A) <= Cardinality(B)
    BY <2>1, <2>4, FS_Subset
  <2>6. Cardinality(A) \in Nat /\ Cardinality(B) \in Nat
    BY <2>4, <2>5, FS_CardinalityType
  <2>7. MaxPendingPerActor \in Nat /\ PendingForActor(st, a) <= MaxPendingPerActor
    BY MentionIngestAssumption DEF ValidConfig, Good, WithinBounds
  <2> QED
    BY <2>3, <2>5, <2>6, <2>7
<1>6. WithinBounds(r)
  BY <1>2, <1>5 DEF Good, WithinBounds
<1>7. Thorough(r)
  BY <1>2 DEF Good, Thorough, LookedAt
<1>8. Alone(r)
  BY <1>3 DEF Good, Alone, Marks
<1>9. Kept(r, h2)
  <2>1. ASSUME NEW x \in Seqs, r.fate[x] = "considered"
        PROVE  h2[x] > 0 \/ Waits(r, x)
    <3>1. CASE h[x] > 0
      BY <3>1
    <3>2. CASE Waits(st, x)
      <4>1. PICK i \in DOMAIN st.queue : ~ st.queue[i].enqueued /\ st.queue[i].seq = x
        BY <3>2 DEF Waits, Pending
      <4>2. r.queue[i].seq = x /\ (r.queue[i].enqueued => h2[x] > 0)
        BY <4>1 DEF Marks
      <4> QED
        BY <1>3, <4>1, <4>2 DEF Waits, Pending
    <3> QED
      BY <1>2, <2>1, <3>1, <3>2 DEF Good, Kept
  <2> QED
    BY <1>3, <2>1 DEF Kept, Marks
<1>10. Behind(st) => Behind(r)
  BY <1>2, <1>3 DEF Behind, Marks
<1>11. \A x : Waits(r, x) => Waits(st, x)
  BY <1>3, <1>4 DEF Waits, Pending, Marks
<1> QED
  BY <1>2, <1>6, <1>7, <1>8, <1>9, <1>10, <1>11 DEF Good

LEMMA InitIngestInv == Init => IngestInv
<1> SUFFICES ASSUME Init PROVE IngestInv
  OBVIOUS
<1> DEFINE zero == [s \in Seqs |-> 0]
<1>1. Fresh \in States
  BY LedgersAssumption DEF Fresh, States, Fates
<1>2. /\ Fresh.last = 0 /\ Fresh.ring = <<>> /\ Fresh.queue = <<>>
      /\ \A s \in Seqs : Fresh.fate[s] = "unseen"
  BY DEF Fresh
<1>3. Pending(Fresh) = {}
  BY <1>2 DEF Pending
<1>4. WithinBounds(Fresh)
  <2>1. ASSUME NEW a \in Actors
        PROVE  PendingForActor(Fresh, a) <= MaxPendingPerActor
    <3>1. {i \in Pending(Fresh) : Fresh.queue[i].actor = a} = {}
      BY <1>3
    <3>2. PendingForActor(Fresh, a) = Cardinality({})
      BY <3>1 DEF PendingForActor
    <3> QED
      BY <3>2, FS_EmptySet, MentionIngestAssumption DEF ValidConfig
  <2>2. DedupeCapacity \in Nat /\ ConsiderationCapacity \in Nat
    BY MentionIngestAssumption DEF ValidConfig
  <2> QED
    BY <1>2, <2>1, <2>2 DEF WithinBounds
<1>5. Thorough(Fresh) /\ Alone(Fresh) /\ Kept(Fresh, zero) /\ Behind(Fresh) /\ Done(Fresh, zero)
  BY <1>2, <1>3 DEF Thorough, LookedAt, Alone, Kept, Behind, Done, Waits
<1>6. Good(Fresh, zero)
  BY <1>1, <1>4, <1>5 DEF Good
<1>7. state = Fresh /\ disk = Fresh /\ handed = zero /\ crashes = 0 /\ forced = 0 /\ rewound = FALSE
  BY DEF Init
<1>8. ledger \in [Seqs -> EventBodies]
  BY LedgersAssumption DEF Init
<1>9. zero \in [Seqs -> 0 .. 2]
  OBVIOUS
<1> QED
  BY <1>5, <1>6, <1>7, <1>8, <1>9 DEF IngestInv

\* Whatever batch is applied.
LEMMA BatchStep ==
  ASSUME IngestInv, NEW S, NEW floor, NEW gap,
         state' = AfterBatch(state, S, floor, gap),
         UNCHANGED <<ledger, disk, handed, crashes, forced, rewound>>
  PROVE  IngestInv'
<1>1. /\ Good(state', handed)
      /\ Behind(state) => Behind(state')
      /\ state.last <= state'.last
      /\ \A x \in Seqs : Waits(state', x) => Waits(state, x) \/ state.last < x
  <2>1. Good(state, handed) /\ ledger \in [Seqs -> EventBodies]
    BY DEF IngestInv
  <2> QED
    BY <2>1, BatchGood
<1>2. state.last \in Nat /\ state'.last \in Nat
  BY <1>1, LedgersAssumption DEF IngestInv, Good, States
<1>3. Done(state, handed) => Done(state', handed)
  <2> SUFFICES ASSUME Done(state, handed), NEW x \in Seqs
               PROVE  handed[x] < 2 /\ (handed[x] > 0 => x <= state'.last /\ ~ Waits(state', x))
    BY DEF Done
  <2>1. handed[x] < 2 /\ (handed[x] > 0 => x <= state.last /\ ~ Waits(state, x)) /\ x \in Nat
    BY LedgersAssumption DEF Done, Seqs
  <2> QED
    BY <1>1, <1>2, <2>1
<1>4. Good(disk, handed) /\ (~ rewound => Behind(disk))
  BY DEF IngestInv
<1>5. /\ ledger' = ledger /\ disk' = disk /\ handed' = handed /\ crashes' = crashes
      /\ forced' = forced /\ rewound' = rewound
  OBVIOUS
<1>6. Good(state', handed')
  BY <1>1, <1>5
<1>7. Good(disk', handed')
  BY <1>4, <1>5
<1>8. ~ rewound' => Behind(state') /\ Behind(disk')
  BY <1>1, <1>4, <1>5 DEF IngestInv
<1>9. crashes' = 0 /\ ~ rewound' => Done(state', handed')
  BY <1>3, <1>5 DEF IngestInv
<1> QED
  BY <1>5, <1>6, <1>7, <1>8, <1>9 DEF IngestInv

LEMMA OnceIs == \A n \in 0 .. 2 : Once(n) \in 0 .. 2 /\ Once(n) > 0 /\ (n = 0 => Once(n) = 1)
BY DEF Once

LEMMA TakePendingStep ==
  ASSUME IngestInv, TakePending
  PROVE  IngestInv'
<1> DEFINE q == HandedOver(state.queue)
<1>1. state \in States /\ Good(state, handed) /\ Good(disk, handed) /\ handed \in [Seqs -> 0 .. 2]
  BY DEF IngestInv, Good
<1>2. /\ state.queue \in Seq(Considerations) /\ Len(state.queue) \in Nat
      /\ DOMAIN state.queue = 1 .. Len(state.queue)
      /\ \A i \in DOMAIN state.queue : state.queue[i] \in Considerations
  <2>1. state.queue \in Seq(Considerations)
    BY <1>1 DEF States
  <2> QED
    BY <2>1, LenProperties, ElementOfSeq
<1>3. /\ handed' = [s \in Seqs |-> IF Waits(state, s) THEN Once(handed[s]) ELSE handed[s]]
      /\ state' = [state EXCEPT !.queue = q]
      /\ UNCHANGED <<ledger, disk, crashes, forced, rewound>>
  BY DEF TakePending, Waits
<1>4. /\ q \in Seq(Considerations) /\ Len(q) = Len(state.queue) /\ DOMAIN q = DOMAIN state.queue
      /\ \A i \in DOMAIN state.queue :
            /\ q[i].seq = state.queue[i].seq /\ q[i].actor = state.queue[i].actor /\ q[i].enqueued
  <2>1. \A i \in DOMAIN state.queue :
           /\ q[i] \in Considerations
           /\ q[i].seq = state.queue[i].seq /\ q[i].actor = state.queue[i].actor /\ q[i].enqueued
    BY <1>2 DEF HandedOver, Considerations
  <2>2. q = [i \in 1 .. Len(state.queue) |-> q[i]]
    BY <1>2 DEF HandedOver
  <2> HIDE DEF q
  <2>3. q \in Seq(Considerations) /\ Len(q) = Len(state.queue)
    BY <1>2, <2>1, <2>2, IsASeq, LenProperties
  <2> QED
    BY <1>2, <2>1, <2>3, LenProperties
<1> HIDE DEF q
<1>5. handed' \in [Seqs -> 0 .. 2] /\ \A x \in Seqs : handed[x] > 0 => handed'[x] > 0
  BY <1>1, <1>3, OnceIs
<1>6. state'.queue = q /\ state' = [state EXCEPT !.queue = state'.queue]
  BY <1>1, <1>3 DEF States
<1>7. ASSUME NEW i \in DOMAIN state.queue
      PROVE  /\ state'.queue[i].seq = state.queue[i].seq
             /\ state'.queue[i].actor = state.queue[i].actor
             /\ state.queue[i].enqueued => state'.queue[i].enqueued
             /\ state'.queue[i].enqueued => handed'[state'.queue[i].seq] > 0
  <2>1. state'.queue[i].seq = state.queue[i].seq /\ state.queue[i].seq \in Seqs
    BY <1>2, <1>4, <1>6 DEF Considerations
  <2>2. handed'[state.queue[i].seq] > 0
    <3>1. CASE state.queue[i].enqueued
      BY <1>1, <1>5, <2>1, <3>1 DEF Good, Kept
    <3>2. CASE ~ state.queue[i].enqueued
      <4>1. Waits(state, state.queue[i].seq)
        BY <3>2 DEF Waits, Pending
      <4> QED
        BY <1>1, <1>3, <2>1, <4>1, OnceIs
    <3> QED
      BY <3>1, <3>2
  <2> QED
    BY <1>4, <1>6, <2>1, <2>2
<1>8. /\ Good(state', handed') /\ state'.last = state.last
      /\ Behind(state) => Behind(state')
  <2>1. Marks(state', state, handed')
    BY <1>7 DEF Marks
  <2>2. state'.queue \in Seq(Considerations) /\ Len(state'.queue) = Len(state.queue)
    BY <1>4, <1>6
  <2> QED
    BY <1>1, <1>5, <1>6, <2>1, <2>2, MarkedGood
<1>9. \A x : ~ Waits(state', x)
  BY <1>4, <1>6 DEF Waits, Pending
<1>10. ASSUME Done(state, handed), Behind(state)
       PROVE  Done(state', handed')
  <2> SUFFICES ASSUME NEW x \in Seqs
               PROVE  handed'[x] < 2 /\ (handed'[x] > 0 => x <= state'.last)
    BY <1>9 DEF Done
  <2>1. CASE Waits(state, x)
    <3>1. handed[x] = 0
      BY <1>1, <1>10, <2>1 DEF Done
    <3>2. x <= state.last
      BY <1>10, <2>1 DEF Waits, Pending, Behind
    <3> QED
      BY <1>3, <1>8, <2>1, <3>1, <3>2, OnceIs
  <2>2. CASE ~ Waits(state, x)
    BY <1>3, <1>8, <1>10, <2>2 DEF Done
  <2> QED
    BY <2>1, <2>2
<1>11. Good(disk', handed')
  BY <1>1, <1>3, <1>5, GoodIsMonotone
<1> QED
  BY <1>3, <1>5, <1>8, <1>10, <1>11 DEF IngestInv

LEMMA MarkEnqueuedStep ==
  ASSUME IngestInv, NEW s \in Seqs, MarkEnqueued(s)
  PROVE  IngestInv'
<1>1. state \in States /\ Good(state, handed) /\ Good(disk, handed) /\ handed \in [Seqs -> 0 .. 2]
  BY DEF IngestInv, Good
<1>2. /\ state.queue \in Seq(Considerations) /\ Len(state.queue) \in Nat
      /\ DOMAIN state.queue = 1 .. Len(state.queue)
      /\ \A i \in DOMAIN state.queue : state.queue[i] \in Considerations
  <2>1. state.queue \in Seq(Considerations)
    BY <1>1 DEF States
  <2> QED
    BY <2>1, LenProperties, ElementOfSeq
<1> DEFINE i == CHOOSE j \in DOMAIN state.queue :
                   state.queue[j].seq = s /\ \A k \in 1 .. j - 1 : state.queue[k].seq # s
<1>3. /\ \E j \in Pending(state) : state.queue[j].seq = s
      /\ ~ state.queue[i].enqueued
      /\ state' = [state EXCEPT !.queue[i].enqueued = TRUE]
      /\ handed' = [handed EXCEPT ![s] = Once(@)]
      /\ UNCHANGED <<ledger, disk, crashes, forced, rewound>>
  BY DEF MarkEnqueued
<1>4. i \in DOMAIN state.queue /\ state.queue[i].seq = s
  <2>1. PICK j \in DOMAIN state.queue : state.queue[j].seq = s
    BY <1>3 DEF Pending
  <2>2. \A k \in DOMAIN state.queue : state.queue[k].seq = s => k = j
    BY <1>1, <2>1 DEF Good, Alone
  <2>3. \A k \in 1 .. j - 1 : state.queue[k].seq # s
    <3>1. \A k \in 1 .. j - 1 : k \in DOMAIN state.queue /\ k # j
      BY <1>2, <2>1
    <3> QED
      BY <2>2, <3>1
  <2> QED
    BY <2>1, <2>3
<1> HIDE DEF i
<1> DEFINE e == [state.queue[i] EXCEPT !.enqueued = TRUE]
           q == [state.queue EXCEPT ![i] = e]
<1>5. e \in Considerations /\ e.seq = s /\ e.actor = state.queue[i].actor /\ e.enqueued
  BY <1>2, <1>4 DEF Considerations
<1>6. state'.queue = q /\ state' = [state EXCEPT !.queue = state'.queue]
  BY <1>1, <1>3 DEF States
<1> HIDE DEF e
<1>7. /\ q \in Seq(Considerations) /\ Len(q) = Len(state.queue) /\ DOMAIN q = DOMAIN state.queue
      /\ \A j \in DOMAIN state.queue : q[j] = IF j = i THEN e ELSE state.queue[j]
  <2>1. q \in Seq(Considerations) /\ Len(q) = Len(state.queue)
    BY <1>2, <1>4, <1>5, ExceptSeq
  <2> QED
    BY <1>2, <1>4, <2>1
<1> HIDE DEF q
<1>8. /\ handed' \in [Seqs -> 0 .. 2] /\ handed'[s] = Once(handed[s]) /\ handed'[s] > 0
      /\ \A x \in Seqs : x # s => handed'[x] = handed[x]
      /\ \A x \in Seqs : handed[x] > 0 => handed'[x] > 0
  BY <1>1, <1>3, OnceIs
<1>9. ASSUME NEW j \in DOMAIN state.queue
      PROVE  /\ state'.queue[j].seq = state.queue[j].seq
             /\ state'.queue[j].actor = state.queue[j].actor
             /\ state.queue[j].enqueued => state'.queue[j].enqueued
             /\ state'.queue[j].enqueued => handed'[state'.queue[j].seq] > 0
  <2>1. CASE j = i
    BY <1>4, <1>5, <1>6, <1>7, <1>8, <2>1
  <2>2. CASE j # i
    <3>1. state'.queue[j] = state.queue[j] /\ state.queue[j].seq \in Seqs
      BY <1>2, <1>6, <1>7, <2>2 DEF Considerations
    <3>2. state.queue[j].enqueued => handed[state.queue[j].seq] > 0
      BY <1>1 DEF Good, Kept
    <3> QED
      BY <1>8, <3>1, <3>2
  <2> QED
    BY <2>1, <2>2
<1>10. /\ Good(state', handed') /\ state'.last = state.last
       /\ Behind(state) => Behind(state')
       /\ \A x : Waits(state', x) => Waits(state, x)
  <2>1. Marks(state', state, handed')
    BY <1>9 DEF Marks
  <2>2. state'.queue \in Seq(Considerations) /\ Len(state'.queue) = Len(state.queue)
    BY <1>6, <1>7
  <2> QED
    BY <1>1, <1>6, <1>8, <2>1, <2>2, MarkedGood
<1>11. ~ Waits(state', s)
  <2> SUFFICES ASSUME NEW j \in DOMAIN state.queue, state'.queue[j].seq = s
               PROVE  state'.queue[j].enqueued
    BY <1>6, <1>7 DEF Waits, Pending
  <2>1. j = i
    BY <1>1, <1>4, <1>9 DEF Good, Alone
  <2> QED
    BY <1>5, <1>6, <1>7, <2>1
<1>12. ASSUME Done(state, handed), Behind(state)
       PROVE  Done(state', handed')
  <2> SUFFICES ASSUME NEW x \in Seqs
               PROVE  handed'[x] < 2 /\ (handed'[x] > 0 => x <= state'.last /\ ~ Waits(state', x))
    BY DEF Done
  <2>1. CASE x = s
    <3>1. Waits(state, s)
      BY <1>3 DEF Waits
    <3>2. handed[s] = 0
      BY <1>1, <1>12, <3>1 DEF Done
    <3>3. s <= state.last
      BY <1>4, <1>12 DEF Behind
    <3> QED
      BY <1>8, <1>10, <1>11, <2>1, <3>2, <3>3, OnceIs
  <2>2. CASE x # s
    BY <1>8, <1>10, <1>12, <2>2 DEF Done
  <2> QED
    BY <2>1, <2>2
<1>13. Good(disk', handed')
  BY <1>1, <1>3, <1>8, GoodIsMonotone
<1> QED
  BY <1>3, <1>8, <1>10, <1>12, <1>13 DEF IngestInv

LEMMA RestartStep ==
  ASSUME IngestInv, Restart
  PROVE  IngestInv'
<1>1. disk \in States /\ WithinBounds(disk)
  BY DEF IngestInv, Good
<1>2. /\ KeepLast(disk.ring, DedupeCapacity) = disk.ring
      /\ KeepLast(disk.queue, ConsiderationCapacity) = disk.queue
  <2>1. DedupeCapacity \in Nat /\ ConsiderationCapacity \in Nat
    BY MentionIngestAssumption DEF ValidConfig
  <2>2. disk.ring \in Seq(Seqs) /\ disk.queue \in Seq(Considerations)
    BY <1>1 DEF States
  <2> QED
    BY <1>1, <2>1, <2>2, KeepLastProperties DEF WithinBounds
<1>3. state' = disk
  BY <1>1, <1>2 DEF Restart, States
<1>4. /\ crashes' = crashes + 1
      /\ UNCHANGED <<ledger, disk, handed, forced, rewound>>
  BY DEF Restart
<1>5. crashes' \in Nat /\ crashes' # 0
  BY <1>4 DEF IngestInv
<1> QED
  BY <1>3, <1>4, <1>5 DEF IngestInv

\* The operator moves the cursor to n.
LEMMA ForcedGood ==
  ASSUME NEW st, NEW h, Good(st, h), NEW n \in 0 .. Height, NEW r,
         \/ n >= st.last /\ r = [st EXCEPT !.last = n, !.gap = FALSE,
                                           !.jumped = st.jumped \cup st.last + 1 .. n]
         \/ n < st.last /\ r = [st EXCEPT !.last = n, !.gap = FALSE]
  PROVE  /\ Good(r, h) /\ r.last = n
         /\ n >= st.last /\ Behind(st) => Behind(r)
         /\ \A x : Waits(r, x) <=> Waits(st, x)
<1>1. st \in States /\ st.last \in Nat /\ n \in Nat
  BY LedgersAssumption DEF Good, States
<1>2. /\ r \in States /\ r.last = n /\ r.queue = st.queue /\ r.ring = st.ring
      /\ r.fate = st.fate /\ st.jumped \subseteq r.jumped
      /\ n >= st.last => \A x \in st.last + 1 .. n : x \in r.jumped
  <2>1. st.last + 1 .. n \subseteq Seqs
    BY <1>1, LedgersAssumption DEF Seqs
  <2>2. CASE n >= st.last
    <3>1. r = [st EXCEPT !.last = n, !.gap = FALSE, !.jumped = st.jumped \cup st.last + 1 .. n]
      BY <1>1, <2>2
    <3> QED
      BY <1>1, <2>1, <3>1 DEF States
  <2>3. CASE ~ (n >= st.last)
    <3>1. r = [st EXCEPT !.last = n, !.gap = FALSE]
      BY <1>1, <2>3
    <3> QED
      BY <1>1, <2>3, <3>1 DEF States
  <2> QED
    BY <2>2, <2>3
<1>3. /\ \A x : Waits(r, x) <=> Waits(st, x)
      /\ \A x : PendingForActor(r, x) = PendingForActor(st, x)
  BY <1>2, SameQueue
<1>4. \A m : LookedAt(st, m) => LookedAt(r, m)
  BY <1>2 DEF LookedAt
<1>5. LookedAt(r, n)
  <2> SUFFICES ASSUME NEW x \in 1 .. n
               PROVE  r.fate[x] # "unseen" \/ x \in r.jumped
    BY DEF LookedAt
  <2>1. CASE x <= st.last
    <3>1. x \in 1 .. st.last
      BY <1>1, <2>1
    <3> QED
      BY <1>2, <3>1 DEF Good, Thorough, LookedAt
  <2>2. CASE ~ (x <= st.last)
    <3>1. n >= st.last /\ x \in st.last + 1 .. n
      BY <1>1, <2>2
    <3> QED
      BY <1>2, <3>1
  <2> QED
    BY <2>1, <2>2
<1>6. Good(r, h)
  BY <1>2, <1>3, <1>4, <1>5 DEF Good, WithinBounds, Thorough, Alone, Kept
<1>7. ASSUME n >= st.last, Behind(st)
      PROVE  Behind(r)
  <2>1. st.ring \in Seq(Seqs) /\ st.queue \in Seq(Considerations)
    BY <1>1 DEF States
  <2>2. /\ \A k \in DOMAIN st.ring : st.ring[k] \in Seqs
        /\ \A i \in DOMAIN st.queue : st.queue[i] \in Considerations
    BY <2>1, ElementOfSeq, LenProperties
  <2>3. /\ \A k \in DOMAIN st.ring : st.ring[k] \in Nat
        /\ \A i \in DOMAIN st.queue : st.queue[i].seq \in Nat
    BY <2>2, LedgersAssumption DEF Seqs, Considerations
  <2> QED
    BY <1>1, <1>2, <1>7, <2>3 DEF Behind
<1> QED
  BY <1>2, <1>3, <1>6, <1>7

LEMMA ForceStep ==
  ASSUME IngestInv, NEW n \in 0 .. Height, ForceCursor(n) \/ ForceCursorRewind(n)
  PROVE  IngestInv'
<1>1. /\ Good(state, handed) /\ Good(disk, handed) /\ state.last \in Nat /\ n \in Nat
      /\ state \in States /\ forced + 1 \in Nat
  BY LedgersAssumption DEF IngestInv, Good, States
<1>2. /\ Good(state', handed) /\ state'.last = n
      /\ n >= state.last /\ Behind(state) => Behind(state')
      /\ \A x : Waits(state', x) <=> Waits(state, x)
  <2>1. \/ n >= state.last /\ state' = [state EXCEPT !.last = n, !.gap = FALSE,
                                           !.jumped = state.jumped \cup state.last + 1 .. n]
        \/ n < state.last /\ state' = [state EXCEPT !.last = n, !.gap = FALSE]
    BY <1>1 DEF ForceCursor, ForceCursorRewind, States
  <2> QED
    BY <1>1, <2>1, ForcedGood
<1>3. UNCHANGED <<ledger, disk, handed, crashes>> /\ forced' = forced + 1
  BY DEF ForceCursor, ForceCursorRewind
<1>4. CASE ForceCursorRewind(n)
  <2>1. rewound' = TRUE
    BY <1>4 DEF ForceCursorRewind
  <2> QED
    BY <1>1, <1>2, <1>3, <2>1 DEF IngestInv
<1>5. CASE ForceCursor(n)
  <2>1. rewound' = rewound /\ n >= state.last
    BY <1>5 DEF ForceCursor
  <2>2. Done(state, handed) => Done(state', handed)
    <3>1. \A x \in Seqs : x <= state.last => x <= n
      BY <1>1, <2>1, LedgersAssumption DEF Seqs
    <3> QED
      BY <1>2, <3>1 DEF Done
  <2> QED
    BY <1>1, <1>2, <1>3, <2>1, <2>2 DEF IngestInv
<1> QED
  BY <1>4, <1>5

LEMMA NextIngestInv ==
  ASSUME IngestInv, [Next]_vars
  PROVE  IngestInv'
<1>1. ASSUME NEW r, Poll(r)
      PROVE  IngestInv'
  BY <1>1, BatchStep DEF Poll
<1>2. CASE PollHonest
  BY <1>1, <1>2 DEF PollHonest
<1>3. ASSUME NEW b \in Batches, Deliver(b)
      PROVE  IngestInv'
  BY <1>3, BatchStep DEF Deliver
<1>4. CASE TakePending
  BY <1>4, TakePendingStep
<1>5. ASSUME NEW s \in Seqs, MarkEnqueued(s)
      PROVE  IngestInv'
  BY <1>5, MarkEnqueuedStep
<1>6. ASSUME NEW s \in Seqs, ForceCursor(s) \/ ForceCursorRewind(s - 1)
      PROVE  IngestInv'
  <2>1. s \in 0 .. Height /\ s - 1 \in 0 .. Height
    BY LedgersAssumption DEF Seqs
  <2> QED
    BY <1>6, <2>1, ForceStep
<1>7. CASE Save
  BY <1>7 DEF Save, IngestInv
<1>8. CASE Restart
  BY <1>8, RestartStep
<1>9. CASE UNCHANGED vars
  BY <1>9 DEF vars, IngestInv
<1> QED
  BY <1>1, <1>2, <1>3, <1>4, <1>5, <1>6, <1>7, <1>8, <1>9 DEF Next

-----------------------------------------------------------------------------
(* A page of the server                                                     *)

\* A page without holes holds what is between its first and its last event.
LEMMA ContiguousPage ==
  ASSUME NEW seqs \in Seq(Seqs), seqs # <<>>, Contiguous(seqs)
  PROVE  /\ Head(seqs) \in Seqs /\ Last(seqs) \in Seqs
         /\ Last(seqs) = Head(seqs) + Len(seqs) - 1
         /\ \A s \in Seqs : s \in Range(seqs) <=> Head(seqs) <= s /\ s <= Last(seqs)
<1> DEFINE n == Len(seqs)
           P == {i \in 0 .. n : i > 0 => seqs[i] = seqs[1] + i - 1}
<1>1. /\ n \in Nat \ {0} /\ DOMAIN seqs = 1 .. n
      /\ \A i \in 1 .. n : seqs[i] \in Seqs
      /\ Head(seqs) = seqs[1] /\ Last(seqs) = seqs[n]
  BY LenProperties, ElementOfSeq, EmptySeq DEF Last
<1>2. \A i \in 1 .. n : seqs[i] \in Int
  BY <1>1, LedgersAssumption DEF Seqs
<1> HIDE DEF n
<1>3. 0 .. n \subseteq P
  <2>1. 0 \in P
    BY <1>1
  <2>2. ASSUME NEW i \in 1 .. n, i - 1 \in P
        PROVE  i \in P
    <3>1. CASE i = 1
      BY <1>1, <1>2, <3>1
    <3>2. CASE i # 1
      <4>1. i \in 2 .. n /\ i - 1 > 0 /\ i - 1 \in 1 .. n
        BY <1>1, <3>2
      <4>2. seqs[i] = seqs[i - 1] + 1
        BY <4>1 DEF Contiguous, n
      <4>3. seqs[i - 1] = seqs[1] + (i - 1) - 1
        BY <2>2, <4>1
      <4> QED
        BY <1>1, <1>2, <4>1, <4>2, <4>3
    <3> QED
      BY <3>1, <3>2
  <2> HIDE DEF P
  <2> QED
    BY <1>1, <2>1, <2>2, IntervalInduction
<1>4. \A i \in 1 .. n : seqs[i] = seqs[1] + i - 1
  BY <1>1, <1>3
<1>5. Last(seqs) = Head(seqs) + n - 1 /\ Head(seqs) \in Seqs /\ Last(seqs) \in Seqs
  BY <1>1, <1>4
<1>6. ASSUME NEW s \in Seqs
      PROVE  s \in Range(seqs) <=> Head(seqs) <= s /\ s <= Last(seqs)
  <2>1. s \in Range(seqs) <=> \E i \in 1 .. n : seqs[i] = s
    BY <1>1 DEF Range
  <2>2. s \in Int /\ Head(seqs) \in Int
    BY <1>1, <1>2, LedgersAssumption DEF Seqs
  <2>3. ASSUME Head(seqs) <= s, s <= Last(seqs)
        PROVE  \E i \in 1 .. n : seqs[i] = s
    <3>1. (s - Head(seqs)) + 1 \in 1 .. n
      BY <1>1, <1>5, <2>2, <2>3
    <3> QED
      BY <1>1, <1>2, <1>4, <2>2, <3>1
  <2>4. ASSUME NEW i \in 1 .. n, seqs[i] = s
        PROVE  Head(seqs) <= s /\ s <= Last(seqs)
    BY <1>1, <1>2, <1>4, <1>5, <2>4
  <2> QED
    BY <2>1, <2>3, <2>4
<1> QED
  BY <1>5, <1>6 DEF n

\* The loop at sequence i of a page from m to n: it waits for the page, took
\* all of it up to i, or is done with it.
OnPage(a, i, st, m, n) ==
    /\ i < m => a = Start(st)
    /\ i >= m =>
          /\ a.st.last = (IF i <= n THEN i ELSE n)
          /\ a.next = a.st.last + 1 /\ a.applied = a.st.last - m + 1
          /\ ~ a.hole /\ a.advanced /\ ~ a.bootstrap

\* The event next in line, behind no key: the cursor moves to it.
LEMMA NextOnPage ==
  ASSUME NEW st0, NEW h, NEW a, Underway(a, st0, h), Behind(a.st),
         ledger \in [Seqs -> EventBodies], NEW s \in Seqs,
         a.st.last < s, ~ a.hole, a.applied < MaxApplyPerBatch, s = Expected(a, s)
  PROVE  LET v == Turn(a, s) IN
           /\ v.st.last = s /\ v.next = s + 1 /\ v.applied = a.applied + 1
           /\ ~ v.hole /\ v.advanced /\ ~ v.bootstrap
<1>1. /\ a \in Carried /\ Good(a.st, h) /\ a.st \in States /\ a.bootstrap \in BOOLEAN
      /\ a.st.last \in Nat /\ s \in Nat /\ a.applied \in Nat /\ MaxApplyPerBatch \in Nat
  BY LedgersAssumption, MentionIngestAssumption DEF Underway, Good, States, Seqs, Carried, ValidConfig
<1>2. ~ AlreadyProcessed(a.st, s)
  <2>1. \A k \in DOMAIN a.st.ring : a.st.ring[k] <= a.st.last /\ a.st.ring[k] \in Nat
    <3>1. a.st.ring \in Seq(Seqs)
      BY <1>1 DEF States
    <3> QED
      BY <3>1, ElementOfSeq, LenProperties, LedgersAssumption DEF Behind, Seqs
  <2> QED
    BY <1>1, <2>1 DEF AlreadyProcessed, Range
<1> DEFINE r == Passed(a.st, s, a.bootstrap)
           v == [a EXCEPT !.next = s + 1, !.bootstrap = FALSE,
                          !.applied = a.applied + 1, !.advanced = TRUE, !.st = r]
<1>3. Turn(a, s) = InOrder(a, s)
  BY <1>1 DEF Turn
<1>4. InOrder(a, s) = v
  BY <1>1, <1>2 DEF InOrder, Carried
<1>5. r.last = s
  <2> HIDE DEF r
  <2>1. r = Passed(a.st, s, a.bootstrap)
    BY DEF r
  <2>2. PassedTo(r, a.st, s, a.bootstrap, Fate(a.st, s))
    BY <1>1, <2>1, PassedFields
  <2> QED
    BY <2>2 DEF PassedTo
<1> HIDE DEF r
<1>6. /\ v.st = r /\ v.next = s + 1 /\ v.applied = a.applied + 1 /\ v.hole = a.hole
      /\ v.advanced = TRUE /\ v.bootstrap = FALSE
  BY <1>1 DEF Carried
<1> HIDE DEF v
<1> QED
  BY <1>3, <1>4, <1>5, <1>6

\* The high-water mark of a cursor is a position of a ledger.
LEMMA LastIsAPosition ==
  ASSUME NEW x \in States
  PROVE  x.last \in Nat
BY MentionIngestAssumption, LedgersAssumption DEF States

LEMMA LoopOnPage ==
  ASSUME NEW st, NEW h, Good(st, h), Behind(st), ledger \in [Seqs -> EventBodies],
         NEW m \in Nat, NEW n \in Nat, NEW S,
         \A s \in Seqs : s \in S <=> m <= s /\ s <= n,
         st.last < m, m <= n => n - m < MaxApplyPerBatch,
         m <= n => st.last = 0 \/ m = st.last + 1, n < m => Height < m
  PROVE  OnPage(Loop(Start(st), S), Height, st, m, n)
<1>1. PICK after :
            /\ after = [s \in 0 .. Height |->
                          IF s = 0 THEN Start(st) ELSE Continued(after[s - 1], s, S)]
            /\ Loop(Start(st), S) = after[Height]
  BY LoopUnfolds
<1> DEFINE P == {s \in 0 .. Height : Underway(after[s], st, h) /\ OnPage(after[s], s, st, m, n)}
<1>2. /\ Height \in Nat /\ st \in States /\ st.last \in Nat
      /\ MaxApplyPerBatch \in Nat \ {0}
  BY LedgersAssumption, MentionIngestAssumption DEF Good, States, ValidConfig
<1>3. 0 \in P
  <2>1. OnPage(Start(st), 0, st, m, n)
    BY <1>2 DEF OnPage
  <2> QED
    BY <1>1, <1>2, <2>1, StartUnderway
<1>4. ASSUME NEW s \in 1 .. Height, s - 1 \in P
      PROVE  s \in P
  <2> DEFINE a == after[s - 1]
             v == Turn(a, s)
  <2>1. after[s] = IF s \in S THEN v ELSE a
    <3>1. after[s] = Continued(after[s - 1], s, S)
      BY <1>1, <1>2
    <3> QED
      BY <3>1, ContinuedIs
  <2>2. Underway(a, st, h) /\ OnPage(a, s - 1, st, m, n) /\ s \in Seqs /\ s \in Nat
    BY <1>4 DEF Seqs
  <2>3. Underway(v, st, h)
    BY <1>2, <2>2, TurnUnderway
  <2>4. Behind(a.st) /\ a.applied \in Nat /\ a.st.last \in Nat
    <3>1. a \in Carried /\ Good(a.st, h) /\ Behind(a.st)
      BY <2>2 DEF Underway
    <3>2. a.applied \in Nat /\ a.st \in States
      BY <3>1 DEF Carried, Good
    <3>3. a.st.last \in Nat
      BY <3>2, LastIsAPosition
    <3> QED
      BY <3>1, <3>2, <3>3
  <2>5. /\ Start(st).st = st /\ Start(st).next = st.last + 1 /\ Start(st).applied = 0
        /\ (Start(st).bootstrap <=> st.last = 0) /\ ~ Start(st).hole
    BY DEF Start
  <2> HIDE DEF a
  <2>6. CASE s < m
    <3>1. s \notin S /\ s - 1 < m
      BY <2>2, <2>6
    <3>2. OnPage(a, s, st, m, n)
      BY <2>2, <2>6, <3>1 DEF OnPage
    <3> QED
      BY <2>1, <2>2, <3>1, <3>2 DEF a
  <2>7. CASE s = m
    <3>1. m <= n /\ s \in S /\ s - 1 < m
      BY <1>2, <2>2, <2>7
    <3>2. a = Start(st)
      BY <2>2, <3>1 DEF OnPage
    <3>3. /\ a.st.last < s /\ ~ a.hole /\ a.applied < MaxApplyPerBatch
      BY <1>2, <2>5, <2>7, <3>2
    <3>4. s = Expected(a, s)
      BY <2>5, <2>7, <3>1, <3>2 DEF Expected
    <3>5. /\ v.st.last = s /\ v.next = s + 1 /\ v.applied = a.applied + 1
          /\ ~ v.hole /\ v.advanced /\ ~ v.bootstrap
      BY <2>2, <2>4, <3>3, <3>4, NextOnPage
    <3>6. a.applied = 0
      BY <2>5, <3>2
    <3> HIDE DEF v
    <3>7. OnPage(v, s, st, m, n)
      BY <2>2, <2>7, <3>1, <3>5, <3>6 DEF OnPage
    <3> QED
      BY <2>1, <2>3, <3>1, <3>7
  <2>8. CASE m < s /\ s <= n
    <3>1. s \in S /\ s - 1 >= m /\ s - 1 <= n
      BY <2>2, <2>8
    <3>2. /\ a.st.last = s - 1 /\ a.next = a.st.last + 1 /\ a.applied = a.st.last - m + 1
          /\ ~ a.hole /\ a.advanced /\ ~ a.bootstrap
      BY <2>2, <3>1 DEF OnPage
    <3>3. a.st.last < s /\ a.applied = s - m /\ a.next = s
      BY <2>2, <3>2
    <3>4. a.applied < MaxApplyPerBatch
      BY <1>2, <2>2, <2>8, <3>3
    <3>5. s = Expected(a, s)
      BY <3>2, <3>3 DEF Expected
    <3>6. /\ v.st.last = s /\ v.next = s + 1 /\ v.applied = a.applied + 1
          /\ ~ v.hole /\ v.advanced /\ ~ v.bootstrap
      BY <2>2, <2>4, <3>2, <3>3, <3>4, <3>5, NextOnPage
    <3> HIDE DEF v
    <3>7. OnPage(v, s, st, m, n)
      BY <2>2, <2>8, <3>3, <3>6 DEF OnPage
    <3> QED
      BY <2>1, <2>3, <3>1, <3>7
  <2>9. CASE m < s /\ n < s
    <3>1. s \notin S /\ s - 1 >= m
      BY <2>2, <2>9
    <3>2. m <= n
      BY <1>2, <2>2, <2>9
    <3>3. OnPage(a, s, st, m, n)
      <4>1. CASE s - 1 <= n
        <5>1. s - 1 = n
          BY <2>2, <2>9, <4>1
        <5> QED
          BY <2>2, <2>9, <3>1, <5>1 DEF OnPage
      <4>2. CASE ~ (s - 1 <= n)
        BY <2>2, <2>9, <3>1, <4>2 DEF OnPage
      <4> QED
        BY <4>1, <4>2
    <3> QED
      BY <2>1, <2>2, <3>1, <3>3 DEF a
  <2> QED
    BY <2>2, <2>6, <2>7, <2>8, <2>9
<1>5. Height \in P
  <2>1. 0 .. Height \subseteq P
    <3> HIDE DEF P
    <3> QED
      BY <1>2, <1>3, <1>4, IntervalInduction
  <2> QED
    BY <1>2, <2>1
<1> QED
  BY <1>1, <1>5

\* What the client advises of a page is what the ingest does with it.
LEMMA PageFollowed ==
  ASSUME NEW st, NEW h, Good(st, h), Behind(st), ledger \in [Seqs -> EventBodies],
         NEW p, p.seqs \in Seq(Seqs), p.floor \in Nat, p.height \in Nat,
         ValidEventPage(p, st.last), Len(p.seqs) <= MaxApplyPerBatch,
         NEW r, r = AfterBatch(st, Range(p.seqs), p.floor, p.gap)
  PROVE  /\ r.last = SuggestedCursor(st.last, p).to
         /\ SuggestedCursor(st.last, p).kind = "To" => ~ r.gap
         /\ SuggestedCursor(st.last, p).kind = "Reconcile" => r.gap
<1>1. /\ st \in States /\ st.last \in Nat /\ Height \in Nat /\ st.last <= Height
      /\ MaxApplyPerBatch \in Nat \ {0}
  <2>1. st \in States /\ Height \in Nat
    BY LedgersAssumption DEF Good
  <2>2. st.last \in 0 .. Height
    BY <2>1 DEF States
  <2>3. MaxApplyPerBatch \in Nat \ {0}
    BY MentionIngestAssumption DEF ValidConfig
  <2> QED
    BY <2>1, <2>2, <2>3
<1>2. CASE p.gap
  <2>1. r = [st EXCEPT !.gap = TRUE]
    BY <1>2 DEF AfterBatch
  <2>2. r.last = st.last /\ r.gap
    BY <1>1, <2>1 DEF States
  <2> QED
    BY <1>2, <2>2 DEF SuggestedCursor
<1>3. CASE ~ p.gap
  <2> DEFINE S == Range(p.seqs)
             a == Loop(Start(st), S)
  <2>1. ~ (st.last > 0 /\ p.floor > st.last + 1)
    BY <1>1, <1>3 DEF ValidEventPage
  <2>2. r = Settled(a)
    BY <1>3, <2>1 DEF AfterBatch
  <2>3. CASE p.seqs = <<>>
    <3>1. S = {}
      BY <2>3 DEF Range
    <3>2. OnPage(a, Height, st, Height + 1, Height)
      <4>1. \A s \in Seqs : s \in S <=> Height + 1 <= s /\ s <= Height
        BY <1>1, <3>1 DEF Seqs
      <4>2. /\ Height + 1 \in Nat /\ st.last < Height + 1 /\ ~ (Height + 1 <= Height)
            /\ Height < Height + 1
        BY <1>1
      <4> HIDE DEF S
      <4> QED
        BY <1>1, <4>1, <4>2, LoopOnPage
    <3>3. a = Start(st)
      BY <1>1, <3>2 DEF OnPage
    <3>4. r = st
      BY <2>2, <3>3 DEF Settled, Start
    <3> QED
      BY <1>3, <2>3, <3>4 DEF SuggestedCursor
  <2>4. CASE p.seqs # <<>>
    <3> DEFINE m == Head(p.seqs)
               n == Last(p.seqs)
    <3>1. /\ m \in Seqs /\ n \in Seqs /\ n = m + Len(p.seqs) - 1
          /\ \A s \in Seqs : s \in S <=> m <= s /\ s <= n
      BY <2>4, ContiguousPage DEF ValidEventPage
    <3>2. /\ Len(p.seqs) \in Nat \ {0} /\ DOMAIN p.seqs = 1 .. Len(p.seqs) /\ m = p.seqs[1]
      BY <2>4, LenProperties, EmptySeq
    <3>3. m \in Nat /\ n \in Nat /\ m <= Height /\ n <= Height /\ m <= n
      BY <1>1, <3>1, <3>2 DEF Seqs
    <3>4. st.last < m
      BY <3>2 DEF ValidEventPage
    <3>5. st.last = 0 \/ m = st.last + 1
      BY <1>1, <1>3, <2>1, <2>4 DEF ValidEventPage
    <3>6. n - m < MaxApplyPerBatch
      BY <1>1, <3>1, <3>2, <3>3
    <3> HIDE DEF m, n, S
    <3>7. OnPage(Loop(Start(st), S), Height, st, m, n)
      <4>1. /\ \A s \in Seqs : s \in S <=> m <= s /\ s <= n
            /\ m \in Nat /\ n \in Nat /\ st.last < m
            /\ m <= n => n - m < MaxApplyPerBatch
            /\ m <= n => st.last = 0 \/ m = st.last + 1
            /\ n < m => Height < m
        BY <3>1, <3>3, <3>4, <3>5, <3>6
      <4> QED
        BY <4>1, LoopOnPage
    <3>8. a.st.last = n /\ ~ a.hole /\ a.advanced
      BY <1>1, <3>3, <3>7 DEF OnPage
    <3>9. a.st \in States
      BY LoopUnderway DEF Underway, Good
    <3> HIDE DEF a
    <3>10. r.last = n /\ r.gap = FALSE
      BY <2>2, <3>8, <3>9 DEF Settled, States
    <3>11. SuggestedCursor(st.last, p) = [kind |-> "To", to |-> n]
      <4>1. n > st.last
        BY <1>1, <3>3, <3>4
      <4> QED
        BY <1>3, <2>4, <4>1 DEF SuggestedCursor, n
    <3> QED
      BY <3>10, <3>11
  <2> QED
    BY <2>3, <2>4
<1> QED
  BY <1>2, <1>3

\* The answer of a server that keeps its contract is a page of the ledger.
LEMMA HonestPage ==
  ASSUME state.last \in 0 .. Height
  PROVE  /\ HonestResponse.page.seqs \in Seq(Seqs)
         /\ HonestResponse.page.floor \in Nat /\ HonestResponse.page.height \in Nat
<1> DEFINE k == IF Height - state.last < PageLimit THEN Height - state.last ELSE PageLimit
           seqs == [i \in 1 .. k |-> state.last + i]
<1>1. /\ k \in Nat /\ k <= Height - state.last /\ Height \in Nat /\ state.last \in Nat
  BY LedgersAssumption, NutsEventsAssumption
<1> HIDE DEF k
<1>2. \A i \in 1 .. k : state.last + i \in Seqs
  BY <1>1 DEF Seqs
<1>3. seqs \in Seq(Seqs)
  BY <1>1, <1>2, IsASeq
<1>4. HonestResponse.page.seqs = seqs /\ HonestResponse.page.floor = 1
      /\ HonestResponse.page.height = Height
  BY DEF HonestResponse, k
<1> QED
  BY <1>1, <1>3, <1>4

-----------------------------------------------------------------------------
(* The theorems                                                             *)

\* The invariant the others rest on: the running state and the saved one are
\* each thorough and lose no mention, by what was handed over so far.
THEOREM IngestInvariant == Spec => []IngestInv
<1>1. Init => IngestInv
  BY InitIngestInv
<1>2. IngestInv /\ [Next]_vars => IngestInv'
  BY NextIngestInv
<1> QED
  BY <1>1, <1>2, PTL DEF Spec

\* No event is passed over: whatever pages skip, repeat or reorder, whatever
\* state a restart finds, the cursor of apply_batch is behind no event that was
\* neither looked at nor left to the operator.
THEOREM NothingIsPassedOver == Spec => []NothingPassedOver
<1>1. IngestInv => NothingPassedOver
  BY DEF IngestInv, Good, Thorough, LookedAt, NothingPassedOver
<1> QED
  BY <1>1, IngestInvariant, PTL

\* The queue of considerations loses no mention it admitted, holds an event at
\* most once, and hands it over once unless a restart or a rewind intervenes.
THEOREM MentionsStayOnce == Spec => []MentionsAreKeptOnce
<1>1. ASSUME IngestInv
      PROVE  MentionsAreKeptOnce
  <2>1. ConsideredIsKept
    BY <1>1 DEF IngestInv, Good, Kept, Waits, ConsideredIsKept
  <2>2. OneConsiderationPerEvent
    BY <1>1 DEF IngestInv, Good, Alone, OneConsiderationPerEvent
  <2>3. HandedOnce
    <3> SUFFICES ASSUME NEW s \in Seqs, handed[s] > 1, ~ (crashes > 0), ~ rewound
                 PROVE  FALSE
      BY DEF HandedOnce
    <3>1. crashes \in Nat /\ handed[s] \in Nat
      BY <1>1 DEF IngestInv
    <3>2. Done(state, handed)
      BY <1>1, <3>1 DEF IngestInv
    <3> QED
      BY <3>1, <3>2 DEF Done
  <2> QED
    BY <2>1, <2>2, <2>3 DEF MentionsAreKeptOnce
<1> QED
  BY <1>1, IngestInvariant, PTL

\* The rings and queues of the state keep their bounds, and no actor has more
\* waiting than max_pending_per_actor.
THEOREM IngestTypeCorrect == Spec => []TypeOK
<1>1. ASSUME IngestInv
      PROVE  TypeOK
  <2>1. state \in States /\ WithinBounds(state)
    BY <1>1 DEF IngestInv, Good
  <2>2. Range(state.ring) \subseteq Seqs /\ Range(state.queue) \subseteq Considerations
    BY <2>1, ElementOfSeq, LenProperties DEF States, Range
  <2> QED
    BY <2>1, <2>2 DEF States, WithinBounds, TypeOK
<1> QED
  BY <1>1, IngestInvariant, PTL

\* A page that the client takes moves the cursor as the client advises, in
\* every state of the ingestion that no operator rewound.
THEOREM PagesStayTaken == Spec => []PagesAreTaken
<1>1. ASSUME IngestInv, TypeOK
      PROVE  PagesAreTaken
  <2> SUFFICES ASSUME ~ rewound
               PROVE  (\A r \in Responses : FollowsAdvice(r)) /\ FollowsAdvice(HonestResponse)
    BY <1>1 DEF PagesAreTaken, AcceptedPageAdvances
  <2>1. /\ Good(state, handed) /\ Behind(state) /\ ledger \in [Seqs -> EventBodies]
        /\ state.last \in 0 .. Height
    BY <1>1 DEF IngestInv, TypeOK
  <2>2. ASSUME NEW r, r.page.seqs \in Seq(Seqs), r.page.floor \in Nat, r.page.height \in Nat
        PROVE  FollowsAdvice(r)
    <3> SUFFICES ASSUME Accepted(r, state.last), Len(r.page.seqs) <= MaxApplyPerBatch
                 PROVE  FollowsAdvice(r)
      BY DEF FollowsAdvice
    <3> DEFINE p == r.page
    <3>1. ValidEventPage(p, state.last)
      BY DEF Accepted
    <3> HIDE DEF p
    <3>2. p = r.page
      BY DEF p
    <3>3. LET then == AfterBatch(state, Range(p.seqs), p.floor, p.gap)
          IN  /\ then.last = SuggestedCursor(state.last, p).to
              /\ SuggestedCursor(state.last, p).kind = "To" => ~ then.gap
              /\ SuggestedCursor(state.last, p).kind = "Reconcile" => then.gap
      BY <2>1, <2>2, <3>1, <3>2, PageFollowed
    <3> QED
      BY <3>2, <3>3 DEF FollowsAdvice
  <2>3. \A r \in Responses : FollowsAdvice(r)
    BY <2>2, LedgersAssumption
  <2>4. FollowsAdvice(HonestResponse)
    BY <2>1, <2>2, HonestPage
  <2> QED
    BY <2>3, <2>4
<1> QED
  BY <1>1, IngestInvariant, IngestTypeCorrect, PTL

\* A mention that waits is displaced by nothing but a restart: neither a newer
\* mention in a full queue, nor a hand-over, nor an operator's call.
THEOREM WaitingIsNotDisplaced == Spec => PendingIsNeverDisplaced
<1> DEFINE Present(x) == \E j \in DOMAIN state'.queue : state'.queue[j].seq = x
           Held == \A i \in Pending(state) : Present(state.queue[i].seq)
           A == \A i \in Pending(state) : Present(state.queue[i].seq) \/ crashes' # crashes
<1>1. ASSUME IngestInv, [Next]_vars
      PROVE  [A]_vars
  <2>1. Good(state, handed) /\ ledger \in [Seqs -> EventBodies] /\ state \in States
    BY <1>1 DEF IngestInv, Good
  <2>2. \A i \in Pending(state) : state.queue[i].seq \in Seqs
    <3>1. state.queue \in Seq(Considerations)
      BY <2>1 DEF States
    <3>2. \A i \in DOMAIN state.queue : state.queue[i] \in Considerations
      BY <3>1, ElementOfSeq, LenProperties
    <3> QED
      BY <3>2 DEF Pending, Considerations
  <2>3. ASSUME NEW S, NEW floor, NEW gap, state' = AfterBatch(state, S, floor, gap)
        PROVE  Held
    <3>1. \A x \in Seqs : Waits(state, x) => Waits(state', x)
      BY <2>1, <2>3, BatchGood
    <3>2. \A i \in Pending(state) : Waits(state, state.queue[i].seq)
      BY DEF Waits
    <3> QED
      BY <2>2, <3>1, <3>2 DEF Waits, Pending
  <2>4. state'.queue = state.queue => Held
    BY DEF Pending
  <2>5. ASSUME NEW r, Poll(r)
        PROVE  Held
    BY <2>3, <2>5 DEF Poll
  <2>6. CASE PollHonest
    BY <2>5, <2>6 DEF PollHonest
  <2>7. ASSUME NEW b \in Batches, Deliver(b)
        PROVE  Held
    BY <2>3, <2>7 DEF Deliver
  <2>8. CASE TakePending
    <3>1. state'.queue = HandedOver(state.queue)
      BY <2>1, <2>8 DEF TakePending, States
    <3>2. \A i \in Pending(state) : state.queue[i] \in Considerations /\ i \in DOMAIN state.queue
      <4>1. state.queue \in Seq(Considerations)
        BY <2>1 DEF States
      <4> QED
        BY <4>1, ElementOfSeq, LenProperties DEF Pending
    <3> QED
      BY <3>1, <3>2 DEF HandedOver, Considerations
  <2>9. ASSUME NEW s \in Seqs, MarkEnqueued(s)
        PROVE  Held
    <3>1. PICK i : state' = [state EXCEPT !.queue[i].enqueued = TRUE]
      BY <2>9 DEF MarkEnqueued
    <3>2. state'.queue = [state.queue EXCEPT ![i].enqueued = TRUE]
      BY <2>1, <3>1 DEF States
    <3>3. \A j \in Pending(state) : state.queue[j] \in Considerations /\ j \in DOMAIN state.queue
      <4>1. state.queue \in Seq(Considerations)
        BY <2>1 DEF States
      <4> QED
        BY <4>1, ElementOfSeq, LenProperties DEF Pending
    <3> QED
      BY <3>2, <3>3 DEF Considerations
  <2>10. ASSUME NEW n, ForceCursor(n) \/ ForceCursorRewind(n)
         PROVE  Held
    <3>1. state'.queue = state.queue
      BY <2>1, <2>10 DEF ForceCursor, ForceCursorRewind, States
    <3> QED
      BY <2>4, <3>1
  <2>11. CASE Save
    BY <2>4, <2>11 DEF Save
  <2>12. ASSUME Restart
         PROVE  crashes' # crashes
    BY <1>1, <2>12 DEF Restart, IngestInv
  <2>13. CASE UNCHANGED vars
    BY <2>13
  <2> HIDE DEF Present
  <2>14. Held \/ crashes' # crashes \/ UNCHANGED vars
    BY <1>1, <2>5, <2>6, <2>7, <2>8, <2>9, <2>10, <2>11, <2>12 DEF Next
  <2> QED
    BY <2>14
<1>2. [A]_vars => [\A i \in Pending(state) :
         \/ \E j \in DOMAIN state'.queue : state'.queue[j].seq = state.queue[i].seq
         \/ crashes' # crashes]_vars
  OBVIOUS
<1> QED
  BY <1>1, <1>2, IngestInvariant, PTL DEF Spec, PendingIsNeverDisplaced
=============================================================================
