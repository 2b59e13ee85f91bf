---------------------------- MODULE RuntimeProofs ----------------------------
(***************************************************************************)
(* What the properties of the autonomy machine rest on, alone and in the    *)
(* runtime, for every policy, instant and claim, every set of mentions and  *)
(* every workload.                                                          *)
(*                                                                         *)
(* A snapshot of the machine is Sound when its lease, phase and id counter  *)
(* agree; every operation of the machine keeps it Sound and either keeps    *)
(* the id of the lease in force or takes the next one (SameOrFreshId).      *)
(* Both callers, Autonomy and SteveRuntime, cite those lemmas.              *)
(***************************************************************************)
EXTENDS SteveRuntime, Autonomy, FiniteSetTheorems, SequenceTheorems, TLAPS

Sound(m, t) ==
  /\ m \in Snapshots
  /\ IF IsWorking(m)
     THEN m.lease # NoLease /\ m.lease.state = m.state
     ELSE m.lease = NoLease
  /\ m.lease # NoLease => /\ m.lease.expires <= t + LeaseSecs
                          /\ m.lease.steps <= LeaseSteps
  /\ m.nextId <= MaxLeaseId
  /\ m.lease # NoLease =>
       \/ m.lease.id < m.nextId
       \/ m.lease.id = MaxLeaseId /\ m.nextId = MaxLeaseId

SameOrFreshId(m, n) ==
  /\ m.nextId <= n.nextId
  /\ n.lease # NoLease =>
       \/ m.lease # NoLease /\ n.lease.id = m.lease.id
       \/ n.lease.id = m.nextId

-----------------------------------------------------------------------------
(* Picking the elements of a sequence at given indexes.                    *)

\* How many of a set of indexes are below one of them tells which one it is.
LEMMA RanksDiffer ==
  ASSUME NEW I \in SUBSET Nat, IsFiniteSet(I), NEW i \in I
  PROVE  /\ Cardinality({j \in I : j < i}) \in Nat
         /\ Cardinality({j \in I : j < i}) < Cardinality(I)
         /\ \A k \in I : Cardinality({j \in I : j < k}) = Cardinality({j \in I : j < i}) => k = i
<1> DEFINE below(k) == {j \in I : j < k}
<1>1. ASSUME NEW k \in I
      PROVE  /\ IsFiniteSet(below(k)) /\ Cardinality(below(k)) \in Nat
             /\ Cardinality(below(k)) < Cardinality(I)
  <2>1. below(k) \in SUBSET I /\ k \notin below(k)
    OBVIOUS
  <2>2. /\ IsFiniteSet(below(k)) /\ Cardinality(below(k)) <= Cardinality(I)
        /\ Cardinality(below(k)) # Cardinality(I)
    BY <2>1, FS_Subset
  <2>3. Cardinality(below(k)) \in Nat /\ Cardinality(I) \in Nat
    BY <2>2, FS_CardinalityType
  <2> HIDE DEF below
  <2> QED
    BY <2>2, <2>3
<1>2. ASSUME NEW k \in I, NEW l \in I, k < l
      PROVE  Cardinality(below(k)) # Cardinality(below(l))
  <2>1. below(k) \in SUBSET below(l) /\ k \in below(l) /\ k \notin below(k)
    <3>1. \A x \in I : x \in Int /\ (x < k => x < l)
      BY <1>2
    <3>2. below(k) \in SUBSET below(l)
      BY <3>1
    <3> QED
      BY <1>2, <3>1, <3>2
  <2>2. IsFiniteSet(below(l))
    BY <1>1
  <2> QED
    BY <2>1, <2>2, FS_Subset
<1> HIDE DEF below
<1>3. \A k \in I : Cardinality(below(k)) = Cardinality(below(i)) => k = i
  BY <1>2
<1> QED
  BY <1>1, <1>3 DEF below

\* The k-th smallest member of a finite set of numbers is a member of it, with
\* k - 1 smaller ones: ranks are an injection, hence a bijection, to an interval.
LEMMA NthHasRank ==
  ASSUME NEW I \in SUBSET Nat, IsFiniteSet(I), NEW k \in 1..Cardinality(I)
  PROVE  Nth(I, k) \in I /\ Cardinality({j \in I : j < Nth(I, k)}) = k - 1
<1> DEFINE below(i) == {j \in I : j < i}
           c == Cardinality(I)
           T == 0..(c - 1)
           rank == [i \in I |-> Cardinality(below(i))]
<1>1. c \in Nat /\ c > 0 /\ k \in 1..c
  BY FS_CardinalityType
<1>2. ASSUME NEW i \in I
      PROVE  Cardinality(below(i)) \in Nat /\ Cardinality(below(i)) < c
  BY RanksDiffer
<1>3. \A i, j \in I : Cardinality(below(i)) = Cardinality(below(j)) => i = j
  BY RanksDiffer
<1>4. IsFiniteSet(T) /\ Cardinality(T) = Cardinality(I)
  <2>1. 0 \in Int /\ c - 1 \in Int /\ 0 <= c - 1 /\ (c - 1) - 0 + 1 = c
    BY <1>1
  <2> HIDE DEF c
  <2>2. IsFiniteSet(T) /\ Cardinality(T) = (c - 1) - 0 + 1
    BY <2>1, FS_Interval
  <2> QED
    BY <2>1, <2>2 DEF c
<1> HIDE DEF below, c
<1>5. rank \in [I -> T]
  BY <1>1, <1>2
<1>6. \A i, j \in I : rank[i] = rank[j] => i = j
  BY <1>3
<1>7. rank \in Injection(I, T)
  <2> HIDE DEF rank, T
  <2> QED
    BY <1>5, <1>6 DEF Injection, IsInjective
<1>8. rank \in Surjection(I, T)
  <2> HIDE DEF rank, T
  <2> QED
    BY <1>4, <1>7, FS_Injection
<1>9. k - 1 \in T
  BY <1>1
<1>10. \E i \in I : rank[i] = k - 1
  <2> HIDE DEF rank, T
  <2> QED
    BY <1>8, <1>9 DEF Surjection
<1>11. \E i \in I : Cardinality({j \in I : j < i}) = k - 1
  BY <1>10 DEF below
<1> QED
  BY <1>11 DEF Nth

\* Every index is one of them.
LEMMA NthCovers ==
  ASSUME NEW I \in SUBSET Nat, IsFiniteSet(I), NEW i \in I
  PROVE  \E k \in 1..Cardinality(I) : Nth(I, k) = i
<1> DEFINE rank(j) == Cardinality({x \in I : x < j})
           k == rank(i) + 1
<1>1. /\ rank(i) \in Nat /\ rank(i) < Cardinality(I) /\ Cardinality(I) \in Nat
      /\ \A j \in I : rank(j) = rank(i) => j = i
  BY RanksDiffer, FS_CardinalityType
<1> HIDE DEF rank
<1>2. k \in 1..Cardinality(I) /\ k - 1 = rank(i)
  BY <1>1
<1> HIDE DEF k
<1>3. Nth(I, k) \in I /\ rank(Nth(I, k)) = k - 1
  BY <1>2, NthHasRank DEF rank
<1>4. Nth(I, k) = i
  BY <1>1, <1>2, <1>3
<1> QED
  BY <1>2, <1>4

\* What is picked is a sequence over the same set, as long as the set of indexes,
\* and different places of it come from different indexes.
LEMMA PickedIsSeq ==
  ASSUME NEW S, NEW seq \in Seq(S), NEW I \in SUBSET (DOMAIN seq)
  PROVE  /\ Picked(seq, I) \in Seq(S)
         /\ DOMAIN Picked(seq, I) = 1..Cardinality(I)
         /\ \A k \in DOMAIN Picked(seq, I) : Nth(I, k) \in I /\ Picked(seq, I)[k] = seq[Nth(I, k)]
         /\ \A k, l \in DOMAIN Picked(seq, I) : k # l => Nth(I, k) # Nth(I, l)
<1>1. I \in SUBSET Nat /\ IsFiniteSet(I) /\ Cardinality(I) \in Nat
  <2>1. DOMAIN seq = 1..Len(seq) /\ Len(seq) \in Nat
    OBVIOUS
  <2>2. IsFiniteSet(1..Len(seq))
    BY <2>1, FS_Interval
  <2>3. IsFiniteSet(I)
    BY <2>1, <2>2, FS_Subset
  <2> QED
    BY <2>1, <2>3, FS_CardinalityType
<1>2. \A k \in 1..Cardinality(I) :
        Nth(I, k) \in I /\ Cardinality({j \in I : j < Nth(I, k)}) = k - 1
  BY <1>1, NthHasRank
<1>3. \A i \in I : seq[i] \in S
  OBVIOUS
<1> DEFINE n == Cardinality(I)
<1> HIDE DEF n
<1>4. Picked(seq, I) = [k \in 1..n |-> seq[Nth(I, k)]]
  BY DEF Picked, n
<1>5. n \in Nat /\ \A k \in 1..n : Nth(I, k) \in I
  BY <1>1, <1>2 DEF n
<1>6. \A k, l \in 1..n : k # l => Nth(I, k) # Nth(I, l)
  <2> DEFINE rank(i) == Cardinality({j \in I : j < i})
  <2>1. \A k \in 1..n : rank(Nth(I, k)) = k - 1
    BY <1>2 DEF n
  <2> HIDE DEF rank
  <2> QED
    BY <1>5, <2>1
<1>7. \A k \in 1..n : seq[Nth(I, k)] \in S
  BY <1>3, <1>5
<1>8. Picked(seq, I) \in Seq(S)
  BY <1>4, <1>5, <1>7
<1> QED
  BY <1>4, <1>5, <1>6, <1>8 DEF n

-----------------------------------------------------------------------------
(* The invariant.                                                          *)

Sleeping == ToSet(SleepKinds)

\* A task, a worker, a scheduler that has a mention is about one, and only then.
Payload(kind, mention) == (kind = "mention") <=> (mention # NoMention)
Payloads(r) == \A i \in DOMAIN r.tasks : Payload(r.tasks[i].kind, r.tasks[i].mention)

\* Sleep work that is queued may start, and is the only of its kind.
Cooled(r) ==
  /\ \A i \in DOMAIN r.tasks :
       r.tasks[i].kind \in Sleeping /\ IsQueued(r.tasks[i]) => IsReady(r, r.tasks[i].kind)
  /\ \A i, j \in DOMAIN r.tasks :
       r.tasks[i].kind \in Sleeping /\ r.tasks[i].kind = r.tasks[j].kind => i = j

Good(r) ==
  /\ r \in DurableStates
  /\ Len(r.deferred) <= MaxDeferred
  /\ Sound(r.machine, 0)
  /\ Payloads(r)
  /\ Cooled(r)

Agrees(r) == (r.mode = "paused") <=> (r.machine.state = "paused")

\* What a burst may still consider is in the lease, which is untouched while
\* the machine is awake but not deliberating.
Worked(m, n) ==
  IsWorking(m) => n <= m.lease.steps /\ (m.state = "awake" => m.lease.steps = 0)

WorkerOK ==
  /\ worker \in [at : {"idle", "parking", "waiting", "claimed", "deciding",
                       "cleared", "calling", "finishing"},
                 kind : TaskKinds, mention : Mentions \cup {NoMention}, model : BOOLEAN]
  /\ Payload(worker.kind, worker.mention)

SchedulerOK ==
  /\ scheduler \in [at : {"sleeping", "ticking", "waking", "marking", "retrying",
                          "requeueing"},
                    held : Mentions \cup {NoMention}]
  /\ (scheduler.at = "requeueing") <=> (scheduler.held # NoMention)

RecordOK ==
  /\ permit \in BOOLEAN /\ overBudget \in BOOLEAN
  /\ fate \in [Mentions ->
       {"new", "waiting", "dropped", "refused", "failed", "deliberated"}]
  /\ sinceWake \in 0..Owed
  /\ burst \in Nat

BoundsOK ==
  /\ workload \in Workloads
  /\ crashes \in 0..workload.crashes /\ failures \in 0..workload.failures

RuntimeInv ==
  Good(rt) /\ Good(saved) /\ WorkerOK /\ SchedulerOK /\ RecordOK /\ BoundsOK

\* Every mention that the tasks and the pen of r, the worker or the scheduler
\* name; one that was never posted is none of them.
Named(r) == {r.tasks[i].mention : i \in DOMAIN r.tasks} \cup {r.deferred[i] : i \in DOMAIN r.deferred}
Abroad == Named(rt) \cup Named(saved) \cup {worker.mention, scheduler.held}
NewIsNowhere == \A m \in Mentions : fate[m] = "new" => m \notin Abroad

\* A run to which nobody mentions Steve.
Unmentioned == burst = 0 /\ \A m \in Mentions : fate[m] = "new"

UnmentionedInv ==
  RuntimeInv /\ NewIsNowhere /\ (workload.mentions = 0 => Unmentioned)

\* The memory's lease accounts for the burst, the file's at least for no work
\* before deliberation; without failed writes they are the same.
BurstInv ==
  /\ UnmentionedInv
  /\ workload.failures = 0 => saved = rt
  /\ Worked(rt.machine, burst) /\ Worked(saved.machine, 0)
  /\ BurstWithinOneBudget

\* What the scheduler knows of the last wake is what happened.
Spaced ==
  /\ scheduler.at = "waking" => sinceWake >= Spacing
  /\ scheduler.at # "marking" =>
       IF rt.lastWake = NoTime THEN sinceWake >= Spacing ELSE -rt.lastWake <= sinceWake

SpacingInv ==
  RuntimeInv /\ (workload.crashes = 0 /\ workload.failures = 0 => Spaced)

\* A mention is in no two places, and in one exactly while it waits.
QueuedAt(q, m) == {i \in DOMAIN q : q[i].mention = m /\ IsQueued(q[i])}
HeldAt(pen, m) == {i \in DOMAIN pen : pen[i] = m}
Single(S) == \A a, b \in S : a = b

OnePlace(q, pen, held, hand, waits) ==
  /\ Single(q) /\ Single(pen)
  /\ q # {} => pen = {} /\ ~held /\ ~hand
  /\ pen # {} => ~held /\ ~hand
  /\ ~(held /\ hand)
  /\ waits <=> (q # {} \/ pen # {} \/ held \/ hand)

Placed(m) ==
  OnePlace(QueuedAt(rt.tasks, m), HeldAt(rt.deferred, m), scheduler.held = m, InHand(m),
           fate[m] = "waiting")

ConservedInv == UnmentionedInv /\ \A m \in Mentions : Placed(m)

-----------------------------------------------------------------------------
(* The operations of the machine, one by one.                              *)

USE PolicyAssumption, NoLeaseAssumption

\* A snapshot with no lease, in a phase that needs none.
LEMMA ReleaseSound ==
  ASSUME NEW m, NEW n, NEW t \in Nat, Sound(m, t),
         NEW s \in {"asleep", "paused"}, NEW r \in States \cup {NoState},
         n = [m EXCEPT !.resume = r, !.state = s, !.lease = NoLease]
  PROVE  Sound(n, t) /\ SameOrFreshId(m, n)
<1>1. n \in Snapshots
  BY DEF Sound, Snapshots, States
<1>2. n.lease = NoLease /\ n.state = s /\ n.nextId = m.nextId /\ m.nextId \in Nat
  BY DEF Sound, Snapshots
<1> QED
  BY <1>1, <1>2 DEF Sound, SameOrFreshId, IsWorking, WorkingStates

\* The halts, the operator's start and the ends of work are such releases.
LEMMA ReleasesSound ==
  ASSUME NEW m, NEW t \in Nat, Sound(m, t)
  PROVE  /\ Sound(EnterPaused(m), t) /\ SameOrFreshId(m, EnterPaused(m))
         /\ Sound(LeavePaused(m), t) /\ SameOrFreshId(m, LeavePaused(m))
         /\ Sound(SleepClear(m), t) /\ SameOrFreshId(m, SleepClear(m))
         /\ Sound(ExpireLease(m), t) /\ SameOrFreshId(m, ExpireLease(m))
<1>1. m \in Snapshots /\ m.resume \in States \cup {NoState} /\ m.state \in States
  BY DEF Sound, Snapshots
<1>2. Sound(EnterPaused(m), t) /\ SameOrFreshId(m, EnterPaused(m))
  <2> DEFINE r == IF m.state = "paused" THEN m.resume ELSE m.state
  <2>1. EnterPaused(m) = [m EXCEPT !.resume = r, !.state = "paused", !.lease = NoLease]
    BY <1>1 DEF EnterPaused, Snapshots
  <2> QED
    BY <1>1, <2>1, ReleaseSound
<1>3. Sound(LeavePaused(m), t) /\ SameOrFreshId(m, LeavePaused(m))
  BY <1>1, ReleaseSound DEF LeavePaused
<1>4. Sound(SleepClear(m), t) /\ SameOrFreshId(m, SleepClear(m))
  BY <1>1, ReleaseSound DEF SleepClear
<1>5. Sound(ExpireLease(m), t) /\ SameOrFreshId(m, ExpireLease(m))
  <2>1. ExpireLease(m) =
          [m EXCEPT !.resume = m.resume, !.state = "asleep", !.lease = NoLease]
    BY <1>1 DEF ExpireLease, Snapshots
  <2> QED
    BY <1>1, <2>1, ReleaseSound
<1> QED
  BY <1>2, <1>3, <1>4, <1>5

\* A grant takes the next id and moves the counter past it.
LEMMA EnterWorkSound ==
  ASSUME NEW m, NEW t \in Nat, NEW to \in WorkingStates, NEW gated \in BOOLEAN,
         Sound(m, t)
  PROVE  /\ Sound(EnterWork(m, to, t, gated), t)
         /\ SameOrFreshId(m, EnterWork(m, to, t, gated))
<1> DEFINE n == EnterWork(m, to, t, gated)
           l == NewLease(m, to, t)
           granted == [m EXCEPT !.state = to, !.lease = l, !.nextId = SatSucc(@)]
<1>1. n = m \/ n = granted
  BY DEF EnterWork
<1>2. m.nextId \in Nat /\ m.blocked \in BOOLEAN /\ m.nextId <= MaxLeaseId
  BY DEF Sound, Snapshots
<1>3. /\ SatSucc(m.nextId) \in Nat
      /\ m.nextId <= SatSucc(m.nextId) /\ SatSucc(m.nextId) <= MaxLeaseId
      /\ \/ m.nextId < SatSucc(m.nextId)
         \/ m.nextId = MaxLeaseId /\ SatSucc(m.nextId) = MaxLeaseId
  BY <1>2 DEF SatSucc
<1>4. /\ l \in Leases /\ l # NoLease
      /\ l.id = m.nextId /\ l.state = to /\ l.expires = t + LeaseSecs /\ l.steps = 0
  <2>1. t + LeaseSecs \in Int /\ to \in States /\ (~m.blocked) \in BOOLEAN
    BY DEF States
  <2>2. l = [id |-> m.nextId, state |-> to, expires |-> t + LeaseSecs,
             steps |-> 0, model |-> ~m.blocked]
    BY DEF NewLease
  <2>3. l \in Leases
    BY <1>2, <2>1, <2>2 DEF Leases
  <2> QED
    BY <2>2, <2>3
<1>5. granted \in Snapshots
  <2>1. m \in Snapshots /\ to \in States /\ l \in Leases \cup {NoLease}
    BY <1>4 DEF Sound, States
  <2>2. \A x \in Leases \cup {NoLease}, y \in States, z \in Nat :
          [m EXCEPT !.state = y, !.lease = x, !.nextId = z] \in Snapshots
    BY <2>1 DEF Snapshots
  <2> QED
    BY <1>3, <2>1, <2>2
<1>6. /\ granted.state = to /\ granted.lease = l
      /\ granted.nextId = SatSucc(m.nextId)
  BY DEF Sound, Snapshots
<1>7. Sound(granted, t) /\ SameOrFreshId(m, granted)
  <2> HIDE DEF granted, l
  <2>1. IsWorking(granted) /\ granted.lease.state = granted.state
    BY <1>4, <1>6 DEF IsWorking
  <2>2. granted.lease.expires <= t + LeaseSecs /\ granted.lease.steps <= LeaseSteps
    BY <1>4, <1>6
  <2>3. \/ granted.lease.id < granted.nextId
        \/ granted.lease.id = MaxLeaseId /\ granted.nextId = MaxLeaseId
    BY <1>2, <1>3, <1>4, <1>6
  <2>4. Sound(granted, t)
    BY <1>3, <1>5, <1>6, <2>1, <2>2, <2>3, <1>4 DEF Sound
  <2> QED
    BY <1>3, <1>4, <1>6, <2>4 DEF SameOrFreshId
<1>8. SameOrFreshId(m, m)
  BY <1>2 DEF SameOrFreshId
<1> QED
  BY <1>1, <1>7, <1>8

\* Every trigger, in every phase.
LEMMA ApplySound ==
  ASSUME NEW m, NEW t \in Nat, NEW g, Sound(m, t)
  PROVE  Sound(Apply(m, g, t), t) /\ SameOrFreshId(m, Apply(m, g, t))
<1>1. Sound(m, t) /\ SameOrFreshId(m, m)
  BY DEF Sound, Snapshots, SameOrFreshId
<1>2. Sound(Advance(m, g, t), t) /\ SameOrFreshId(m, Advance(m, g, t))
  <2> DEFINE Outcomes ==
        {EnterWork(m, to, t, TRUE) : to \in WorkingStates} \cup
        {EnterWork(m, to, t, FALSE) : to \in WorkingStates} \cup {SleepClear(m), m}
  <2>1. Advance(m, g, t) \in Outcomes
    <3>1. CASE m.state = "asleep"
      BY <3>1 DEF Advance, WorkingStates, IsWorking
    <3>2. CASE m.state = "awake"
      BY <3>2 DEF Advance, WorkingStates, IsWorking
    <3>3. CASE m.state = "deliberating"
      BY <3>3 DEF Advance, WorkingStates, IsWorking
    <3>4. CASE m.state \notin {"asleep", "awake", "deliberating"}
      BY <3>4 DEF Advance, WorkingStates, IsWorking
    <3> QED
      BY <3>1, <3>2, <3>3, <3>4
  <2>2. \A n \in Outcomes : Sound(n, t) /\ SameOrFreshId(m, n)
    <3>1. \A to \in WorkingStates, gated \in BOOLEAN :
            LET n == EnterWork(m, to, t, gated) IN Sound(n, t) /\ SameOrFreshId(m, n)
      BY EnterWorkSound
    <3>2. Sound(SleepClear(m), t) /\ SameOrFreshId(m, SleepClear(m))
      BY ReleasesSound
    <3> QED
      BY <1>1, <3>1, <3>2
  <2> HIDE DEF Outcomes
  <2> QED
    BY <2>1, <2>2
<1> QED
  BY <1>1, <1>2, ReleasesSound DEF Apply

LEMMA NoteChatSound ==
  ASSUME NEW m, NEW t \in Nat, Sound(m, t)
  PROVE  Sound(NoteChat(m, t), t) /\ SameOrFreshId(m, NoteChat(m, t))
<1> DEFINE n == NoteChat(m, t)
<1>1. m \in Snapshots /\ t \in Int /\ t + QuietSecs \in Int
  BY DEF Sound
<1>2. n \in Snapshots
  BY <1>1 DEF NoteChat, Snapshots
<1>3. n.state = m.state /\ n.lease = m.lease /\ n.nextId = m.nextId /\ n.nextId \in Nat
  BY <1>1 DEF NoteChat, Snapshots
<1> QED
  BY <1>2, <1>3 DEF Sound, SameOrFreshId, IsWorking

LEMMA SetBudgetSound ==
  ASSUME NEW m, NEW t \in Nat, NEW b \in BOOLEAN, Sound(m, t)
  PROVE  Sound(SetBudget(m, b), t) /\ SameOrFreshId(m, SetBudget(m, b))
  BY DEF Sound, SameOrFreshId, SetBudget, Snapshots, IsWorking

\* A step is counted only below the bound.
LEMMA RecordStepSound ==
  ASSUME NEW m, NEW t \in Nat, Sound(m, t)
  PROVE  Sound(RecordStep(m, t), t) /\ SameOrFreshId(m, RecordStep(m, t))
  BY DEF Sound, SameOrFreshId, RecordStep, HasLiveLease, IsExpired, Snapshots, Leases,
         IsWorking

\* Recovery keeps a sound snapshot sound and never moves the counter back.
LEMMA RecoverSound ==
  ASSUME NEW m, NEW t \in Nat, Sound(m, t)
  PROVE  Sound(Recover(m, t), t) /\ SameOrFreshId(m, Recover(m, t))
<1> DEFINE halted  == IF m.state = "paused" THEN NoLease ELSE m.lease
           keeps   == /\ halted # NoLease
                      /\ ~IsExpired(halted, t) /\ halted.state = m.state
           kept    == IF keeps THEN halted ELSE NoLease
           dropped == IsWorking(m) /\ kept = NoLease
           r       == IF dropped \/ m.resume = "paused" THEN NoState ELSE m.resume
           n       == Recover(m, t)
<1>1. /\ m \in Snapshots /\ m.state \in States /\ m.resume \in States \cup {NoState}
      /\ m.nextId \in Nat /\ m.lease \in Leases \cup {NoLease}
  BY DEF Sound, Snapshots
\* A sound snapshot's lease never has an id the counter has yet to reach.
<1>2. halted # NoLease /\ m.nextId <= halted.id => SatSucc(halted.id) = m.nextId
  <2> SUFFICES ASSUME halted # NoLease, m.nextId <= halted.id
               PROVE  SatSucc(halted.id) = m.nextId
    OBVIOUS
  <2>1. halted = m.lease /\ m.lease # NoLease /\ m.lease.id \in Nat
    BY <1>1 DEF Leases
  <2>2. m.lease.id = MaxLeaseId /\ m.nextId = MaxLeaseId
    BY <1>1, <2>1 DEF Sound
  <2> QED
    BY <2>1, <2>2 DEF SatSucc
<1>3. n = [m EXCEPT !.lease = kept, !.state = IF dropped THEN "asleep" ELSE m.state,
                    !.resume = r, !.nextId = m.nextId]
  BY <1>1, <1>2 DEF Recover, Snapshots
<1>4. CASE kept # NoLease
  <2>1. kept = m.lease /\ ~dropped
    BY <1>4
  <2>2. n = [m EXCEPT !.resume = r]
    BY <1>1, <1>3, <2>1 DEF Snapshots
  <2> QED
    BY <1>1, <2>2 DEF Sound, SameOrFreshId, Snapshots, IsWorking
<1>5. CASE kept = NoLease
  <2> DEFINE s == IF dropped THEN "asleep" ELSE m.state
  <2>1. s \in {"asleep", "paused"}
    BY <1>1, <1>5 DEF IsWorking, WorkingStates, States
  <2>2. n = [m EXCEPT !.resume = r, !.state = s, !.lease = NoLease]
    BY <1>1, <1>3, <1>5 DEF Snapshots
  <2> QED
    BY <1>1, <2>1, <2>2, ReleaseSound
<1> QED
  BY <1>4, <1>5

-----------------------------------------------------------------------------
(* Autonomy: what its properties rest on                                   *)

\* A lease that is over has an id the counter has passed.
EndedIdsPassed == \A i \in ended : i < machine.nextId \/ i = MaxLeaseId

IInv ==
  /\ AutonomyTypeOK
  /\ Sound(machine, now)
  /\ EndedIdsPassed
  /\ RevokedStaysRevoked

-----------------------------------------------------------------------------
(* The machine alone, under any caller.                                    *)

LEMMA InitIInv == AutonomyInit => IInv
<1> SUFFICES ASSUME AutonomyInit PROVE IInv
  OBVIOUS
<1>1. machine \in Snapshots /\ machine.lease = NoLease /\ ~IsWorking(machine)
  BY DEF AutonomyInit, Fresh, Snapshots, States, WorkingStates, NoState, IsWorking
<1>2. AutonomyTypeOK
  BY <1>1 DEF AutonomyInit, AutonomyTypeOK, NoOutcome, States
<1>3. Sound(machine, now)
  BY <1>1 DEF AutonomyInit, Fresh, Sound
<1> QED
  BY <1>1, <1>2, <1>3 DEF AutonomyInit, IInv, EndedIdsPassed, RevokedStaysRevoked

\* A move to a sound snapshot whose lease has the same id or the next one
\* adds to the ended ids only an id the counter has passed.
LEMMA MoveKeepsIds ==
  ASSUME IInv, NEW m, Sound(m, now), SameOrFreshId(machine, m), MoveTo(m)
  PROVE  /\ Sound(machine', now') /\ now' \in Nat /\ ended' \in SUBSET Nat
         /\ EndedIdsPassed' /\ RevokedStaysRevoked'
<1>1. /\ machine' = m /\ now' = now /\ now \in Nat /\ ended \subseteq Nat
      /\ machine.nextId \in Nat /\ m.nextId \in Nat
      /\ machine.nextId <= m.nextId /\ m.nextId <= MaxLeaseId
  BY DEF IInv, AutonomyTypeOK, MoveTo, Sound, Snapshots, SameOrFreshId
<1>2. machine.lease # NoLease =>
        /\ machine.lease.id \in Nat
        /\ machine.lease.id < machine.nextId \/ machine.lease.id = MaxLeaseId
  BY DEF IInv, Sound, Snapshots, Leases
<1>3. ended' \in SUBSET Nat
  BY <1>1, <1>2 DEF MoveTo
<1>4. \A i \in ended' : i < machine.nextId \/ i = MaxLeaseId
  BY <1>1, <1>2 DEF MoveTo, IInv, EndedIdsPassed
<1>5. EndedIdsPassed'
  BY <1>1, <1>3, <1>4 DEF EndedIdsPassed
<1>6. RevokedStaysRevoked'
  <2> SUFFICES ASSUME m.lease # NoLease, m.lease.id < MaxLeaseId
               PROVE  m.lease.id \notin ended'
    BY <1>1 DEF RevokedStaysRevoked
  <2>1. m.lease.id \in Nat
    BY DEF Sound, Snapshots, Leases
  <2>2. CASE machine.lease # NoLease /\ m.lease.id = machine.lease.id
    BY <2>2 DEF MoveTo, IInv, RevokedStaysRevoked
  <2>3. CASE m.lease.id = machine.nextId
    BY <1>1, <1>4, <2>1, <2>3
  <2> QED
    BY <2>2, <2>3 DEF SameOrFreshId
<1> QED
  BY <1>1, <1>3, <1>5, <1>6

LEMMA StimulusKeepsIInv ==
  ASSUME IInv, NEW t, t.kind \in Kinds, Stimulus(t)
  PROVE  IInv'
<1>1. now \in Nat /\ Sound(machine, now)
  BY DEF IInv, AutonomyTypeOK
<1>2. /\ Sound(Apply(machine, t, now), now)
      /\ SameOrFreshId(machine, Apply(machine, t, now))
  BY <1>1, ApplySound
<1>3. /\ Sound(machine', now') /\ now' \in Nat /\ ended' \in SUBSET Nat
      /\ EndedIdsPassed' /\ RevokedStaysRevoked'
  BY <1>2, MoveKeepsIds DEF Stimulus
<1>4. machine.state \in States /\ machine'.state \in States /\ machine' \in Snapshots
  BY <1>1, <1>3 DEF Sound, Snapshots
<1>5. outcome' \in [from : States, trigger : Kinds \cup {"none"}, to : States]
  BY <1>4 DEF Stimulus
<1> QED
  BY <1>3, <1>4, <1>5 DEF IInv, AutonomyTypeOK

LEMMA NextIInv == IInv /\ [AutonomyNext]_autonomyVars => IInv'
<1> SUFFICES ASSUME IInv, [AutonomyNext]_autonomyVars PROVE IInv'
  OBVIOUS
<1>1. now \in Nat /\ Sound(machine, now)
  BY DEF IInv, AutonomyTypeOK
<1>2. CASE \E t : t.kind \in Kinds /\ Stimulus(t)
  BY <1>2, StimulusKeepsIInv
<1>3. CASE \/ DirectMention \/ ApiWake \/ ScheduledWake \/ OperatorStart
           \/ ProcessInput \/ DreamComplete \/ QueueEmpty
           \/ OperatorPause \/ OperatorStop \/ TickTrigger
  <2>1. \E k \in SimpleKinds : Stimulus(Trigger(k))
    BY <1>3 DEF SimpleKinds, DirectMention, ApiWake, ScheduledWake, OperatorStart,
                ProcessInput, DreamComplete, QueueEmpty, OperatorPause, OperatorStop,
                TickTrigger
  <2> QED
    BY <1>2, <2>1 DEF Trigger, Kinds
<1>4. CASE IdleResume \/ IdleThresholdForDream \/ LeaseExpired
  <2>1. \E k \in Kinds, c \in Claims : Stimulus(Claim(k, c))
    BY <1>4 DEF Kinds, IdleResume, IdleThresholdForDream, LeaseExpired
  <2> QED
    BY <1>2, <2>1 DEF Claim
<1>5. CASE ChatNoted
  <2>1. MoveTo(NoteChat(machine, now)) /\ UNCHANGED outcome
    BY <1>5 DEF ChatNoted
  <2> QED
    BY <1>1, <2>1, NoteChatSound, MoveKeepsIds DEF IInv, AutonomyTypeOK, Sound
<1>6. CASE StepRecorded
  <2>1. MoveTo(RecordStep(machine, now)) /\ UNCHANGED outcome
    BY <1>6 DEF StepRecorded
  <2> QED
    BY <1>1, <2>1, RecordStepSound, MoveKeepsIds DEF IInv, AutonomyTypeOK, Sound
<1>7. CASE BudgetRead
  <2>1. /\ \E b \in BOOLEAN : MoveTo(SetBudget(machine, b))
        /\ UNCHANGED outcome
    BY <1>7 DEF BudgetRead
  <2> QED
    BY <1>1, <2>1, SetBudgetSound, MoveKeepsIds DEF IInv, AutonomyTypeOK, Sound
<1>8. CASE AutonomyRestart
  <2>1. MoveTo(Recover(machine, now)) /\ outcome' = NoOutcome
    BY <1>8 DEF AutonomyRestart
  <2>2. outcome' \in [from : States, trigger : Kinds \cup {"none"}, to : States]
    BY <2>1 DEF NoOutcome, States
  <2> QED
    BY <1>1, <2>1, <2>2, RecoverSound, MoveKeepsIds DEF IInv, AutonomyTypeOK, Sound
<1>9. CASE TimePasses
  <2>1. /\ now' = now + 1
        /\ machine' = machine /\ outcome' = outcome /\ ended' = ended
    BY <1>9 DEF TimePasses
  <2>2. Sound(machine', now')
    BY <1>1, <2>1 DEF Sound, Snapshots, Leases, IsWorking
  <2> QED
    BY <1>1, <2>1, <2>2 DEF IInv, AutonomyTypeOK, EndedIdsPassed, RevokedStaysRevoked
<1>10. CASE UNCHANGED autonomyVars
  BY <1>10 DEF autonomyVars, IInv, AutonomyTypeOK, Sound, EndedIdsPassed, RevokedStaysRevoked, IsWorking
<1> QED
  BY <1>3, <1>4, <1>5, <1>6, <1>7, <1>8, <1>9, <1>10 DEF AutonomyNext

-----------------------------------------------------------------------------
(* The theorems about the machine.                                         *)

\* Every reachable state satisfies the inductive invariant.
THEOREM Invariance == AutonomySpec => []IInv
  BY InitIInv, NextIInv, PTL DEF AutonomySpec

\* The state keeps its types (the snapshot, the outcome, the histories).
THEOREM TypeCorrectness == AutonomySpec => []AutonomyTypeOK
<1>1. IInv => AutonomyTypeOK
  BY DEF IInv
<1> QED
  BY <1>1, Invariance, PTL

\* Work authority and phase agree in every reachable state: a lease exactly
\* while working, and for the phase worked in (enter_work, enter_paused,
\* sleep_clear, expire_lease, recover).
THEOREM AuthorityAgrees == AutonomySpec => []AuthorityMatchesPhase
<1>1. IInv => AuthorityMatchesPhase
  BY DEF IInv, Sound, AuthorityMatchesPhase
<1> QED
  BY <1>1, Invariance, PTL

\* No lease ever exceeds its time or its steps (issue_lease, record_step).
THEOREM LeasesAreBounded == AutonomySpec => []LeaseIsBounded
<1>1. IInv => LeaseIsBounded
  BY DEF IInv, Sound, LeaseIsBounded
<1> QED
  BY <1>1, Invariance, PTL

\* No authority comes back once it is over, across restarts too, for as long
\* as the id counter has not saturated (issue_lease, recover).
THEOREM RevocationIsFinal == AutonomySpec => []RevokedStaysRevoked
<1>1. IInv => RevokedStaysRevoked
  BY DEF IInv
<1> QED
  BY <1>1, Invariance, PTL

\* A pause ends by the operator's start only, in a phase without authority
\* (apply, leave_paused, recover).
THEOREM PausesAreSticky == AutonomySpec => PauseIsSticky
<1> DEFINE Step == machine.state = "paused" /\ machine'.state # "paused" =>
                     OperatorStart /\ machine'.state = "asleep" /\ machine'.lease = NoLease
<1>1. ASSUME IInv, AutonomyNext PROVE Step
  <2> SUFFICES ASSUME machine.state = "paused", machine'.state # "paused"
               PROVE  /\ OperatorStart
                      /\ machine'.state = "asleep" /\ machine'.lease = NoLease
    OBVIOUS
  <2>1. machine \in Snapshots
    BY <1>1 DEF IInv, Sound
  <2>2. ASSUME NEW t, Stimulus(t)
        PROVE  t.kind = "operator_start" /\ machine' = LeavePaused(machine)
    BY <2>1, <2>2 DEF Stimulus, MoveTo, Apply, Halts, EnterPaused, Snapshots
  <2>3. CASE OperatorStart
    BY <2>1, <2>2, <2>3 DEF OperatorStart, LeavePaused, Snapshots
  <2>4. CASE \E k \in SimpleKinds \ {"operator_start"} : Stimulus(Trigger(k))
    BY <2>2, <2>4 DEF Trigger
  <2>5. CASE \E k \in {"idle_resume", "idle_threshold_for_dream", "lease_expired"},
                c \in Claims : Stimulus(Claim(k, c))
    BY <2>2, <2>5 DEF Claim
  <2>6. CASE ChatNoted \/ StepRecorded \/ BudgetRead
    BY <2>1, <2>6 DEF ChatNoted, StepRecorded, BudgetRead, MoveTo, NoteChat,
                      RecordStep, SetBudget, Snapshots
  <2>7. CASE AutonomyRestart
    BY <2>1, <2>7 DEF AutonomyRestart, MoveTo, Recover, IsWorking, WorkingStates, Snapshots
  <2>8. CASE TimePasses
    BY <2>8 DEF TimePasses
  <2> QED
    BY <1>1, <2>3, <2>4, <2>5, <2>6, <2>7, <2>8
       DEF AutonomyNext, SimpleKinds, DirectMention, ApiWake, ScheduledWake, ProcessInput,
           DreamComplete, QueueEmpty, OperatorPause, OperatorStop, TickTrigger,
           IdleResume, IdleThresholdForDream, LeaseExpired
<1>2. IInv /\ [AutonomyNext]_autonomyVars => [Step]_autonomyVars
  BY <1>1
<1> QED
  BY <1>2, Invariance, PTL DEF AutonomySpec, PauseIsSticky

\* Authority is bounded in phase, time, steps and identity, whoever calls.
THEOREM AuthorityStaysBounded == AutonomySpec => []AuthorityIsBounded
  BY TypeCorrectness, AuthorityAgrees, LeasesAreBounded, RevocationIsFinal, PTL
     DEF AuthorityIsBounded

\* A step is a trigger, or a call that changes neither phase nor outcome, or a
\* restart, which never leaves sleep.
LEMMA StepKinds ==
  ASSUME machine \in Snapshots, AutonomyNext
  PROVE  \/ \E t : t.kind \in Kinds /\ t.claim \in Int /\ Stimulus(t)
         \/ machine'.state = machine.state /\ UNCHANGED outcome
         \/ /\ outcome' = NoOutcome
            /\ machine.state = "asleep" => machine'.state = "asleep"
<1>1. CASE \E k \in SimpleKinds : Stimulus(Trigger(k))
  BY <1>1 DEF Trigger, Kinds
<1>2. CASE \E k \in Kinds, c \in Claims : Stimulus(Claim(k, c))
  BY <1>2, ClaimsAssumption DEF Claim
<1>3. CASE ChatNoted \/ StepRecorded \/ BudgetRead
  BY <1>3 DEF ChatNoted, StepRecorded, BudgetRead, MoveTo, NoteChat, RecordStep, SetBudget,
              Snapshots
<1>4. CASE AutonomyRestart
  BY <1>4 DEF AutonomyRestart, MoveTo, Recover, IsWorking, WorkingStates, Snapshots
<1>5. CASE TimePasses
  BY <1>5 DEF TimePasses
<1> QED
  BY <1>1, <1>2, <1>3, <1>4, <1>5
     DEF AutonomyNext, Kinds, SimpleKinds, DirectMention, ApiWake, ScheduledWake, OperatorStart,
         ProcessInput, DreamComplete, QueueEmpty, OperatorPause, OperatorStop, TickTrigger,
         IdleResume, IdleThresholdForDream, LeaseExpired

\* Inside the quiet window only the operator's wake ends sleep (enter_work).
THEOREM QuietIsKept == AutonomySpec => QuietDefersAutonomousWakes
<1> DEFINE Step == machine.state = "asleep" /\ QuietActive(machine, now) /\ machine'.state # "asleep" =>
                     outcome'.trigger \in {"api_wake"} \cup Halts
<1>1. ASSUME IInv, AutonomyNext PROVE Step
  <2> SUFFICES ASSUME machine.state = "asleep", QuietActive(machine, now), machine'.state # "asleep"
               PROVE  outcome'.trigger \in {"api_wake"} \cup Halts
    OBVIOUS
  <2>1. machine \in Snapshots /\ machine.lease = NoLease
    BY <1>1 DEF IInv, Sound, IsWorking, WorkingStates
  <2>2. PICK t : t.kind \in Kinds /\ Stimulus(t)
    BY <1>1, <2>1, StepKinds
  <2>3. outcome'.trigger = t.kind /\ machine' = Apply(machine, t, now)
    BY <2>2 DEF Stimulus, MoveTo
  <2>4. CASE t.kind \in {"api_wake"} \cup Halts
    BY <2>3, <2>4
  <2>5. CASE t.kind \notin {"api_wake"} \cup Halts
    <3>1. machine' = Advance(machine, t, now)
      BY <2>1, <2>3, <2>5 DEF Apply
    <3>2. machine' = machine
      BY <2>5, <3>1 DEF Advance, EnterWork, IsWorking, WorkingStates
    <3> QED
      BY <3>2
  <2> QED
    BY <2>4, <2>5
<1>2. IInv /\ [AutonomyNext]_autonomyVars => [Step]_autonomyVars
  BY <1>1
<1> QED
  BY <1>2, Invariance, PTL DEF AutonomySpec, QuietDefersAutonomousWakes

\* A claimed idle time opens an idle gate only after that much silence since
\* the chat the machine itself has noted (effective_idle).
THEOREM IdleGatesAreKept == AutonomySpec => IdleClaimsAreClamped
<1> DEFINE Step == machine.lastChat # NoTime /\ machine'.state # machine.state =>
                     /\ outcome'.trigger = "idle_resume" =>
                          now - machine.lastChat >= IdleResumeSecs
                     /\ outcome'.trigger = "idle_threshold_for_dream" =>
                          now - machine.lastChat >= DreamIdleSecs
<1>1. ASSUME IInv, AutonomyNext PROVE Step
  <2> SUFFICES ASSUME machine.lastChat # NoTime, machine'.state # machine.state,
                      outcome'.trigger \in {"idle_resume", "idle_threshold_for_dream"}
               PROVE  /\ outcome'.trigger = "idle_resume" =>
                           now - machine.lastChat >= IdleResumeSecs
                      /\ outcome'.trigger = "idle_threshold_for_dream" =>
                           now - machine.lastChat >= DreamIdleSecs
    OBVIOUS
  <2>1. machine \in Snapshots /\ machine.lastChat \in Int /\ now \in Nat
    BY <1>1 DEF IInv, AutonomyTypeOK, Snapshots
  <2>2. PICK t : t.kind \in Kinds /\ t.claim \in Int /\ Stimulus(t)
    BY <1>1, <2>1, StepKinds DEF NoOutcome
  <2>3. /\ outcome'.trigger = t.kind /\ machine' = Apply(machine, t, now)
        /\ t.kind \in {"idle_resume", "idle_threshold_for_dream"}
    BY <2>2 DEF Stimulus, MoveTo
  <2>4. machine' = Advance(machine, t, now)
    BY <2>3 DEF Apply, Halts
  <2>5. EffectiveIdle(machine, t.claim, now) <= now - machine.lastChat
    BY <2>1, <2>2 DEF EffectiveIdle
  <2>6. CASE t.kind = "idle_resume"
    <3>1. EffectiveIdle(machine, t.claim, now) >= IdleResumeSecs
      BY <2>4, <2>6 DEF Advance
    <3> QED
      BY <2>1, <2>2, <2>3, <2>5, <2>6, <3>1 DEF EffectiveIdle
  <2>7. CASE t.kind = "idle_threshold_for_dream"
    <3>1. EffectiveIdle(machine, t.claim, now) >= DreamIdleSecs
      BY <2>4, <2>7 DEF Advance
    <3> QED
      BY <2>1, <2>2, <2>3, <2>5, <2>7, <3>1 DEF EffectiveIdle
  <2> QED
    BY <2>3, <2>6, <2>7
<1>2. IInv /\ [AutonomyNext]_autonomyVars => [Step]_autonomyVars
  BY <1>1
<1> QED
  BY <1>2, Invariance, PTL DEF AutonomySpec, IdleClaimsAreClamped

\* No trigger gets past a pause, a quiet window or an idle gate that holds.
THEOREM GatesAreKept == AutonomySpec => GatesHold
  BY PausesAreSticky, QuietIsKept, IdleGatesAreKept DEF GatesHold

-----------------------------------------------------------------------------
(* What the runtime does to the machine.                                   *)

SamePause(m, n) == (m.state = "paused") <=> (n.state = "paused")
Live(m) == IsWorking(m) => ~IsExpired(m.lease, 0)

\* Before every use the machine is recovered: what still works has time and steps left.
LEMMA RecoveredIsLive ==
  ASSUME NEW m, Sound(m, 0)
  PROVE  /\ Sound(Recover(m, 0), 0) /\ SamePause(m, Recover(m, 0)) /\ Live(Recover(m, 0))
         /\ IsWorking(Recover(m, 0)) =>
              IsWorking(m) /\ Recover(m, 0).state = m.state /\ Recover(m, 0).lease = m.lease
<1> DEFINE n == Recover(m, 0)
<1>1. Sound(n, 0)
  BY RecoverSound
<1>2. m \in Snapshots
  BY DEF Sound
<1>3. n.state \in {m.state, "asleep"} /\ (n.state # m.state => IsWorking(m))
  BY <1>2 DEF Recover, Snapshots
<1>4. IsWorking(n) => n.state = m.state /\ n.lease = m.lease /\ ~IsExpired(m.lease, 0)
  BY <1>2 DEF Recover, Snapshots, IsWorking, WorkingStates
<1> QED
  BY <1>1, <1>3, <1>4 DEF SamePause, Live, IsWorking, WorkingStates

LEMMA SyncedIsLive ==
  ASSUME NEW r, Sound(r.machine, 0), overBudget \in BOOLEAN
  PROVE  /\ Sound(Synced(r), 0) /\ SamePause(r.machine, Synced(r)) /\ Live(Synced(r))
         /\ IsWorking(Synced(r)) =>
              /\ IsWorking(r.machine) /\ Synced(r).state = r.machine.state
              /\ Synced(r).lease = r.machine.lease
<1> DEFINE m == Recover(r.machine, 0)
<1>1. Sound(m, 0) /\ m \in Snapshots
  BY RecoverSound DEF Sound
<1>2. Synced(r) = [m EXCEPT !.blocked = overBudget]
  BY DEF Synced, SetBudget
<1>3. Sound(Synced(r), 0)
  BY <1>1, SetBudgetSound DEF Synced
<1>4. Synced(r).state = m.state /\ Synced(r).lease = m.lease
  BY <1>1, <1>2 DEF Snapshots
<1> HIDE DEF m
<1>5. SamePause(r.machine, m) /\ Live(m)
      /\ (IsWorking(m) =>
            IsWorking(r.machine) /\ m.state = r.machine.state /\ m.lease = r.machine.lease)
  BY RecoveredIsLive DEF m
<1> QED
  BY <1>3, <1>4, <1>5 DEF SamePause, Live, IsWorking

\* The triggers the worker and the scheduler send.
Inputs == {"direct_mention", "scheduled_wake", "process_input", "queue_empty", "api_wake"}

\* They neither pause nor resume, and grant a lease only to a machine asleep or
\* awake: what is left of a burst in progress stays in the lease.
LEMMA InputsKeepPace ==
  ASSUME NEW m, Sound(m, 0), NEW kind \in Inputs
  PROVE  LET n == Apply(m, Trigger(kind), 0)
         IN /\ Sound(n, 0) /\ SamePause(m, n)
            /\ \A b \in Nat : Worked(m, b) /\ Live(m) => Worked(n, IF IsWorking(m) THEN b ELSE 0)
            /\ kind = "process_input" /\ Live(m) =>
                 n.state # "awake" /\ (IsWorking(n) <=> IsWorking(m))
<1> DEFINE n == Apply(m, Trigger(kind), 0)
<1>1. Sound(n, 0)
  BY ApplySound
<1>2. m \in Snapshots /\ m.state \in States
  BY DEF Sound, Snapshots
<1>3. \A to \in WorkingStates, gated \in BOOLEAN :
        LET w == EnterWork(m, to, 0, gated)
        IN w = m \/ (w.state = to /\ w.lease.steps = 0)
  BY <1>2 DEF EnterWork, Snapshots, NewLease
<1>4. SleepClear(m).state = "asleep"
  BY <1>2 DEF SleepClear, Snapshots
<1>5. CASE m.state = "asleep"
  <2>1. \/ n = m
        \/ kind # "process_input" /\ \E to \in {"awake", "deliberating"}, gated \in BOOLEAN :
                                       n = EnterWork(m, to, 0, gated)
    <3>1. n = IF kind \in {"direct_mention", "api_wake", "scheduled_wake"}
              THEN EnterWork(m, IF kind = "scheduled_wake" THEN "deliberating" ELSE "awake",
                             0, kind # "api_wake")
              ELSE m
      BY <1>5 DEF Apply, Advance, Trigger, Inputs, Halts, IsWorking, WorkingStates
    <3> QED
      BY <3>1
  <2>2. \/ n = m
        \/ kind # "process_input" /\ n.state \in {"awake", "deliberating"} /\ n.lease.steps = 0
    BY <1>3, <2>1 DEF WorkingStates
  <2> QED
    BY <1>1, <1>5, <2>2 DEF SamePause, Worked, IsWorking, WorkingStates
<1>6. CASE m.state = "awake"
  <2>1. \/ n = m /\ kind # "process_input"
        \/ n = SleepClear(m)
        \/ \E gated \in BOOLEAN : n = EnterWork(m, "deliberating", 0, gated)
    BY <1>6 DEF Apply, Advance, Trigger, Inputs, Halts, IsWorking, WorkingStates
  <2>2. kind = "process_input" => n = EnterWork(m, "deliberating", 0, FALSE)
    BY <1>6 DEF Apply, Advance, Trigger, Halts
  <2>3. EnterWork(m, "deliberating", 0, FALSE).state = "deliberating"
    BY <1>2, <1>6 DEF EnterWork, Snapshots
  <2>4. n = m \/ n.state = "asleep" \/ (n.state = "deliberating" /\ n.lease.steps = 0)
    BY <1>3, <1>4, <2>1 DEF WorkingStates
  <2>5. \A b \in Nat : Worked(m, b) => Worked(n, b)
    BY <1>6, <2>4 DEF Worked, IsWorking, WorkingStates
  <2> QED
    BY <1>1, <1>6, <2>2, <2>3, <2>4, <2>5 DEF SamePause, IsWorking, WorkingStates
<1>7. CASE m.state = "deliberating"
  <2>1. n = CASE kind = "process_input" -> EnterWork(m, "deliberating", 0, FALSE)
               [] kind = "queue_empty" -> SleepClear(m)
               [] OTHER -> m
    BY <1>7 DEF Apply, Advance, Trigger, Inputs, Halts, IsWorking, WorkingStates
  <2>2. Live(m) => EnterWork(m, "deliberating", 0, FALSE) = m
    BY <1>7 DEF EnterWork, Live, IsWorking, WorkingStates, HasLiveLease, Sound
  <2>3. EnterWork(m, "deliberating", 0, FALSE).state = "deliberating"
    BY <1>2, <1>7 DEF EnterWork, Snapshots
  <2> QED
    BY <1>1, <1>4, <1>7, <2>1, <2>2, <2>3 DEF SamePause, Worked, IsWorking, WorkingStates
<1>8. CASE m.state = "dreaming"
  <2>1. n = IF kind = "queue_empty" THEN SleepClear(m) ELSE m
    BY <1>8 DEF Apply, Advance, Trigger, Inputs, Halts, IsWorking, WorkingStates
  <2> QED
    BY <1>1, <1>4, <1>8, <2>1 DEF SamePause, Worked, IsWorking, WorkingStates
<1>9. CASE m.state = "paused"
  <2>1. n = m
    BY <1>9 DEF Apply, Trigger, Inputs, Halts
  <2> QED
    BY <1>1, <1>9, <2>1 DEF SamePause, Worked, IsWorking, WorkingStates
<1> QED
  BY <1>2, <1>5, <1>6, <1>7, <1>8, <1>9 DEF States, WorkingStates

-----------------------------------------------------------------------------
(* What it does to the queue.                                              *)

USE RuntimeAssumption

\* q holds tasks of p, each once, some of them started since.
From(q, p) ==
  /\ q \in Seq(Tasks)
  /\ \E f \in [DOMAIN q -> DOMAIN p] :
       /\ \A k, l \in DOMAIN q : f[k] = f[l] => k = l
       /\ \A k \in DOMAIN q :
            /\ q[k].kind = p[f[k]].kind /\ q[k].mention = p[f[k]].mention
            /\ IsQueued(q[k]) => IsQueued(p[f[k]])

LEMMA KindsOfTasks ==
  /\ Sleeping \subseteq {"reflection", "dream", "consolidation"}
  /\ TaskKinds = {"wake", "mention", "read"} \cup Sleeping
  /\ "wake" \notin Sleeping /\ "mention" \notin Sleeping /\ "read" \notin Sleeping
<1>1. \A i \in DOMAIN SleepKinds : SleepKinds[i] \in {"reflection", "dream", "consolidation"}
  OBVIOUS
<1> QED
  BY <1>1 DEF Sleeping, TaskKinds, ToSet

LEMMA PickedIsFrom ==
  ASSUME NEW p \in Seq(Tasks), NEW I \in SUBSET (DOMAIN p)
  PROVE  From(Picked(p, I), p)
<1> DEFINE q == Picked(p, I)
           f == [k \in DOMAIN q |-> Nth(I, k)]
<1>1. /\ q \in Seq(Tasks)
      /\ \A k \in DOMAIN q : Nth(I, k) \in I /\ q[k] = p[Nth(I, k)]
      /\ \A k, l \in DOMAIN q : k # l => Nth(I, k) # Nth(I, l)
  BY PickedIsSeq
<1> HIDE DEF q
<1>2. f \in [DOMAIN q -> DOMAIN p]
  BY <1>1
<1>3. \A k, l \in DOMAIN q : f[k] = f[l] => k = l
  BY <1>1
<1>4. \A k \in DOMAIN q : q[k] = p[f[k]]
  BY <1>1
<1> HIDE DEF f
<1>5. From(q, p)
  BY <1>1, <1>2, <1>3, <1>4 DEF From
<1> QED
  BY <1>5 DEF q

\* Tasks that leave, or start, take nothing from those that stay.
LEMMA FromKeeps ==
  ASSUME NEW r, NEW n, From(n.tasks, r.tasks), Payloads(r), Cooled(r),
         \A k \in DOMAIN n.tasks :
           n.tasks[k].kind \in Sleeping /\ IsQueued(n.tasks[k]) /\ IsReady(r, n.tasks[k].kind)
             => IsReady(n, n.tasks[k].kind)
  PROVE  Payloads(n) /\ Cooled(n)
<1>1. PICK f \in [DOMAIN n.tasks -> DOMAIN r.tasks] :
        /\ \A k, l \in DOMAIN n.tasks : f[k] = f[l] => k = l
        /\ \A k \in DOMAIN n.tasks :
             /\ n.tasks[k].kind = r.tasks[f[k]].kind
             /\ n.tasks[k].mention = r.tasks[f[k]].mention
             /\ IsQueued(n.tasks[k]) => IsQueued(r.tasks[f[k]])
  BY DEF From
<1>2. \A k \in DOMAIN n.tasks : f[k] \in DOMAIN r.tasks
  OBVIOUS
<1>3. Payloads(n)
  BY <1>1, <1>2 DEF Payloads
<1>4. \A i \in DOMAIN n.tasks :
        n.tasks[i].kind \in Sleeping /\ IsQueued(n.tasks[i]) => IsReady(n, n.tasks[i].kind)
  BY <1>1, <1>2 DEF Cooled
<1>5. \A i, j \in DOMAIN n.tasks :
        n.tasks[i].kind \in Sleeping /\ n.tasks[i].kind = n.tasks[j].kind => i = j
  BY <1>1, <1>2 DEF Cooled
<1> QED
  BY <1>3, <1>4, <1>5 DEF Cooled

\* Adding one task that is not sleep work.
LEMMA AppendKeeps ==
  ASSUME NEW r, NEW n, r.tasks \in Seq(Tasks), Payloads(r), Cooled(r),
         NEW kind \in {"wake", "mention", "read"}, NEW mention \in Mentions \cup {NoMention},
         Payload(kind, mention), n.ranAt = r.ranAt,
         n.tasks = Append(r.tasks, NewTask(kind, mention, 0))
  PROVE  n.tasks \in Seq(Tasks) /\ Payloads(n) /\ Cooled(n)
<1> DEFINE t == NewTask(kind, mention, 0)
<1>1. t \in Tasks /\ t.kind = kind /\ t.mention = mention /\ kind \notin Sleeping
  BY KindsOfTasks DEF NewTask, Tasks
<1> HIDE DEF t
<1>2. /\ n.tasks = Append(r.tasks, t) /\ n.tasks \in Seq(Tasks)
      /\ DOMAIN n.tasks = 1..(Len(r.tasks) + 1) /\ Len(r.tasks) \in Nat
      /\ DOMAIN r.tasks = 1..Len(r.tasks)
  BY <1>1 DEF t
<1>3. \A i \in DOMAIN n.tasks :
        \/ i = Len(r.tasks) + 1 /\ n.tasks[i] = t
        \/ i \in DOMAIN r.tasks /\ n.tasks[i] = r.tasks[i]
  BY <1>2
<1>4. Payloads(n)
  BY <1>1, <1>3 DEF Payloads
<1>5. Cooled(n)
  BY <1>1, <1>3 DEF Cooled, IsReady
<1> QED
  BY <1>2, <1>4, <1>5

\* Planning adds ready kinds that no task is of, each once.
LEMMA ProposalsKeep ==
  ASSUME NEW r, NEW n, r.tasks \in Seq(Tasks), Payloads(r), Cooled(r),
         n.ranAt = r.ranAt, n.tasks = r.tasks \o Proposals(r)
  PROVE  /\ n.tasks \in Seq(Tasks) /\ Payloads(n) /\ Cooled(n)
         /\ DOMAIN r.tasks \subseteq DOMAIN n.tasks
         /\ \A i \in DOMAIN r.tasks : n.tasks[i] = r.tasks[i]
         /\ \A i \in DOMAIN n.tasks \ DOMAIN r.tasks : n.tasks[i].mention = NoMention
<1> DEFINE J == {i \in DOMAIN SleepKinds :
                   workload.sleeps /\ IsReady(r, SleepKinds[i]) /\ ~IsLive(r, SleepKinds[i])}
           S == {"reflection", "dream", "consolidation"}
           planned == Picked(SleepKinds, J)
           new == Proposals(r)
<1>1. J \in SUBSET (DOMAIN SleepKinds) /\ SleepKinds \in Seq(S)
  OBVIOUS
<1> HIDE DEF J, S
<1>2. /\ planned \in Seq(S)
      /\ \A k \in DOMAIN planned : Nth(J, k) \in J /\ planned[k] = SleepKinds[Nth(J, k)]
      /\ \A k, l \in DOMAIN planned : k # l => Nth(J, k) # Nth(J, l)
  BY <1>1, PickedIsSeq
<1>3. new = [k \in DOMAIN planned |-> NewTask(planned[k], NoMention, ProposalSecs)]
  BY DEF Proposals, J
<1> HIDE DEF planned, new
<1>4. \A k \in DOMAIN planned :
        /\ planned[k] \in Sleeping /\ IsReady(r, planned[k]) /\ ~IsLive(r, planned[k])
        /\ NewTask(planned[k], NoMention, ProposalSecs) \in Tasks
  <2> SUFFICES ASSUME NEW k \in DOMAIN planned
               PROVE  /\ planned[k] \in Sleeping /\ IsReady(r, planned[k])
                      /\ ~IsLive(r, planned[k])
                      /\ NewTask(planned[k], NoMention, ProposalSecs) \in Tasks
    OBVIOUS
  <2>1. /\ Nth(J, k) \in DOMAIN SleepKinds
        /\ IsReady(r, planned[k]) /\ ~IsLive(r, planned[k])
    BY <1>2 DEF J
  <2>2. planned[k] \in Sleeping
    BY <1>2, <2>1 DEF Sleeping, ToSet
  <2> QED
    BY <2>1, <2>2, KindsOfTasks DEF NewTask, Tasks
<1>5. /\ new \in Seq(Tasks) /\ DOMAIN new = DOMAIN planned
      /\ \A k \in DOMAIN new : /\ new[k].kind = planned[k] /\ new[k].mention = NoMention
                               /\ IsQueued(new[k])
  <2>1. DOMAIN planned = 1..Len(planned) /\ Len(planned) \in Nat
    BY <1>2
  <2>2. DOMAIN new = 1..Len(planned) /\ \A k \in 1..Len(planned) : new[k] \in Tasks
    BY <1>3, <1>4, <2>1
  <2>3. new = [k \in 1..Len(planned) |-> new[k]]
    BY <1>3, <2>1
  <2>4. new \in Seq(Tasks)
    BY <2>1, <2>2, <2>3
  <2> QED
    BY <1>3, <2>1, <2>2, <2>4 DEF NewTask, IsQueued
<1>6. \A k, l \in DOMAIN new : planned[k] = planned[l] => k = l
  BY <1>1, <1>2, <1>5
<1>7. /\ n.tasks \in Seq(Tasks)
      /\ Len(r.tasks) \in Nat /\ Len(new) \in Nat /\ Len(n.tasks) = Len(r.tasks) + Len(new)
      /\ DOMAIN r.tasks = 1..Len(r.tasks) /\ DOMAIN new = 1..Len(new)
      /\ DOMAIN n.tasks = 1..(Len(r.tasks) + Len(new))
      /\ \A i \in DOMAIN n.tasks :
           n.tasks[i] = IF i <= Len(r.tasks) THEN r.tasks[i] ELSE new[i - Len(r.tasks)]
  <2>1. n.tasks = r.tasks \o new
    BY DEF new
  <2> QED
    BY <1>5, <2>1
<1>8. \A i \in DOMAIN n.tasks :
        \/ i \in DOMAIN r.tasks /\ n.tasks[i] = r.tasks[i]
        \/ i - Len(r.tasks) \in DOMAIN new /\ n.tasks[i] = new[i - Len(r.tasks)]
  <2> TAKE i \in DOMAIN n.tasks
  <2>1. i \in 1..(Len(r.tasks) + Len(new))
        /\ n.tasks[i] = IF i <= Len(r.tasks) THEN r.tasks[i] ELSE new[i - Len(r.tasks)]
    BY <1>7
  <2>2. CASE i <= Len(r.tasks)
    BY <1>7, <2>1, <2>2
  <2>3. CASE ~(i <= Len(r.tasks))
    <3>1. i - Len(r.tasks) \in 1..Len(new)
      BY <1>7, <2>1, <2>3
    <3> QED
      BY <1>7, <2>1, <2>3, <3>1
  <2> QED
    BY <2>2, <2>3
<1>9. Payloads(n)
  <2>1. \A k \in DOMAIN new : new[k].kind # "mention"
    BY <1>4, <1>5, KindsOfTasks
  <2> QED
    BY <1>5, <1>8, <2>1 DEF Payloads, Payload
<1>10. \A i \in DOMAIN n.tasks :
         n.tasks[i].kind \in Sleeping /\ IsQueued(n.tasks[i]) => IsReady(n, n.tasks[i].kind)
  BY <1>4, <1>5, <1>8 DEF Cooled, IsReady
<1>11. \A i, j \in DOMAIN n.tasks :
         n.tasks[i].kind \in Sleeping /\ n.tasks[i].kind = n.tasks[j].kind => i = j
  <2>1. \A i \in DOMAIN r.tasks, k \in DOMAIN new : r.tasks[i].kind # new[k].kind
    BY <1>4, <1>5 DEF IsLive
  <2>2. \A k, l \in DOMAIN new : new[k].kind = new[l].kind => k = l
    BY <1>5, <1>6
  <2>3. \A i, j \in DOMAIN r.tasks :
          r.tasks[i].kind \in Sleeping /\ r.tasks[i].kind = r.tasks[j].kind => i = j
    BY DEF Cooled
  <2>4. DOMAIN n.tasks \in SUBSET Int /\ Len(r.tasks) \in Int
    BY <1>7
  <2>5. SUFFICES ASSUME NEW i \in DOMAIN n.tasks, NEW j \in DOMAIN n.tasks,
                        n.tasks[i].kind \in Sleeping, n.tasks[i].kind = n.tasks[j].kind
                 PROVE  i = j
    OBVIOUS
  <2>6. /\ \/ i \in DOMAIN r.tasks /\ n.tasks[i] = r.tasks[i]
           \/ i - Len(r.tasks) \in DOMAIN new /\ n.tasks[i] = new[i - Len(r.tasks)]
        /\ \/ j \in DOMAIN r.tasks /\ n.tasks[j] = r.tasks[j]
           \/ j - Len(r.tasks) \in DOMAIN new /\ n.tasks[j] = new[j - Len(r.tasks)]
    BY <1>8
  <2>7. CASE i \in DOMAIN r.tasks /\ n.tasks[i] = r.tasks[i]
    <3>1. CASE j \in DOMAIN r.tasks /\ n.tasks[j] = r.tasks[j]
      BY <2>3, <2>5, <2>7, <3>1
    <3>2. CASE j - Len(r.tasks) \in DOMAIN new /\ n.tasks[j] = new[j - Len(r.tasks)]
      BY <2>1, <2>5, <2>7, <3>2
    <3> QED
      BY <2>6, <3>1, <3>2
  <2>8. CASE i - Len(r.tasks) \in DOMAIN new /\ n.tasks[i] = new[i - Len(r.tasks)]
    <3>1. CASE j \in DOMAIN r.tasks /\ n.tasks[j] = r.tasks[j]
      BY <2>1, <2>5, <2>8, <3>1
    <3>2. CASE j - Len(r.tasks) \in DOMAIN new /\ n.tasks[j] = new[j - Len(r.tasks)]
      <4>1. i - Len(r.tasks) = j - Len(r.tasks)
        BY <2>2, <2>5, <2>8, <3>2
      <4> QED
        BY <2>4, <4>1
    <3> QED
      BY <2>6, <3>1, <3>2
  <2> QED
    BY <2>6, <2>7, <2>8
<1>12. /\ DOMAIN r.tasks \subseteq DOMAIN n.tasks
       /\ \A i \in DOMAIN r.tasks : n.tasks[i] = r.tasks[i]
  BY <1>7
<1>13. \A i \in DOMAIN n.tasks \ DOMAIN r.tasks : n.tasks[i].mention = NoMention
  BY <1>5, <1>8
<1> QED
  BY <1>7, <1>9, <1>10, <1>11, <1>12, <1>13 DEF Cooled

-----------------------------------------------------------------------------
(* What it does to the durable state: one lemma for each thing it saves.    *)

\* Three facts at once about a machine m that becomes n: it stays sound, the
\* operator alone pauses it, and the lease has room for what was considered.
Paced(m, met, n) ==
  /\ Sound(n, 0) /\ SamePause(m, n)
  /\ \A b \in Nat : Worked(m, b) => Worked(n, IF IsWorking(met) THEN b ELSE 0)

LEMMA SyncedIsPaced ==
  ASSUME NEW r, Sound(r.machine, 0), overBudget \in BOOLEAN
  PROVE  Paced(r.machine, Synced(r), Synced(r))
<1>1. /\ Sound(Synced(r), 0) /\ SamePause(r.machine, Synced(r)) /\ Live(Synced(r))
      /\ IsWorking(Synced(r)) =>
           /\ IsWorking(r.machine) /\ Synced(r).state = r.machine.state
           /\ Synced(r).lease = r.machine.lease
  BY SyncedIsLive
<1> QED
  BY <1>1 DEF Paced, Worked

LEMMA InputIsPaced ==
  ASSUME NEW r, Sound(r.machine, 0), overBudget \in BOOLEAN, NEW kind \in Inputs
  PROVE  /\ Paced(r.machine, Synced(r), Apply(Synced(r), Trigger(kind), 0))
         /\ kind = "process_input" =>
              /\ Apply(Synced(r), Trigger(kind), 0).state # "awake"
              /\ IsWorking(Apply(Synced(r), Trigger(kind), 0)) <=> IsWorking(Synced(r))
<1> DEFINE m == Synced(r)
           n == Apply(m, Trigger(kind), 0)
<1>1. Sound(m, 0) /\ Live(m)
  BY SyncedIsLive
<1>2. Paced(r.machine, m, m)
  BY SyncedIsPaced
<1>3. /\ Sound(n, 0) /\ SamePause(m, n)
      /\ \A b \in Nat : Worked(m, b) /\ Live(m) => Worked(n, IF IsWorking(m) THEN b ELSE 0)
      /\ kind = "process_input" /\ Live(m) => n.state # "awake" /\ (IsWorking(n) <=> IsWorking(m))
  BY <1>1, InputsKeepPace
<1> HIDE DEF m, n
<1>4. SamePause(r.machine, n)
  BY <1>2, <1>3 DEF Paced, SamePause
<1>5. ASSUME NEW b \in Nat, Worked(r.machine, b)
      PROVE  Worked(n, IF IsWorking(m) THEN b ELSE 0)
  <2>1. CASE IsWorking(m)
    BY <1>1, <1>2, <1>3, <1>5, <2>1 DEF Paced
  <2>2. CASE ~IsWorking(m)
    <3>1. Worked(m, 0) /\ 0 \in Nat
      BY <2>2 DEF Worked
    <3> QED
      BY <1>1, <1>3, <2>2, <3>1
  <2> QED
    BY <2>1, <2>2
<1>6. /\ Paced(r.machine, m, n)
      /\ kind = "process_input" => n.state # "awake" /\ (IsWorking(n) <=> IsWorking(m))
  BY <1>1, <1>3, <1>4, <1>5 DEF Paced
<1> QED
  BY <1>6 DEF m, n

LEMMA NoteMentionIsPaced ==
  ASSUME NEW m, NEW met, NEW n, Paced(m, met, n)
  PROVE  Paced(m, met, NoteMention(n))
<1> DEFINE c == NoteChat(n, 0)
           o == NoteMention(n)
<1>1. Sound(c, 0) /\ c \in Snapshots /\ n \in Snapshots
  BY NoteChatSound DEF Paced, Sound
<1>2. c.state = n.state /\ c.lease = n.lease
  BY <1>1 DEF NoteChat, Snapshots
<1>3. o = [c EXCEPT !.lastChat = NoTime]
  BY DEF NoteMention
<1> HIDE DEF c, o
<1>4. o \in Snapshots /\ o.state = c.state /\ o.lease = c.lease /\ o.nextId = c.nextId
  BY <1>1, <1>3 DEF Snapshots
<1>5. Sound(o, 0)
  BY <1>1, <1>4 DEF Sound, IsWorking
<1>6. Paced(m, met, o)
  BY <1>2, <1>4, <1>5 DEF Paced, SamePause, Worked, IsWorking
<1> QED
  BY <1>6 DEF o

LEMMA EnqueuedGood ==
  ASSUME NEW r, Good(r), overBudget \in BOOLEAN,
         NEW kind \in {"wake", "mention", "read"}, NEW mention \in Mentions \cup {NoMention},
         Payload(kind, mention)
  PROVE  LET n == Enqueued(r, kind, mention)
         IN /\ Good(n) /\ Paced(r.machine, Synced(r), n.machine)
            /\ n.mode = r.mode /\ n.lastWake = r.lastWake /\ n.deferred = r.deferred
            /\ n.tasks = Append(r.tasks, NewTask(kind, mention, 0))
<1> DEFINE m    == Synced(r)
           woke == Apply(m, Trigger("direct_mention"), 0)
           o    == CASE kind = "mention" -> IF woke.state = m.state THEN m ELSE NoteMention(woke)
                     [] kind = "wake" -> Apply(m, Trigger("scheduled_wake"), 0)
                     [] OTHER -> m
           n    == Enqueued(r, kind, mention)
<1>1. Paced(r.machine, m, m)
  BY SyncedIsPaced DEF Good
<1>2. Paced(r.machine, m, woke) /\ Paced(r.machine, m, Apply(m, Trigger("scheduled_wake"), 0))
  BY InputIsPaced DEF Good, Inputs
<1>3. Paced(r.machine, m, NoteMention(woke))
  BY <1>2, NoteMentionIsPaced
<1>4. Paced(r.machine, m, o)
  BY <1>1, <1>2, <1>3
<1>5. n = [r EXCEPT !.machine = o, !.tasks = Append(@, NewTask(kind, mention, 0))]
  BY DEF Enqueued
<1> HIDE DEF n, o, woke, m
<1>6. /\ n.machine = o /\ n.mode = r.mode /\ n.lastWake = r.lastWake /\ n.deferred = r.deferred
      /\ n.schedule = r.schedule /\ n.ranAt = r.ranAt
      /\ n.tasks = Append(r.tasks, NewTask(kind, mention, 0))
  BY <1>5 DEF Good, DurableStates
<1>7. n.tasks \in Seq(Tasks) /\ Payloads(n) /\ Cooled(n)
  BY <1>6, AppendKeeps DEF Good, DurableStates
<1>8. o \in Snapshots
  BY <1>4 DEF Paced, Sound
<1>9. n \in DurableStates
  BY <1>5, <1>6, <1>7, <1>8 DEF Good, DurableStates
<1> QED
  BY <1>4, <1>6, <1>7, <1>9 DEF Good, Paced, n, m

\* The operator's mode decides whether the machine is paused.
LEMMA ConvergedIsSound ==
  ASSUME NEW r, Sound(r.machine, 0), overBudget \in BOOLEAN, NEW mode \in Modes
  PROVE  LET m == Synced(r)
             n == Converged(m, mode)
         IN /\ Sound(n, 0) /\ (mode = "paused" <=> n.state = "paused")
            /\ \A b \in Nat : Worked(r.machine, b) => Worked(n, IF IsWorking(m) THEN b ELSE 0)
<1> DEFINE m == Synced(r)
           started == IF m.state = "paused" THEN Apply(m, Trigger("operator_start"), 0) ELSE m
           woken == Apply(started, Trigger("api_wake"), 0)
           stopped == Apply(m, Trigger("operator_pause"), 0)
           n == Converged(m, mode)
<1>1. Paced(r.machine, m, m) /\ Sound(m, 0) /\ m \in Snapshots /\ Live(m)
  BY SyncedIsPaced, SyncedIsLive DEF Paced, Sound
<1>2. stopped.state = "paused" /\ Sound(stopped, 0)
  <2>1. stopped = EnterPaused(m)
    BY DEF Apply, Trigger, Halts
  <2>2. EnterPaused(m).state = "paused"
    BY <1>1 DEF EnterPaused, Snapshots
  <2>3. Sound(EnterPaused(m), 0)
    BY <1>1, ReleasesSound
  <2> HIDE DEF stopped
  <2> QED
    BY <2>1, <2>2, <2>3
<1>3. /\ Sound(started, 0) /\ started.state # "paused" /\ Live(started)
      /\ IF IsWorking(m) THEN started = m ELSE ~IsWorking(started)
  <2>1. CASE m.state = "paused"
    <3>1. started = LeavePaused(m)
      BY <2>1 DEF Apply, Trigger, Halts
    <3>2. started.state = "asleep"
      BY <1>1, <3>1 DEF LeavePaused, Snapshots
    <3> QED
      BY <1>1, <2>1, <3>1, <3>2, ReleasesSound DEF IsWorking, WorkingStates, Live
  <2>2. CASE m.state # "paused"
    BY <1>1, <2>2
  <2> QED
    BY <2>1, <2>2
<1>4. /\ Sound(woken, 0) /\ SamePause(started, woken)
      /\ \A b \in Nat : Worked(started, b) => Worked(woken, IF IsWorking(started) THEN b ELSE 0)
  <2>1. "api_wake" \in Inputs
    BY DEF Inputs
  <2> HIDE DEF started
  <2> QED
    BY <1>3, <2>1, InputsKeepPace
<1>5. n \in {stopped, woken, started} /\ (mode = "paused" <=> n = stopped)
  <2>1. woken.state # "paused"
    BY <1>3, <1>4 DEF SamePause
  <2>2. n = CASE mode = "paused" -> stopped
              [] mode \in {"engaged", "deliberative"} -> woken
              [] OTHER -> started
    BY DEF Converged
  <2> HIDE DEF n, stopped, woken, started
  <2> QED
    BY <1>2, <1>3, <2>1, <2>2
<1> HIDE DEF m, n, stopped, woken, started
<1>6. Sound(n, 0) /\ (mode = "paused" <=> n.state = "paused")
  BY <1>2, <1>3, <1>4, <1>5 DEF SamePause
<1>7. ASSUME NEW b \in Nat, Worked(r.machine, b)
      PROVE  Worked(n, IF IsWorking(m) THEN b ELSE 0)
  <2> DEFINE left == IF IsWorking(m) THEN b ELSE 0
  <2>1. left \in Nat /\ Worked(m, left)
    BY <1>1, <1>7 DEF Paced
  <2>2. Worked(started, left)
    BY <1>3, <2>1 DEF Worked
  <2>3. Worked(woken, left)
    BY <1>3, <1>4, <2>1, <2>2
  <2>4. Worked(stopped, left)
    BY <1>2 DEF Worked, IsWorking, WorkingStates
  <2> QED
    BY <1>5, <2>2, <2>3, <2>4
<1> QED
  BY <1>6, <1>7 DEF n, m

\* The small changes: nothing but the named field.
LEMMA SameQueueGood ==
  ASSUME NEW r, Good(r), NEW n \in DurableStates, Sound(n.machine, 0),
         n.tasks = r.tasks, n.ranAt = r.ranAt, Len(n.deferred) <= MaxDeferred
  PROVE  Good(n)
  BY DEF Good, Payloads, Cooled, IsReady

LEMMA SetModeGood ==
  ASSUME NEW r, Good(r), overBudget \in BOOLEAN, NEW mode \in Modes
  PROVE  LET n == [r EXCEPT !.mode = mode, !.machine = Converged(Synced(r), mode)]
         IN /\ Good(n) /\ Agrees(n) /\ n.tasks = r.tasks /\ n.deferred = r.deferred
            /\ n.lastWake = r.lastWake
            /\ \A b \in Nat : Worked(r.machine, b)
                                => Worked(n.machine, IF IsWorking(Synced(r)) THEN b ELSE 0)
<1> DEFINE o == Converged(Synced(r), mode)
           n == [r EXCEPT !.mode = mode, !.machine = o]
<1>1. /\ Sound(o, 0) /\ (mode = "paused" <=> o.state = "paused")
      /\ \A b \in Nat : Worked(r.machine, b) => Worked(o, IF IsWorking(Synced(r)) THEN b ELSE 0)
  BY ConvergedIsSound DEF Good
<1>2. r \in DurableStates /\ Len(r.deferred) <= MaxDeferred
  BY DEF Good
<1>3. o \in Snapshots
  BY <1>1 DEF Sound
<1> HIDE DEF o
<1>4. /\ n \in DurableStates
      /\ n.mode = mode /\ n.machine = o /\ n.tasks = r.tasks /\ n.deferred = r.deferred
      /\ n.lastWake = r.lastWake /\ n.ranAt = r.ranAt
  BY <1>2, <1>3 DEF DurableStates
<1> HIDE DEF n
<1>5. Good(n)
  BY <1>1, <1>2, <1>4, SameQueueGood
<1> QED
  BY <1>1, <1>4, <1>5 DEF Agrees, n, o

LEMMA ScheduleGood ==
  ASSUME NEW r, Good(r), NEW enabled \in BOOLEAN
  PROVE  LET n == [r EXCEPT !.schedule = enabled]
         IN /\ Good(n) /\ n.mode = r.mode /\ n.machine = r.machine /\ n.lastWake = r.lastWake
            /\ n.tasks = r.tasks /\ n.deferred = r.deferred
<1> DEFINE n == [r EXCEPT !.schedule = enabled]
<1>1. /\ n \in DurableStates /\ n.mode = r.mode /\ n.machine = r.machine
      /\ n.lastWake = r.lastWake /\ n.tasks = r.tasks /\ n.deferred = r.deferred
      /\ n.ranAt = r.ranAt
  BY DEF Good, DurableStates
<1> HIDE DEF n
<1>2. Good(n)
  BY <1>1, SameQueueGood DEF Good
<1> QED
  BY <1>1, <1>2 DEF n

LEMMA MarkedGood ==
  ASSUME NEW r, Good(r)
  PROVE  LET n == Marked(r)
         IN /\ Good(n) /\ n.mode = r.mode /\ n.machine = r.machine /\ n.lastWake = 0
            /\ n.tasks = r.tasks /\ n.deferred = r.deferred
<1> DEFINE n == Marked(r)
<1>1. /\ n \in DurableStates /\ n.mode = r.mode /\ n.machine = r.machine
      /\ n.lastWake = 0 /\ n.tasks = r.tasks /\ n.deferred = r.deferred
      /\ n.ranAt = r.ranAt
  <2>1. r \in DurableStates /\ 0 \in (-Spacing..0) \cup {NoTime}
    BY DEF Good
  <2> QED
    BY <2>1 DEF Marked, DurableStates
<1> HIDE DEF n
<1>2. Good(n)
  BY <1>1, SameQueueGood DEF Good
<1> QED
  BY <1>1, <1>2 DEF n

LEMMA PoppedGood ==
  ASSUME NEW r, Good(r), r.deferred # <<>>
  PROVE  LET n == Popped(r)
         IN /\ Good(n) /\ n.mode = r.mode /\ n.machine = r.machine /\ n.lastWake = r.lastWake
            /\ n.tasks = r.tasks /\ n.deferred = Tail(r.deferred)
            /\ Head(r.deferred) \in Mentions
<1> DEFINE n == Popped(r)
<1>1. /\ Tail(r.deferred) \in Seq(Mentions) /\ Head(r.deferred) \in Mentions
      /\ Len(Tail(r.deferred)) <= MaxDeferred
  <2>1. r.deferred \in Seq(Mentions) /\ Len(r.deferred) <= MaxDeferred
    BY DEF Good, DurableStates
  <2> QED
    BY <2>1
<1>2. /\ n \in DurableStates /\ n.mode = r.mode /\ n.machine = r.machine
      /\ n.lastWake = r.lastWake /\ n.tasks = r.tasks /\ n.deferred = Tail(r.deferred)
      /\ n.ranAt = r.ranAt
  BY <1>1 DEF Popped, Good, DurableStates
<1> HIDE DEF n
<1>3. Good(n)
  BY <1>1, <1>2, SameQueueGood DEF Good
<1> QED
  BY <1>1, <1>2, <1>3 DEF n

\* The least of some indexes.
LEMMA MinIsLeast ==
  ASSUME NEW I \in SUBSET Nat, IsFiniteSet(I), I # {}
  PROVE  Min(I) \in I /\ \A j \in I : Min(I) <= j
<1> DEFINE x == Nth(I, 1)
<1>1. Cardinality(I) \in Nat /\ Cardinality(I) # 0
  BY FS_CardinalityType, FS_EmptySet
<1>2. x \in I /\ Cardinality({j \in I : j < x}) = 1 - 1
  BY <1>1, NthHasRank
<1>3. IsFiniteSet({j \in I : j < x})
  <2>1. {j \in I : j < x} \in SUBSET I
    OBVIOUS
  <2> QED
    BY <2>1, FS_Subset
<1>4. {j \in I : j < x} = {}
  BY <1>2, <1>3, FS_EmptySet
<1> HIDE DEF x
<1>5. \A j \in I : x =< j
  BY <1>2, <1>4
<1> QED
  BY <1>2, <1>5 DEF Min

\* The first task that may run, and the first that the worker performs.
LEMMA SelectFinds ==
  ASSUME NEW q, q \in Seq(Tasks)
  PROVE  /\ LET i == SelectInSeq(q, Runnable)
            IN IF i = 0 THEN \A j \in DOMAIN q : ~Runnable(q[j])
               ELSE /\ i \in DOMAIN q /\ Runnable(q[i])
                    /\ \A j \in DOMAIN q : j < i => ~Runnable(q[j])
         /\ LET i == SelectInSeq(q, Performs)
            IN i # 0 => i \in DOMAIN q /\ Performs(q[i])
<1> DEFINE I == {i \in 1..Len(q) : Runnable(q[i])}
           J == {i \in 1..Len(q) : Performs(q[i])}
<1>1. /\ SelectInSeq(q, Runnable) = IF I # {} THEN Min(I) ELSE 0
      /\ SelectInSeq(q, Performs) = IF J # {} THEN Min(J) ELSE 0
  BY DEF SelectInSeq
<1>2. /\ IsFiniteSet(1..Len(q)) /\ Len(q) \in Nat /\ DOMAIN q = 1..Len(q)
      /\ I \subseteq 1..Len(q) /\ J \subseteq 1..Len(q)
  BY FS_Interval
<1>3. /\ IsFiniteSet(I) /\ I \in SUBSET Nat /\ 0 \notin I
      /\ IsFiniteSet(J) /\ J \in SUBSET Nat /\ 0 \notin J
  BY <1>2, FS_Subset
<1>4. /\ I # {} => Min(I) \in I /\ \A j \in I : Min(I) <= j
      /\ J # {} => Min(J) \in J
  <2> HIDE DEF I, J
  <2> QED
    BY <1>3, MinIsLeast
<1>5. ASSUME I # {} PROVE \A j \in DOMAIN q : j < Min(I) => ~Runnable(q[j])
  <2>1. \A j \in DOMAIN q : Runnable(q[j]) => j \in I
    BY <1>2
  <2>2. Min(I) \in Int /\ \A j \in I : Min(I) <= j
    BY <1>3, <1>4, <1>5
  <2>3. DOMAIN q \in SUBSET Int
    BY <1>2
  <2> HIDE DEF I
  <2> QED
    BY <2>1, <2>2, <2>3
<1>6. I = {} => \A j \in DOMAIN q : ~Runnable(q[j])
  BY <1>2
<1>7. /\ I # {} => Min(I) \in DOMAIN q /\ Runnable(q[Min(I)]) /\ Min(I) # 0
      /\ J # {} => Min(J) \in DOMAIN q /\ Performs(q[Min(J)])
  BY <1>2, <1>3, <1>4
<1> HIDE DEF I, J
<1> QED
  BY <1>1, <1>5, <1>6, <1>7

\* A task that is marked running leaves the others as they are.
LEMMA StartedTasks ==
  ASSUME NEW q \in Seq(Tasks), NEW i \in DOMAIN q
  PROVE  LET started == [q EXCEPT ![i].status = "running"]
         IN /\ DOMAIN started = DOMAIN q /\ started \in Seq(Tasks)
            /\ \A j \in DOMAIN q :
                 started[j] = IF j = i THEN [q[i] EXCEPT !.status = "running"] ELSE q[j]
<1> DEFINE t == [q[i] EXCEPT !.status = "running"]
<1>1. DOMAIN q = 1 .. Len(q) /\ i \in 1 .. Len(q) /\ q[i] \in Tasks
  BY LenProperties, ElementOfSeq
<1>2. t \in Tasks
  BY <1>1 DEF Tasks
<1> HIDE DEF t
<1>3. /\ [q EXCEPT ![i] = t] \in Seq(Tasks)
      /\ \A j \in 1 .. Len(q) : [q EXCEPT ![i] = t][j] = IF j = i THEN t ELSE q[j]
  BY <1>1, <1>2, ExceptSeq
<1>4. DOMAIN [q EXCEPT ![i] = t] = DOMAIN q
  OBVIOUS
<1> QED
  BY <1>1, <1>3, <1>4 DEF t

LEMMA ClaimedGood ==
  ASSUME NEW r, Good(r), SelectInSeq(r.tasks, Runnable) # 0
  PROVE  LET n == Claimed(r)
             t == r.tasks[SelectInSeq(r.tasks, Runnable)]
         IN /\ Good(n) /\ n.mode = r.mode /\ n.machine = r.machine
            /\ n.lastWake = r.lastWake /\ n.deferred = r.deferred
            /\ From(n.tasks, r.tasks)
            /\ t \in Tasks /\ Payload(t.kind, t.mention)
            /\ t.kind \in Sleeping => IsReady(r, t.kind)
<1> DEFINE i == SelectInSeq(r.tasks, Runnable)
           started == [r.tasks EXCEPT ![i].status = "running"]
           I == {j \in DOMAIN started : j >= i \/ IsRunning(started[j])}
           q == Picked(started, I)
           n == Claimed(r)
<1>1. r \in DurableStates /\ r.tasks \in Seq(Tasks) /\ Payloads(r) /\ Cooled(r)
  BY DEF Good, DurableStates
<1>2. i \in DOMAIN r.tasks /\ Runnable(r.tasks[i])
  BY <1>1, SelectFinds
<1>3. r.tasks[i] \in Tasks /\ IsQueued(r.tasks[i])
  BY <1>1, <1>2 DEF Runnable
<1> HIDE DEF i
<1>4. /\ DOMAIN started = DOMAIN r.tasks /\ started \in Seq(Tasks)
      /\ \A j \in DOMAIN r.tasks :
           started[j] = IF j = i THEN [r.tasks[i] EXCEPT !.status = "running"] ELSE r.tasks[j]
  BY <1>1, <1>2, StartedTasks
<1>5. \A j \in DOMAIN r.tasks :
        /\ started[j].kind = r.tasks[j].kind /\ started[j].mention = r.tasks[j].mention
        /\ IsQueued(started[j]) => j # i /\ IsQueued(r.tasks[j])
  BY <1>1, <1>3, <1>4 DEF Tasks, IsQueued
<1> HIDE DEF started
<1>6. I \in SUBSET (DOMAIN started)
  OBVIOUS
<1> HIDE DEF I
<1>7. /\ q \in Seq(Tasks)
      /\ \A k \in DOMAIN q : Nth(I, k) \in I /\ q[k] = started[Nth(I, k)]
      /\ \A k, l \in DOMAIN q : k # l => Nth(I, k) # Nth(I, l)
  BY <1>4, <1>6, PickedIsSeq
<1>8. n = [r EXCEPT !.tasks = q,
                    !.ranAt = [k \in DOMAIN r.ranAt |-> IF k = r.tasks[i].kind THEN 0 ELSE r.ranAt[k]]]
  BY <1>1 DEF Claimed, i, started, I, DurableStates
<1> HIDE DEF q, n
<1>9. [k \in DOMAIN r.ranAt |-> IF k = r.tasks[i].kind THEN 0 ELSE r.ranAt[k]]
        \in [Sleeping -> (-Cooldown..0) \cup {NoTime}]
  <2>1. r.ranAt \in [Sleeping -> (-Cooldown..0) \cup {NoTime}]
    BY <1>1 DEF DurableStates, Sleeping
  <2>2. 0 \in -Cooldown..0
    OBVIOUS
  <2> QED
    BY <2>1, <2>2
<1>10. /\ n \in DurableStates /\ n.mode = r.mode /\ n.machine = r.machine
       /\ n.lastWake = r.lastWake /\ n.deferred = r.deferred /\ n.tasks = q
       /\ \A k \in Sleeping : k # r.tasks[i].kind => n.ranAt[k] = r.ranAt[k]
  BY <1>1, <1>7, <1>8, <1>9 DEF DurableStates, Sleeping
<1> DEFINE f == [k \in DOMAIN q |-> Nth(I, k)]
<1>11. /\ f \in [DOMAIN q -> DOMAIN r.tasks]
       /\ \A k, l \in DOMAIN q : f[k] = f[l] => k = l
       /\ \A k \in DOMAIN q :
            /\ q[k].kind = r.tasks[f[k]].kind /\ q[k].mention = r.tasks[f[k]].mention
            /\ IsQueued(q[k]) => f[k] # i /\ IsQueued(r.tasks[f[k]])
  <2>1. \A k \in DOMAIN q : Nth(I, k) \in DOMAIN r.tasks /\ f[k] = Nth(I, k)
    BY <1>4, <1>6, <1>7
  <2>2. f \in [DOMAIN q -> DOMAIN r.tasks]
    BY <2>1
  <2> HIDE DEF f
  <2>3. \A k \in DOMAIN q : f[k] \in DOMAIN r.tasks /\ q[k] = started[f[k]]
    BY <1>7, <2>1
  <2>4. \A k, l \in DOMAIN q : f[k] = f[l] => k = l
    BY <1>7, <2>1
  <2> QED
    BY <1>5, <2>2, <2>3, <2>4
<1> HIDE DEF f
<1>12. From(n.tasks, r.tasks)
  BY <1>7, <1>10, <1>11 DEF From
\* A queued task of the kind that starts would have to be the one that starts.
<1>13. \A k \in DOMAIN q : q[k].kind \in Sleeping /\ IsQueued(q[k]) => q[k].kind # r.tasks[i].kind
  BY <1>1, <1>2, <1>11 DEF Cooled
<1>14. \A k \in DOMAIN n.tasks :
         n.tasks[k].kind \in Sleeping /\ IsQueued(n.tasks[k]) /\ IsReady(r, n.tasks[k].kind)
           => IsReady(n, n.tasks[k].kind)
  BY <1>10, <1>13 DEF IsReady
<1>15. Payloads(n) /\ Cooled(n)
  BY <1>1, <1>12, <1>14, FromKeeps
<1>16. Good(n)
  BY <1>10, <1>15 DEF Good
<1>17. Payload(r.tasks[i].kind, r.tasks[i].mention)
       /\ (r.tasks[i].kind \in Sleeping => IsReady(r, r.tasks[i].kind))
  BY <1>1, <1>2, <1>3 DEF Payloads, Cooled
<1> QED
  BY <1>3, <1>10, <1>12, <1>16, <1>17 DEF n, i

\* Fewer tasks, and nothing else that Good speaks of but the machine.
LEMMA FewerGood ==
  ASSUME NEW r, Good(r), NEW I \in SUBSET (DOMAIN r.tasks),
         NEW n \in DurableStates, Sound(n.machine, 0), n.tasks = Picked(r.tasks, I),
         n.deferred = r.deferred, n.ranAt = r.ranAt
  PROVE  Good(n) /\ From(n.tasks, r.tasks)
<1>1. r.tasks \in Seq(Tasks) /\ Payloads(r) /\ Cooled(r) /\ Len(r.deferred) <= MaxDeferred
  BY DEF Good, DurableStates
<1>2. From(n.tasks, r.tasks)
  BY <1>1, PickedIsFrom
<1>3. \A k \in DOMAIN n.tasks :
        n.tasks[k].kind \in Sleeping /\ IsQueued(n.tasks[k]) /\ IsReady(r, n.tasks[k].kind)
          => IsReady(n, n.tasks[k].kind)
  BY DEF IsReady
<1>4. Payloads(n) /\ Cooled(n)
  BY <1>1, <1>2, <1>3, FromKeeps
<1> QED
  BY <1>1, <1>2, <1>4 DEF Good

\* What finish leaves: the machine may go to sleep.
LEMMA WithoutGood ==
  ASSUME NEW r, Good(r), NEW i
  PROVE  LET n == Without(r, i)
         IN /\ Good(n) /\ n.mode = r.mode /\ n.lastWake = r.lastWake
            /\ n.deferred = r.deferred /\ From(n.tasks, r.tasks)
            /\ n.tasks = Picked(r.tasks, DOMAIN r.tasks \ {i})
            /\ SamePause(r.machine, n.machine)
            /\ \A b \in Nat : Worked(r.machine, b) => Worked(n.machine, b)
<1> DEFINE I == DOMAIN r.tasks \ {i}
           left == Picked(r.tasks, I)
           slept == Apply(Recover(r.machine, 0), Trigger("queue_empty"), 0)
           m == IF left = <<>> THEN slept ELSE r.machine
           n == Without(r, i)
<1>1. r \in DurableStates /\ Sound(r.machine, 0) /\ r.machine \in Snapshots
  BY DEF Good, Sound
<1>2. n = [r EXCEPT !.tasks = left, !.machine = m]
  BY <1>1 DEF Without, DurableStates
<1>3. /\ Sound(slept, 0) /\ SamePause(r.machine, slept)
      /\ \A b \in Nat : Worked(slept, b)
  <2> DEFINE k == Recover(r.machine, 0)
  <2>1. Sound(k, 0) /\ SamePause(r.machine, k) /\ k \in Snapshots
    BY <1>1, RecoveredIsLive DEF Sound
  <2>2. "queue_empty" \in Inputs
    BY DEF Inputs
  <2> HIDE DEF k
  <2>3. Sound(Apply(k, Trigger("queue_empty"), 0), 0)
        /\ SamePause(k, Apply(k, Trigger("queue_empty"), 0))
    BY <2>1, <2>2, InputsKeepPace
  <2>4. ~IsWorking(Apply(k, Trigger("queue_empty"), 0))
    BY <2>1 DEF Apply, Advance, Trigger, Halts, IsWorking, WorkingStates, SleepClear, Snapshots
  <2> QED
    BY <2>1, <2>3, <2>4 DEF SamePause, Worked, k
<1> HIDE DEF slept
<1>4. Sound(m, 0) /\ SamePause(r.machine, m)
      /\ \A b \in Nat : Worked(r.machine, b) => Worked(m, b)
  BY <1>1, <1>3 DEF SamePause
<1>5. I \in SUBSET (DOMAIN r.tasks)
  OBVIOUS
<1>6. left \in Seq(Tasks) /\ m \in Snapshots
  BY <1>1, <1>4, <1>5, PickedIsFrom DEF From, Good, DurableStates, Sound
<1> HIDE DEF m, n, left, I
<1>7. /\ n \in DurableStates /\ n.mode = r.mode /\ n.machine = m /\ n.lastWake = r.lastWake
      /\ n.deferred = r.deferred /\ n.tasks = left /\ n.ranAt = r.ranAt
  BY <1>1, <1>2, <1>6 DEF DurableStates
<1>8. Good(n) /\ From(n.tasks, r.tasks)
  BY <1>4, <1>5, <1>7, FewerGood DEF left
<1> QED
  BY <1>4, <1>7, <1>8 DEF n, I, left

\* Time runs: what was ready stays ready, a lease nears its end.
LEMMA AgedGood ==
  ASSUME NEW r, Good(r)
  PROVE  LET n == Aged(r)
         IN /\ Good(n) /\ n.mode = r.mode /\ n.lastWake = Older(r.lastWake, Spacing)
            /\ n.deferred = r.deferred /\ From(n.tasks, r.tasks)
            /\ DOMAIN n.tasks = DOMAIN r.tasks
            /\ \A i \in DOMAIN r.tasks : /\ n.tasks[i].kind = r.tasks[i].kind
                                         /\ n.tasks[i].mention = r.tasks[i].mention
                                         /\ n.tasks[i].status = r.tasks[i].status
            /\ SamePause(r.machine, n.machine)
            /\ \A b \in Nat : Worked(r.machine, b) => Worked(n.machine, b)
<1> DEFINE old == r.machine
           l == IF old.lease = NoLease THEN old.lease ELSE Shortened(old.lease)
           m == [old EXCEPT !.lease = l, !.quietUntil = Sooner(@)]
           q == [i \in DOMAIN r.tasks |-> Shortened(r.tasks[i])]
           w == Older(r.lastWake, Spacing)
           a == [k \in DOMAIN r.ranAt |-> Older(r.ranAt[k], Cooldown)]
           n == Aged(r)
<1>1. /\ r \in DurableStates /\ r.tasks \in Seq(Tasks) /\ Payloads(r) /\ Cooled(r)
      /\ Sound(old, 0) /\ old \in Snapshots
  BY DEF Good, DurableStates, Sound
<1>2. \A x \in Int : Sooner(x) \in Int /\ (\A y \in Nat : x <= y => Sooner(x) <= y)
  BY DEF Sooner
<1>3. /\ l \in Leases \cup {NoLease} /\ (l = NoLease <=> old.lease = NoLease)
      /\ l # NoLease => /\ l.id = old.lease.id /\ l.state = old.lease.state
                        /\ l.steps = old.lease.steps /\ l.expires <= 0 + LeaseSecs
  <2>1. CASE old.lease = NoLease
    BY <2>1
  <2>2. CASE old.lease # NoLease
    <3>1. old.lease \in Leases /\ old.lease.expires <= LeaseSecs
      BY <1>1, <2>2 DEF Sound, Snapshots
    <3>2. l = [old.lease EXCEPT !.expires = Sooner(@)]
      BY <2>2 DEF Shortened
    <3>3. l \in Leases /\ l.id = old.lease.id /\ l.state = old.lease.state
          /\ l.steps = old.lease.steps /\ l.expires = Sooner(old.lease.expires)
      BY <1>2, <3>1, <3>2 DEF Leases
    <3>4. old.lease.expires \in Int
      BY <3>1 DEF Leases
    <3> QED
      BY <1>2, <2>2, <3>1, <3>3, <3>4
  <2> QED
    BY <2>1, <2>2
<1> HIDE DEF l
<1>4. /\ m \in Snapshots /\ m.state = old.state /\ m.lease = l /\ m.nextId = old.nextId
  BY <1>1, <1>2, <1>3 DEF Snapshots
<1>5. Sound(m, 0) /\ SamePause(old, m) /\ \A b \in Nat : Worked(old, b) => Worked(m, b)
  BY <1>1, <1>3, <1>4 DEF Sound, SamePause, Worked, IsWorking, WorkingStates
<1>6. /\ q \in Seq(Tasks) /\ DOMAIN q = DOMAIN r.tasks
      /\ \A i \in DOMAIN r.tasks : /\ q[i].kind = r.tasks[i].kind
                                   /\ q[i].mention = r.tasks[i].mention
                                   /\ q[i].status = r.tasks[i].status
  <2>1. \A i \in DOMAIN r.tasks :
          /\ q[i] \in Tasks /\ q[i].kind = r.tasks[i].kind
          /\ q[i].mention = r.tasks[i].mention /\ q[i].status = r.tasks[i].status
    <3> TAKE i \in DOMAIN r.tasks
    <3>1. r.tasks[i] \in Tasks
      BY <1>1
    <3>2. Sooner(r.tasks[i].expires) \in 0..ProposalSecs
      BY <3>1 DEF Sooner, Tasks
    <3> QED
      BY <3>1, <3>2 DEF Tasks, Shortened
  <2>2. DOMAIN r.tasks = 1..Len(r.tasks) /\ Len(r.tasks) \in Nat /\ DOMAIN q = DOMAIN r.tasks
    BY <1>1
  <2>3. q = [i \in 1..Len(r.tasks) |-> q[i]]
    BY <2>2
  <2>4. \A i \in 1..Len(r.tasks) : q[i] \in Tasks
    BY <2>1, <2>2
  <2> HIDE DEF q
  <2>5. [i \in 1..Len(r.tasks) |-> q[i]] \in Seq(Tasks)
    BY <2>2, <2>4
  <2>6. q \in Seq(Tasks)
    BY <2>3, <2>5
  <2> QED
    BY <2>1, <2>2, <2>6
<1>7. /\ w \in (-Spacing..0) \cup {NoTime}
      /\ a \in [Sleeping -> (-Cooldown..0) \cup {NoTime}]
      /\ \A k \in Sleeping : a[k] = Older(r.ranAt[k], Cooldown)
  <2>1. \A z \in Nat : \A x \in (-z..0) \cup {NoTime} : Older(x, z) \in (-z..0) \cup {NoTime}
    BY DEF Older
  <2>2. /\ r.lastWake \in (-Spacing..0) \cup {NoTime}
        /\ r.ranAt \in [Sleeping -> (-Cooldown..0) \cup {NoTime}]
    BY <1>1 DEF DurableStates, Sleeping
  <2> QED
    BY <2>1, <2>2
<1>8. n = [r EXCEPT !.machine = m, !.tasks = q, !.lastWake = w, !.ranAt = a]
  <2>1. n = [r EXCEPT !.machine.lease = l, !.machine.quietUntil = Sooner(@), !.tasks = q,
                      !.lastWake = w, !.ranAt = a]
    BY DEF Aged, l
  <2>2. m = [[old EXCEPT !.lease = l] EXCEPT !.quietUntil = Sooner(@)]
    BY <1>1 DEF Snapshots
  <2> HIDE DEF q, w, a, n
  <2> QED
    BY <1>1, <2>1, <2>2 DEF DurableStates, Snapshots
<1> HIDE DEF m, q, w, a, n
<1>9. /\ n \in DurableStates /\ n.mode = r.mode /\ n.lastWake = w /\ n.deferred = r.deferred
      /\ n.machine = m /\ n.tasks = q /\ n.ranAt = a
  BY <1>1, <1>4, <1>6, <1>7, <1>8 DEF DurableStates, Sleeping
<1>10. From(q, r.tasks)
  <2> DEFINE f == [k \in DOMAIN q |-> k]
  <2>1. f \in [DOMAIN q -> DOMAIN r.tasks] /\ \A k \in DOMAIN q : f[k] = k
    BY <1>6
  <2> HIDE DEF f
  <2> QED
    BY <1>6, <2>1 DEF From, IsQueued
<1>11. \A k \in Sleeping : IsReady(r, k) => IsReady(n, k)
  <2>1. r.ranAt \in [Sleeping -> (-Cooldown..0) \cup {NoTime}]
    BY <1>1 DEF DurableStates, Sleeping
  <2> TAKE k \in Sleeping
  <2>2. r.ranAt[k] = NoTime \/ r.ranAt[k] \in -Cooldown..0
    BY <2>1
  <2>3. IsReady(r, k) => a[k] = r.ranAt[k]
    BY <1>7, <2>2 DEF IsReady, Older
  <2> QED
    BY <1>9, <2>3 DEF IsReady
<1>12. Payloads(n) /\ Cooled(n)
  <2>1. From(n.tasks, r.tasks)
    BY <1>9, <1>10
  <2>2. \A k \in DOMAIN n.tasks :
          n.tasks[k].kind \in Sleeping /\ IsQueued(n.tasks[k]) /\ IsReady(r, n.tasks[k].kind)
            => IsReady(n, n.tasks[k].kind)
    BY <1>11
  <2> HIDE <1>11
  <2> QED
    BY <1>1, <2>1, <2>2, FromKeeps
<1> QED
  BY <1>1, <1>5, <1>6, <1>9, <1>10, <1>12 DEF Good, n, w

\* What the machine is when the worker asks it.
LEMMA MetIsSound ==
  ASSUME Sound(rt.machine, 0), overBudget \in BOOLEAN
  PROVE  /\ Sound(Met, 0) /\ SamePause(rt.machine, Met)
         /\ \A b \in Nat : Worked(rt.machine, b) => Worked(Met, IF IsWorking(Met) THEN b ELSE 0)
         /\ NeedsLease(worker.kind) => Met.state # "awake"
<1> DEFINE m == Synced(rt)
           n == Apply(m, Trigger("process_input"), 0)
<1>1. Paced(rt.machine, m, m)
  BY SyncedIsPaced
<1>2. /\ Paced(rt.machine, m, n) /\ n.state # "awake" /\ (IsWorking(n) <=> IsWorking(m))
  <2>1. "process_input" \in Inputs
    BY DEF Inputs
  <2> QED
    BY <2>1, InputIsPaced
<1>3. Met = IF NeedsLease(worker.kind) THEN n ELSE m
  BY DEF Met
<1> HIDE DEF m, n
<1> QED
  BY <1>1, <1>2, <1>3 DEF Paced

LEMMA DeferStaysShort ==
  ASSUME NEW pen \in Seq(Mentions), Len(pen) <= MaxDeferred, NEW mention \in Mentions
  PROVE  /\ Defer(pen, mention) \in Seq(Mentions) /\ Len(Defer(pen, mention)) <= MaxDeferred
<1> DEFINE longer == Append(pen, mention)
<1>1. longer \in Seq(Mentions) /\ Len(longer) = Len(pen) + 1 /\ Len(pen) \in Nat
  OBVIOUS
<1>2. Len(longer) > MaxDeferred => Tail(longer) \in Seq(Mentions) /\ Len(Tail(longer)) = Len(pen)
  <2> HIDE DEF longer
  <2>1. longer # <<>>
    BY <1>1
  <2> QED
    BY <1>1, <2>1
<1> QED
  BY <1>1, <1>2 DEF Defer

Skipped ==
  [rt EXCEPT
    !.machine = Met,
    !.lastWake = IF worker.kind = "wake" THEN NoTime ELSE @,
    !.deferred = IF worker.kind = "mention" THEN Defer(@, worker.mention) ELSE @]

LEMMA SkippedGood ==
  ASSUME Good(rt), overBudget \in BOOLEAN, Payload(worker.kind, worker.mention),
         worker.mention \in Mentions \cup {NoMention}
  PROVE  /\ Good(Skipped) /\ Skipped.mode = rt.mode /\ Skipped.machine = Met
         /\ Skipped.tasks = rt.tasks
         /\ Skipped.lastWake = IF worker.kind = "wake" THEN NoTime ELSE rt.lastWake
         /\ Skipped.deferred = IF worker.kind = "mention"
                               THEN Defer(rt.deferred, worker.mention) ELSE rt.deferred
<1> DEFINE d == IF worker.kind = "mention" THEN Defer(rt.deferred, worker.mention) ELSE rt.deferred
           w == IF worker.kind = "wake" THEN NoTime ELSE rt.lastWake
<1>1. /\ rt \in DurableStates /\ rt.deferred \in Seq(Mentions) /\ Len(rt.deferred) <= MaxDeferred
      /\ rt.lastWake \in (-Spacing..0) \cup {NoTime} /\ Sound(rt.machine, 0)
  BY DEF Good, DurableStates
<1>2. d \in Seq(Mentions) /\ Len(d) <= MaxDeferred
  BY <1>1, DeferStaysShort DEF Payload
<1>3. w \in (-Spacing..0) \cup {NoTime}
  BY <1>1
<1>4. Sound(Met, 0) /\ Met \in Snapshots
  BY <1>1, MetIsSound DEF Sound
<1>5. Skipped = [rt EXCEPT !.machine = Met, !.lastWake = w, !.deferred = d]
  BY DEF Skipped
<1> HIDE DEF d, w
<1>6. /\ Skipped \in DurableStates /\ Skipped.mode = rt.mode /\ Skipped.machine = Met
      /\ Skipped.tasks = rt.tasks /\ Skipped.ranAt = rt.ranAt
      /\ Skipped.lastWake = w /\ Skipped.deferred = d
  BY <1>1, <1>2, <1>3, <1>4, <1>5 DEF DurableStates
<1>7. Good(Skipped)
  BY <1>2, <1>4, <1>6, SameQueueGood
<1> QED
  BY <1>6, <1>7 DEF d, w

\* A step of the lease for a consideration of the burst.
LEMMA StepIsWorked ==
  ASSUME NEW m, Sound(m, 0), IsWorking(m), HasLiveLease(m, 0), m.state # "awake",
         NEW b \in Nat, Worked(m, b)
  PROVE  /\ Worked(RecordStep(m, 0), b + 1) /\ SamePause(m, RecordStep(m, 0))
         /\ b + 1 <= LeaseSteps
<1>1. m \in Snapshots /\ m.lease \in Leases /\ m.lease # NoLease /\ m.lease.steps \in Nat
      /\ m.lease.steps < LeaseSteps /\ b <= m.lease.steps
  BY DEF Sound, Snapshots, Leases, HasLiveLease, IsExpired, Worked
<1>2. RecordStep(m, 0).state = m.state /\ RecordStep(m, 0).lease.steps = m.lease.steps + 1
  BY <1>1 DEF RecordStep, Snapshots, Leases
<1> QED
  BY <1>1, <1>2 DEF Worked, SamePause

Proceeded ==
  [rt EXCEPT
    !.machine = IF worker.kind = "mention" THEN RecordStep(Met, 0) ELSE Met,
    !.tasks = IF worker.kind = "wake" /\ rt.mode = "asleep"
              THEN @ \o Proposals(rt) ELSE @]

LEMMA ProceededGood ==
  ASSUME Good(rt), overBudget \in BOOLEAN
  PROVE  /\ Good(Proceeded) /\ Proceeded.mode = rt.mode
         /\ Proceeded.machine = IF worker.kind = "mention" THEN RecordStep(Met, 0) ELSE Met
         /\ Proceeded.tasks = IF worker.kind = "wake" /\ rt.mode = "asleep"
                              THEN rt.tasks \o Proposals(rt) ELSE rt.tasks
         /\ Proceeded.lastWake = rt.lastWake /\ Proceeded.deferred = rt.deferred
         /\ DOMAIN rt.tasks \subseteq DOMAIN Proceeded.tasks
         /\ \A i \in DOMAIN rt.tasks : Proceeded.tasks[i] = rt.tasks[i]
         /\ \A i \in DOMAIN Proceeded.tasks \ DOMAIN rt.tasks :
              Proceeded.tasks[i].mention = NoMention
<1> DEFINE m == IF worker.kind = "mention" THEN RecordStep(Met, 0) ELSE Met
           q == IF worker.kind = "wake" /\ rt.mode = "asleep"
                THEN rt.tasks \o Proposals(rt) ELSE rt.tasks
<1>1. /\ rt \in DurableStates /\ Len(rt.deferred) <= MaxDeferred /\ Sound(rt.machine, 0)
      /\ rt.tasks \in Seq(Tasks) /\ Payloads(rt) /\ Cooled(rt)
  BY DEF Good, DurableStates
<1>2. Sound(m, 0) /\ m \in Snapshots
  BY <1>1, MetIsSound, RecordStepSound DEF Sound
<1>3. Proceeded = [rt EXCEPT !.machine = m, !.tasks = q]
  BY DEF Proceeded
<1>4. /\ Proceeded.tasks = q /\ Proceeded.ranAt = rt.ranAt /\ Proceeded.machine = m
      /\ Proceeded.mode = rt.mode /\ Proceeded.lastWake = rt.lastWake
      /\ Proceeded.deferred = rt.deferred /\ Proceeded.schedule = rt.schedule
  <2> HIDE DEF m, q
  <2> QED
    BY <1>1, <1>3 DEF DurableStates
<1>5. /\ Proceeded.tasks \in Seq(Tasks) /\ Payloads(Proceeded) /\ Cooled(Proceeded)
      /\ DOMAIN rt.tasks \subseteq DOMAIN Proceeded.tasks
      /\ \A i \in DOMAIN rt.tasks : Proceeded.tasks[i] = rt.tasks[i]
      /\ \A i \in DOMAIN Proceeded.tasks \ DOMAIN rt.tasks :
           Proceeded.tasks[i].mention = NoMention
  <2>1. CASE worker.kind = "wake" /\ rt.mode = "asleep"
    <3>1. Proceeded.tasks = rt.tasks \o Proposals(rt)
      BY <1>4, <2>1
    <3> QED
      BY <1>1, <1>4, <3>1, ProposalsKeep
  <2>2. CASE ~(worker.kind = "wake" /\ rt.mode = "asleep")
    <3>1. Proceeded.tasks = rt.tasks
      BY <1>4, <2>2
    <3> HIDE DEF m
    <3> QED
      BY <1>1, <1>4, <3>1 DEF Payloads, Cooled, IsReady
  <2> QED
    BY <2>1, <2>2
<1>6. Proceeded \in DurableStates
  <2> HIDE DEF m
  <2>1. q \in Seq(Tasks)
    BY <1>4, <1>5
  <2> HIDE DEF q
  <2> QED
    BY <1>1, <1>2, <1>3, <2>1 DEF DurableStates
<1> QED
  BY <1>1, <1>2, <1>4, <1>5, <1>6 DEF Good

\* open, on what the file holds.
LEMMA RestartedGood ==
  ASSUME NEW r, Good(r), overBudget \in BOOLEAN
  PROVE  LET n == [r EXCEPT !.machine = Synced(r)]
         IN /\ Good(n) /\ n.mode = r.mode /\ n.machine = Synced(r) /\ n.lastWake = r.lastWake
            /\ n.tasks = r.tasks /\ n.deferred = r.deferred
<1> DEFINE m == Synced(r)
           n == [r EXCEPT !.machine = m]
<1>1. r \in DurableStates /\ Len(r.deferred) <= MaxDeferred
  BY DEF Good
<1>2. Sound(m, 0) /\ m \in Snapshots
  BY SyncedIsLive DEF Good, Sound
<1> HIDE DEF m
<1>3. /\ n \in DurableStates /\ n.mode = r.mode /\ n.machine = m /\ n.lastWake = r.lastWake
      /\ n.tasks = r.tasks /\ n.deferred = r.deferred /\ n.ranAt = r.ranAt
  BY <1>1, <1>2 DEF DurableStates
<1> HIDE DEF n
<1>4. Good(n)
  BY <1>1, <1>2, <1>3, SameQueueGood
<1> QED
  BY <1>3, <1>4 DEF n, m

-----------------------------------------------------------------------------
(* Every step keeps the invariant.                                         *)

LEMMA SaveMoves ==
  ASSUME NEW n, Save(n), BoundsOK, UNCHANGED workload
  PROVE  /\ rt' = n /\ saved' \in {saved, n}
         /\ failures' \in 0..workload.failures
         /\ workload.failures = 0 => saved' = n /\ ~SaveFailed
<1>1. workload.failures \in Nat
  BY DEF BoundsOK, WorkloadOK
<1> QED
  BY <1>1 DEF Save, BoundsOK, SaveFailed

LEMMA EnqueueMoves ==
  ASSUME NEW kind, NEW mention, Enqueue(kind, mention), BoundsOK, UNCHANGED workload
  PROVE  /\ rt' = Enqueued(rt, kind, mention) /\ saved' \in {saved, rt'}
         /\ failures' \in 0..workload.failures
         /\ workload.failures = 0 => saved' = rt' /\ ~SaveFailed
         /\ worker' \in {worker, Idle} /\ permit' \in {permit, TRUE}
<1>1. Save(Enqueued(rt, kind, mention))
  BY DEF Enqueue
<1>2. worker' \in {worker, Idle} /\ permit' \in {permit, TRUE}
  BY DEF Enqueue, NotifyOne
<1> QED
  BY <1>1, <1>2, SaveMoves

LEMMA IdleOK ==
  /\ Idle \in [at : {"idle", "parking", "waiting", "claimed", "deciding",
                     "cleared", "calling", "finishing"},
               kind : TaskKinds, mention : Mentions \cup {NoMention}, model : BOOLEAN]
  /\ Idle.at = "idle" /\ Idle.kind = "read" /\ Idle.mention = NoMention
  /\ Payload(Idle.kind, Idle.mention)
  BY DEF Idle, TaskKinds, Payload

LEMMA RestingOK ==
  /\ {Ticking, Resting} \subseteq [at : {"sleeping", "ticking", "waking", "marking", "retrying",
                                         "requeueing"},
                                   held : Mentions \cup {NoMention}]
  /\ Ticking.at = "ticking" /\ Resting.at \in {"sleeping", "ticking"}
  /\ Ticking.held = NoMention /\ Resting.held = NoMention
  BY DEF Ticking, Resting

LEMMA SleptIsNat ==
  ASSUME burst \in Nat, NEW m
  PROVE  Slept(m) \in Nat
  BY DEF Slept

LEMMA InitKeeps == Init => RuntimeInv
<1> SUFFICES ASSUME Init
             PROVE  RuntimeInv
  OBVIOUS
<1>1. /\ workload \in Workloads /\ workload.schedule \in BOOLEAN
      /\ workload.crashes \in Nat /\ workload.failures \in Nat
  BY DEF Init, WorkloadOK
<1>2. Sound(Fresh, 0) /\ Fresh \in Snapshots
  BY DEF Sound, Fresh, Snapshots, States, WorkingStates, IsWorking, NoState
<1>3. /\ rt.mode = InitialMode /\ rt.machine = Fresh /\ rt.tasks = <<>> /\ rt.lastWake = NoTime
      /\ rt.deferred = <<>> /\ rt.schedule = workload.schedule
      /\ rt.ranAt = [k \in ToSet(SleepKinds) |-> NoTime]
  BY DEF Init
<1>4. rt \in DurableStates
  <2>1. rt.tasks \in Seq(Tasks) /\ rt.deferred \in Seq(Mentions)
    BY <1>3
  <2>2. rt.ranAt \in [ToSet(SleepKinds) -> (-Cooldown..0) \cup {NoTime}]
    BY <1>3
  <2>3. rt = [mode |-> rt.mode, machine |-> rt.machine, tasks |-> rt.tasks,
              lastWake |-> rt.lastWake, deferred |-> rt.deferred, schedule |-> rt.schedule,
              ranAt |-> rt.ranAt]
    BY DEF Init
  <2> QED
    BY <1>1, <1>2, <1>3, <2>1, <2>2, <2>3 DEF DurableStates
<1>5. Payloads(rt) /\ Cooled(rt) /\ Len(rt.deferred) <= MaxDeferred
  BY <1>3 DEF Payloads, Cooled
<1>6. Good(rt)
  BY <1>2, <1>3, <1>4, <1>5 DEF Good
<1>7. WorkerOK
  BY IdleOK DEF Init, WorkerOK
<1>8. SchedulerOK
  BY RestingOK DEF Init, SchedulerOK
<1>9. RecordOK
  <2>1. Spacing \in 0..(Spacing + 1)
    OBVIOUS
  <2> QED
    BY <2>1 DEF Init, RecordOK, Owed
<1>10. BoundsOK
  BY <1>1 DEF Init, BoundsOK
<1> QED
  BY <1>6, <1>7, <1>8, <1>9, <1>10 DEF RuntimeInv, Init

LEMMA StepKeeps == RuntimeInv /\ [Next]_vars => RuntimeInv'
<1> SUFFICES ASSUME RuntimeInv, [Next]_vars
             PROVE  RuntimeInv'
  OBVIOUS
<1>1. /\ Good(rt) /\ Good(saved) /\ WorkerOK /\ SchedulerOK /\ RecordOK /\ BoundsOK
      /\ overBudget \in BOOLEAN /\ burst \in Nat /\ permit \in BOOLEAN /\ sinceWake \in 0..Owed
      /\ fate \in [Mentions ->
           {"new", "waiting", "dropped", "refused", "failed", "deliberated"}]
  BY DEF RuntimeInv, RecordOK
<1>2. /\ workload.tasks \subseteq {"wake", "read"} /\ workload.modes \subseteq Modes
      /\ workload.settings \subseteq BOOLEAN /\ workload.readings \subseteq BOOLEAN
      /\ workload.crashes \in Nat /\ workload.failures \in Nat
  BY <1>1 DEF BoundsOK, WorkloadOK
<1>3. worker' \in {worker, Idle} => WorkerOK'
  BY <1>1, IdleOK DEF WorkerOK
<1>4. scheduler' \in {scheduler, Ticking, Resting} => SchedulerOK'
  BY <1>1, RestingOK DEF SchedulerOK
<1>5. \A m : Slept(m) \in Nat
  BY <1>1, SleptIsNat
<1>6. permit' \in {permit, TRUE, FALSE} => permit' \in BOOLEAN
  BY <1>1
<1>7. sinceWake' \in {sinceWake, 0, Owed} => sinceWake' \in 0..Owed
  BY <1>1 DEF Owed
<1>8. /\ workload' = workload /\ crashes' = crashes /\ failures' \in 0..workload.failures
        => BoundsOK'
  BY <1>1 DEF BoundsOK
<1>9. UNCHANGED disk => saved' = saved /\ failures' \in 0..workload.failures
  BY <1>1 DEF disk, BoundsOK
<1>10. ASSUME UNCHANGED vars PROVE RuntimeInv'
  <2>1. UNCHANGED <<rt, disk, worker, permit, scheduler, overBudget, fate, sinceWake, burst,
                    crashes, workload>>
    BY <1>10 DEF vars, disk
  <2> QED
    BY <1>1, <1>3, <1>4, <1>8, <1>9, <2>1 DEF RuntimeInv, RecordOK
<1>11. ASSUME NEW m \in Mentions, PostMention(m), UNCHANGED workload PROVE RuntimeInv'
  <2>1. Enqueue("mention", m) /\ UNCHANGED <<scheduler, overBudget, sinceWake, crashes>>
        /\ burst' = Slept(Synced(rt)) /\ fate' = [fate EXCEPT ![m] = "waiting"]
    BY <1>11 DEF PostMention
  <2>2. Payload("mention", m)
    BY DEF Payload
  <2>3. /\ rt' = Enqueued(rt, "mention", m) /\ saved' \in {saved, rt'}
        /\ failures' \in 0..workload.failures
        /\ worker' \in {worker, Idle} /\ permit' \in {permit, TRUE}
    BY <1>1, <1>11, <2>1, EnqueueMoves
  <2>4. Good(rt') /\ Good(saved')
    BY <1>1, <2>2, <2>3, EnqueuedGood
  <2>5. RecordOK'
    BY <1>1, <1>5, <1>6, <2>1, <2>3 DEF RecordOK
  <2> QED
    BY <1>3, <1>4, <1>8, <1>11, <2>1, <2>3, <2>4, <2>5 DEF RuntimeInv
<1>12. ASSUME NEW kind \in workload.tasks, PostTask(kind), UNCHANGED workload PROVE RuntimeInv'
  <2>1. Enqueue(kind, NoMention) /\ UNCHANGED <<scheduler, overBudget, fate, sinceWake, crashes>>
        /\ burst' = Slept(Synced(rt)) /\ kind \in {"wake", "read"}
    BY <1>2, <1>12 DEF PostTask
  <2>2. Payload(kind, NoMention)
    BY <2>1 DEF Payload
  <2>3. /\ rt' = Enqueued(rt, kind, NoMention) /\ saved' \in {saved, rt'}
        /\ failures' \in 0..workload.failures
        /\ worker' \in {worker, Idle} /\ permit' \in {permit, TRUE}
    BY <1>1, <1>12, <2>1, EnqueueMoves
  <2>4. Good(rt') /\ Good(saved')
    BY <1>1, <2>1, <2>2, <2>3, EnqueuedGood
  <2>5. RecordOK'
    BY <1>1, <1>5, <1>6, <2>1, <2>3 DEF RecordOK
  <2> QED
    BY <1>3, <1>4, <1>8, <1>12, <2>1, <2>3, <2>4, <2>5 DEF RuntimeInv
<1>13. ASSUME NEW mode \in workload.modes, SetMode(mode), UNCHANGED workload PROVE RuntimeInv'
  <2> DEFINE n == [rt EXCEPT !.mode = mode, !.machine = Converged(Synced(rt), mode)]
  <2>1. /\ Save(n) /\ UNCHANGED <<scheduler, overBudget, fate, sinceWake, crashes>>
        /\ burst' = Slept(Synced(rt)) /\ mode \in Modes
        /\ worker' \in {worker, Idle} /\ permit' = permit
    BY <1>2, <1>13 DEF SetMode, NotifyWaiters
  <2>2. Good(n)
    BY <1>1, <2>1, SetModeGood
  <2> HIDE DEF n
  <2>3. rt' = n /\ saved' \in {saved, n} /\ failures' \in 0..workload.failures
    BY <1>1, <1>13, <2>1, SaveMoves
  <2>4. RecordOK'
    BY <1>1, <1>5, <2>1 DEF RecordOK
  <2> QED
    BY <1>1, <1>3, <1>4, <1>8, <1>13, <2>1, <2>2, <2>3, <2>4 DEF RuntimeInv
<1>14. ASSUME SetSchedule, UNCHANGED workload PROVE RuntimeInv'
  <2>1. PICK enabled \in workload.settings : Save([rt EXCEPT !.schedule = enabled])
    BY <1>14 DEF SetSchedule
  <2> DEFINE n == [rt EXCEPT !.schedule = enabled]
  <2>2. Good(n) /\ Save(n)
    BY <1>1, <1>2, <2>1, ScheduleGood
  <2> HIDE DEF n
  <2>3. rt' = n /\ saved' \in {saved, n} /\ failures' \in 0..workload.failures
    BY <1>1, <1>14, <2>2, SaveMoves
  <2>4. UNCHANGED <<worker, permit, scheduler, overBudget, fate, sinceWake, burst, crashes>>
    BY <1>14 DEF SetSchedule, history
  <2> QED
    BY <1>1, <1>3, <1>4, <1>8, <1>14, <2>2, <2>3, <2>4 DEF RuntimeInv, RecordOK
<1>15. ASSUME Tick, UNCHANGED workload PROVE RuntimeInv'
  <2>1. UNCHANGED <<rt, disk, worker, permit, overBudget, fate, sinceWake, burst, crashes>>
    BY <1>15 DEF Tick, history
  <2>2. SchedulerOK'
    BY <1>1, <1>15 DEF Tick, SchedulerOK
  <2> QED
    BY <1>1, <1>3, <1>8, <1>9, <1>15, <2>1, <2>2 DEF RuntimeInv, RecordOK
<1>16. ASSUME EnqueueWake, UNCHANGED workload PROVE RuntimeInv'
  <2>1. /\ Enqueue("wake", NoMention) /\ UNCHANGED <<overBudget, fate, crashes>>
        /\ burst' = Slept(Synced(rt)) /\ sinceWake' = 0
    BY <1>16 DEF EnqueueWake
  <2>2. Payload("wake", NoMention)
    BY DEF Payload
  <2>3. /\ rt' = Enqueued(rt, "wake", NoMention) /\ saved' \in {saved, rt'}
        /\ failures' \in 0..workload.failures
        /\ worker' \in {worker, Idle} /\ permit' \in {permit, TRUE}
    BY <1>1, <1>16, <2>1, EnqueueMoves
  <2>4. Good(rt') /\ Good(saved')
    BY <1>1, <2>2, <2>3, EnqueuedGood
  <2>5. RecordOK'
    BY <1>1, <1>5, <1>6, <1>7, <2>1, <2>3 DEF RecordOK
  <2>6. SchedulerOK'
    BY <1>1, <1>16 DEF EnqueueWake, SchedulerOK
  <2> QED
    BY <1>3, <1>8, <1>16, <2>1, <2>3, <2>4, <2>5, <2>6 DEF RuntimeInv
<1>17. ASSUME MarkWake, UNCHANGED workload PROVE RuntimeInv'
  <2>1. /\ Save(Marked(rt))
        /\ UNCHANGED <<worker, permit, overBudget, fate, sinceWake, burst, crashes>>
    BY <1>17 DEF MarkWake, history
  <2>2. Good(Marked(rt))
    BY <1>1, MarkedGood
  <2>3. rt' = Marked(rt) /\ saved' \in {saved, Marked(rt)} /\ failures' \in 0..workload.failures
    BY <1>1, <1>17, <2>1, SaveMoves
  <2>4. SchedulerOK'
    BY <1>1, <1>17 DEF MarkWake, SchedulerOK
  <2> QED
    BY <1>1, <1>3, <1>8, <1>17, <2>1, <2>2, <2>3, <2>4 DEF RuntimeInv, RecordOK
<1>18. ASSUME Retry, UNCHANGED workload PROVE RuntimeInv'
  <2>1. UNCHANGED <<worker, permit, overBudget, fate, sinceWake, burst, crashes>>
    BY <1>18 DEF Retry, history
  <2>2. CASE scheduler' = Resting /\ UNCHANGED <<rt, disk>>
    BY <1>1, <1>3, <1>4, <1>8, <1>9, <1>18, <2>1, <2>2 DEF RuntimeInv, RecordOK
  <2>3. CASE /\ scheduler' = [at |-> "requeueing", held |-> Head(rt.deferred)]
             /\ Save(Popped(rt)) /\ rt.deferred # <<>>
    <3>1. Good(Popped(rt)) /\ Head(rt.deferred) \in Mentions
      BY <1>1, <2>3, PoppedGood
    <3>2. rt' = Popped(rt) /\ saved' \in {saved, Popped(rt)} /\ failures' \in 0..workload.failures
      BY <1>1, <1>18, <2>3, SaveMoves
    <3>3. SchedulerOK'
      BY <2>3, <3>1 DEF SchedulerOK
    <3> QED
      BY <1>1, <1>3, <1>8, <1>18, <2>1, <3>1, <3>2, <3>3 DEF RuntimeInv, RecordOK
  <2> QED
    BY <1>18, <2>2, <2>3 DEF Retry
<1>19. ASSUME Requeue, UNCHANGED workload PROVE RuntimeInv'
  <2>1. /\ Enqueue("mention", scheduler.held) /\ scheduler' = Resting
        /\ UNCHANGED <<overBudget, fate, sinceWake, crashes>> /\ burst' = Slept(Synced(rt))
    BY <1>19 DEF Requeue
  <2>2. Payload("mention", scheduler.held) /\ scheduler.held \in Mentions \cup {NoMention}
    BY <1>1, <1>19 DEF Requeue, SchedulerOK, Payload
  <2>3. /\ rt' = Enqueued(rt, "mention", scheduler.held) /\ saved' \in {saved, rt'}
        /\ failures' \in 0..workload.failures
        /\ worker' \in {worker, Idle} /\ permit' \in {permit, TRUE}
    BY <1>1, <1>19, <2>1, EnqueueMoves
  <2>4. Good(rt') /\ Good(saved')
    BY <1>1, <2>2, <2>3, EnqueuedGood
  <2>5. RecordOK'
    BY <1>1, <1>5, <1>6, <2>1, <2>3 DEF RecordOK
  <2> QED
    BY <1>3, <1>4, <1>8, <1>19, <2>1, <2>3, <2>4, <2>5 DEF RuntimeInv
<1>20. ASSUME ClaimNext, UNCHANGED workload PROVE RuntimeInv'
  <2> DEFINE task == rt.tasks[SelectInSeq(rt.tasks, Runnable)]
  <2>1. /\ Save(Claimed(rt)) /\ SelectInSeq(rt.tasks, Runnable) # 0
        /\ worker' = [Idle EXCEPT !.at = "claimed", !.kind = task.kind, !.mention = task.mention]
        /\ UNCHANGED <<permit, scheduler, overBudget, fate, sinceWake, burst, crashes>>
    BY <1>20 DEF ClaimNext, beyond
  <2>2. Good(Claimed(rt)) /\ task \in Tasks /\ Payload(task.kind, task.mention)
    BY <1>1, <2>1, ClaimedGood
  <2>3. rt' = Claimed(rt) /\ saved' \in {saved, Claimed(rt)} /\ failures' \in 0..workload.failures
    BY <1>1, <1>20, <2>1, SaveMoves
  <2> HIDE DEF task
  <2>4. WorkerOK'
    BY <2>1, <2>2 DEF WorkerOK, Tasks, Idle
  <2> QED
    BY <1>1, <1>4, <1>8, <1>20, <2>1, <2>2, <2>3, <2>4 DEF RuntimeInv, RecordOK
<1>21. ASSUME ClaimNothing, UNCHANGED workload PROVE RuntimeInv'
  <2> DEFINE I == {j \in DOMAIN rt.tasks : IsRunning(rt.tasks[j])}
             n == [rt EXCEPT !.tasks = Picked(rt.tasks, I)]
  <2>1. /\ worker' = [worker EXCEPT !.at = "parking"]
        /\ UNCHANGED <<permit, scheduler, overBudget, fate, sinceWake, burst, crashes>>
        /\ UNCHANGED <<rt, disk>> \/ Save(n)
    BY <1>21 DEF ClaimNothing, beyond
  <2>2. WorkerOK'
    BY <1>1, <2>1 DEF WorkerOK
  <2>3. CASE UNCHANGED <<rt, disk>>
    BY <1>1, <1>4, <1>8, <1>9, <1>21, <2>1, <2>2, <2>3 DEF RuntimeInv, RecordOK
  <2>4. CASE Save(n)
    <3>1. I \in SUBSET (DOMAIN rt.tasks) /\ rt \in DurableStates /\ rt.tasks \in Seq(Tasks)
      BY <1>1 DEF Good, DurableStates
    <3>2. Picked(rt.tasks, I) \in Seq(Tasks)
      BY <3>1, PickedIsFrom DEF From
    <3>3. /\ n \in DurableStates /\ n.machine = rt.machine /\ n.tasks = Picked(rt.tasks, I)
          /\ n.deferred = rt.deferred /\ n.ranAt = rt.ranAt
      <4> HIDE DEF I
      <4> QED
        BY <3>1, <3>2 DEF DurableStates
    <3> HIDE DEF n, I
    <3>4. Good(n)
      BY <1>1, <3>1, <3>3, FewerGood DEF Good
    <3>5. rt' = n /\ saved' \in {saved, n} /\ failures' \in 0..workload.failures
      BY <1>1, <1>21, <2>4, SaveMoves
    <3> QED
      BY <1>1, <1>4, <1>8, <1>21, <2>1, <2>2, <3>4, <3>5 DEF RuntimeInv, RecordOK
  <2> QED
    BY <2>1, <2>3, <2>4
<1>22. ASSUME Park, UNCHANGED workload PROVE RuntimeInv'
  <2>1. /\ permit' = FALSE
        /\ worker' \in {Idle, [worker EXCEPT !.at = "waiting"]}
        /\ UNCHANGED <<rt, disk, scheduler, overBudget, fate, sinceWake, burst, crashes>>
    BY <1>22 DEF Park, beyond
  <2>2. WorkerOK'
    BY <1>1, <2>1, IdleOK DEF WorkerOK
  <2> QED
    BY <1>1, <1>4, <1>8, <1>9, <1>22, <2>1, <2>2 DEF RuntimeInv, RecordOK
<1>23. ASSUME PreExecute, UNCHANGED workload PROVE RuntimeInv'
  <2>1. UNCHANGED <<permit, scheduler, overBudget, crashes>>
    BY <1>23 DEF PreExecute
  <2>2. Payload(worker.kind, worker.mention) /\ worker.mention \in Mentions \cup {NoMention}
    BY <1>1 DEF WorkerOK
  <2>3. CASE Skip
    <3>1. /\ Save(Skipped) /\ worker' = [worker EXCEPT !.at = "finishing"]
          /\ burst' = Slept(Met) /\ sinceWake' \in {sinceWake, Owed}
          /\ fate' \in [Mentions -> {"new", "waiting", "dropped", "refused", "failed", "deliberated"}]
      BY <1>1, <2>3 DEF Skip, Skipped
    <3>2. Good(Skipped)
      BY <1>1, <2>2, SkippedGood
    <3>3. rt' = Skipped /\ saved' \in {saved, Skipped} /\ failures' \in 0..workload.failures
      BY <1>1, <1>23, <3>1, SaveMoves
    <3>4. WorkerOK'
      BY <1>1, <3>1 DEF WorkerOK
    <3>5. RecordOK'
      BY <1>1, <1>5, <1>7, <2>1, <3>1 DEF RecordOK
    <3> QED
      BY <1>1, <1>4, <1>8, <1>23, <2>1, <3>2, <3>3, <3>4, <3>5 DEF RuntimeInv
  <2>4. CASE Proceed
    <3>1. Save(Proceeded) /\ sinceWake' = sinceWake
      BY <2>4 DEF Proceed, Proceeded
    <3>2. burst' \in Nat
      BY <1>5, <2>4 DEF Proceed
    <3>3. fate' \in [Mentions -> {"new", "waiting", "dropped", "refused", "failed", "deliberated"}]
      BY <1>1, <2>4 DEF Proceed
    <3>4. WorkerOK'
      BY <1>1, <2>4 DEF Proceed, WorkerOK, MayCallModel, HasLiveLease
    <3>5. Good(Proceeded)
      BY <1>1, ProceededGood
    <3>6. rt' = Proceeded /\ saved' \in {saved, Proceeded} /\ failures' \in 0..workload.failures
      BY <1>1, <1>23, <3>1, SaveMoves
    <3>7. RecordOK'
      BY <1>1, <2>1, <3>1, <3>2, <3>3 DEF RecordOK
    <3> QED
      BY <1>1, <1>4, <1>8, <1>23, <2>1, <3>4, <3>5, <3>6, <3>7 DEF RuntimeInv
  <2> QED
    BY <1>23, <2>3, <2>4 DEF PreExecute
<1>24. ASSUME Decide \/ BeginCall \/ CallReturns, UNCHANGED workload PROVE RuntimeInv'
  <2>1. /\ UNCHANGED <<rt, disk, permit, scheduler, overBudget, sinceWake, burst, crashes>>
        /\ \E at \in {"cleared", "calling", "finishing"} : worker' = [worker EXCEPT !.at = at]
    BY <1>24 DEF Decide, BeginCall, CallReturns, beyond
  <2>2. fate' \in [Mentions -> {"new", "waiting", "dropped", "refused", "failed", "deliberated"}]
    BY <1>1, <1>24 DEF Decide, BeginCall, CallReturns
  <2>3. WorkerOK'
    BY <1>1, <2>1 DEF WorkerOK
  <2> QED
    BY <1>1, <1>4, <1>8, <1>9, <1>24, <2>1, <2>2, <2>3 DEF RuntimeInv, RecordOK
<1>25. ASSUME Finish, UNCHANGED workload PROVE RuntimeInv'
  <2> DEFINE n == Without(rt, SelectInSeq(rt.tasks, Performs))
  <2>1. /\ Save(n) /\ worker' = Idle
        /\ UNCHANGED <<permit, scheduler, overBudget, fate, sinceWake, burst, crashes>>
    BY <1>25 DEF Finish, beyond
  <2>2. Good(n)
    BY <1>1, WithoutGood
  <2> HIDE DEF n
  <2>3. rt' = n /\ saved' \in {saved, n} /\ failures' \in 0..workload.failures
    BY <1>1, <1>25, <2>1, SaveMoves
  <2> QED
    BY <1>1, <1>3, <1>4, <1>8, <1>25, <2>1, <2>2, <2>3 DEF RuntimeInv, RecordOK
<1>26. ASSUME LedgerMoves, UNCHANGED workload PROVE RuntimeInv'
  <2>1. /\ overBudget' \in BOOLEAN
        /\ UNCHANGED <<rt, disk, worker, permit, scheduler, fate, sinceWake, burst, crashes>>
    BY <1>2, <1>26 DEF LedgerMoves, history
  <2> QED
    BY <1>1, <1>3, <1>4, <1>8, <1>9, <1>26, <2>1 DEF RuntimeInv, RecordOK
<1>27. ASSUME Second, UNCHANGED workload PROVE RuntimeInv'
  <2>1. /\ rt' = Aged(rt) /\ saved' = Aged(saved) /\ scheduler' \in {scheduler, Ticking}
        /\ UNCHANGED <<worker, permit, overBudget, fate, burst, crashes, failures>>
    BY <1>27 DEF Second
  <2>2. Good(rt') /\ Good(saved')
    BY <1>1, <2>1, AgedGood
  <2>3. sinceWake' \in 0..Owed
    BY <1>1, <1>27 DEF Second, Owed
  <2>4. failures' \in 0..workload.failures
    BY <1>1, <2>1 DEF BoundsOK
  <2> QED
    BY <1>1, <1>3, <1>4, <1>8, <1>27, <2>1, <2>2, <2>3, <2>4 DEF RuntimeInv, RecordOK
<1>28. ASSUME Restart, UNCHANGED workload PROVE RuntimeInv'
  <2> DEFINE n == [saved EXCEPT !.machine = Synced(saved)]
  <2>1. /\ rt' = n /\ saved' = n
        /\ worker' = Idle /\ permit' = FALSE /\ scheduler' = Ticking
        /\ burst' = Slept(Synced(saved)) /\ crashes' = crashes + 1 /\ crashes < workload.crashes
        /\ UNCHANGED <<overBudget, fate, sinceWake, failures>>
    BY <1>28 DEF Restart
  <2>2. Good(n)
    BY <1>1, RestartedGood
  <2> HIDE DEF n
  <2>3. BoundsOK'
    BY <1>1, <1>2, <1>28, <2>1 DEF BoundsOK
  <2>4. RecordOK'
    BY <1>1, <1>5, <2>1 DEF RecordOK
  <2>5. Good(rt') /\ Good(saved')
    BY <2>1, <2>2
  <2> QED
    BY <1>3, <1>4, <2>1, <2>3, <2>4, <2>5 DEF RuntimeInv
<1> QED
  BY <1>10, <1>11, <1>12, <1>13, <1>14, <1>15, <1>16, <1>17, <1>18, <1>19, <1>20, <1>21, <1>22,
     <1>23, <1>24, <1>25, <1>26, <1>27, <1>28 DEF Next

-----------------------------------------------------------------------------
(* When sleep work really started.                                         *)

\* A kind that no restart forgot started last when the runtime notes it did.
Remembers ==
  /\ ran \in [Sleeping -> (-Cooldown..0) \cup {NoTime}] /\ forgotten \subseteq Sleeping
  /\ \A k \in Sleeping \ forgotten : ran[k] = rt.ranAt[k]

\* Only a claim, a second and a restart move the notes of the starts.
LEMMA NotesKept ==
  ASSUME RuntimeInv, [Next]_vars, ~ClaimNext, ~Second, ~Restart
  PROVE  rt'.ranAt = rt.ranAt /\ UNCHANGED sleepHistory
<1>1. rt \in DurableStates
  BY DEF RuntimeInv, Good
<1>2. \A n : Save(n) => rt' = n
  BY DEF Save
<1>3. UNCHANGED <<rt, disk>> => rt'.ranAt = rt.ranAt
  OBVIOUS
<1>4. ASSUME NEW kind, NEW mention, Enqueue(kind, mention) PROVE rt'.ranAt = rt.ranAt
  <2>1. rt' = Enqueued(rt, kind, mention)
    BY <1>4, <1>2 DEF Enqueue
  <2>2. Enqueued(rt, kind, mention).ranAt = rt.ranAt
    BY <1>1 DEF Enqueued, DurableStates
  <2> QED
    BY <2>1, <2>2
<1>5. CASE UNCHANGED vars
  BY <1>5 DEF vars, sleepHistory
<1>6. CASE Next
  <2>1. /\ UNCHANGED sleepHistory
        /\ \/ \E m \in Mentions : PostMention(m)
           \/ \E kind \in workload.tasks : PostTask(kind)
           \/ \E mode \in workload.modes : SetMode(mode)
           \/ SetSchedule
           \/ Tick \/ EnqueueWake \/ MarkWake \/ Retry \/ Requeue
           \/ ClaimNothing \/ Park
           \/ PreExecute \/ Decide \/ BeginCall \/ CallReturns \/ Finish
           \/ LedgerMoves
    BY <1>6 DEF Next
  <2>2. CASE \E m \in Mentions : PostMention(m)
    BY <1>4, <2>1, <2>2 DEF PostMention
  <2>3. CASE \E kind \in workload.tasks : PostTask(kind)
    BY <1>4, <2>1, <2>3 DEF PostTask
  <2>4. ASSUME NEW mode, SetMode(mode) PROVE rt'.ranAt = rt.ranAt
    <3>1. rt' = [rt EXCEPT !.mode = mode, !.machine = Converged(Synced(rt), mode)]
      BY <1>2, <2>4 DEF SetMode
    <3> QED
      BY <1>1, <3>1 DEF DurableStates
  <2>5. CASE SetSchedule
    <3>1. PICK enabled : rt' = [rt EXCEPT !.schedule = enabled]
      BY <1>2, <2>5 DEF SetSchedule
    <3> QED
      BY <1>1, <2>1, <3>1 DEF DurableStates
  <2>6. CASE EnqueueWake \/ Requeue
    BY <1>4, <2>1, <2>6 DEF EnqueueWake, Requeue
  <2>7. CASE MarkWake
    BY <1>1, <1>2, <2>1, <2>7 DEF MarkWake, Marked, DurableStates
  <2>8. CASE Retry
    BY <1>1, <1>2, <2>1, <2>8 DEF Retry, Popped, DurableStates
  <2>9. CASE ClaimNothing
    <3>1. \/ UNCHANGED <<rt, disk>>
          \/ \E kept : rt' = [rt EXCEPT !.tasks = kept]
      BY <1>2, <2>9 DEF ClaimNothing
    <3> QED
      BY <1>1, <2>1, <3>1 DEF DurableStates
  <2>10. CASE PreExecute
    <3>1. rt' = Skipped \/ rt' = Proceeded
      BY <1>2, <2>10 DEF PreExecute, Skip, Proceed, Skipped, Proceeded
    <3>2. Skipped.ranAt = rt.ranAt /\ Proceeded.ranAt = rt.ranAt
      BY <1>1 DEF Skipped, Proceeded, DurableStates
    <3> QED
      BY <2>1, <3>1, <3>2
  <2>11. CASE Finish
    <3>1. rt' = Without(rt, SelectInSeq(rt.tasks, Performs))
      BY <1>2, <2>11 DEF Finish
    <3>2. \A i : Without(rt, i).ranAt = rt.ranAt
      BY <1>1 DEF Without, DurableStates
    <3> QED
      BY <2>1, <3>1, <3>2
  <2>12. CASE Tick \/ Park \/ Decide \/ BeginCall \/ CallReturns \/ LedgerMoves
    BY <1>3, <2>1, <2>12 DEF Tick, Park, Decide, BeginCall, CallReturns, LedgerMoves
  <2> QED
    BY <2>1, <2>2, <2>3, <2>4, <2>5, <2>6, <2>7, <2>8, <2>9, <2>10, <2>11, <2>12
<1> QED
  BY <1>5, <1>6

LEMMA RemembersAtFirst == Init => Remembers
<1> SUFFICES ASSUME Init PROVE Remembers
  OBVIOUS
<1>1. rt.ranAt \in [Sleeping -> (-Cooldown..0) \cup {NoTime}]
  BY InitKeeps DEF RuntimeInv, Good, DurableStates, Sleeping
<1>2. ran = rt.ranAt /\ forgotten = {}
  BY DEF Init
<1> QED
  BY <1>1, <1>2 DEF Remembers

LEMMA RemembersKept == RuntimeInv /\ Remembers /\ [Next]_vars => Remembers'
<1> SUFFICES ASSUME RuntimeInv, Remembers, [Next]_vars PROVE Remembers'
  OBVIOUS
<1>1. /\ rt \in DurableStates /\ Good(rt)
      /\ ran \in [Sleeping -> (-Cooldown..0) \cup {NoTime}] /\ forgotten \subseteq Sleeping
      /\ \A k \in Sleeping \ forgotten : ran[k] = rt.ranAt[k]
      /\ DOMAIN ran = Sleeping /\ DOMAIN rt.ranAt = Sleeping
  BY DEF RuntimeInv, Good, Remembers, DurableStates, Sleeping
<1>2. CASE ClaimNext
  <2> DEFINE task == rt.tasks[SelectInSeq(rt.tasks, Runnable)]
  <2>1. /\ rt' = Claimed(rt)
        /\ ran' = [k \in DOMAIN ran |-> IF k = task.kind THEN 0 ELSE ran[k]]
        /\ forgotten' = forgotten \ {task.kind}
    BY <1>2 DEF ClaimNext, Save
  <2>2. Claimed(rt).ranAt = [k \in DOMAIN rt.ranAt |-> IF k = task.kind THEN 0 ELSE rt.ranAt[k]]
    BY <1>1 DEF Claimed, DurableStates
  <2> HIDE DEF task
  <2>3. \A k \in Sleeping \ forgotten' : ran'[k] = rt'.ranAt[k]
    BY <1>1, <2>1, <2>2
  <2>4. 0 \in -Cooldown..0
    OBVIOUS
  <2>5. ran' \in [Sleeping -> (-Cooldown..0) \cup {NoTime}]
    BY <1>1, <2>1, <2>4
  <2> QED
    BY <1>1, <2>1, <2>3, <2>5 DEF Remembers
<1>3. CASE Second
  <2>1. /\ rt' = Aged(rt) /\ forgotten' = forgotten
        /\ ran' = [k \in DOMAIN ran |-> Older(ran[k], Cooldown)]
    BY <1>3 DEF Second
  <2>2. Aged(rt).ranAt = [k \in DOMAIN rt.ranAt |-> Older(rt.ranAt[k], Cooldown)]
    BY <1>1 DEF Aged, DurableStates
  <2>3. \A k \in Sleeping \ forgotten' : ran'[k] = rt'.ranAt[k]
    BY <1>1, <2>1, <2>2
  <2>4. \A n \in (-Cooldown..0) \cup {NoTime} : Older(n, Cooldown) \in (-Cooldown..0) \cup {NoTime}
    BY DEF Older
  <2>5. ran' \in [Sleeping -> (-Cooldown..0) \cup {NoTime}]
    BY <1>1, <2>1, <2>4
  <2> QED
    BY <1>1, <2>1, <2>3, <2>5 DEF Remembers
<1>4. CASE Restart
  <2>1. /\ rt' = [saved EXCEPT !.machine = Synced(saved)] /\ ran' = ran
        /\ forgotten' = forgotten \cup {k \in DOMAIN ran : saved.ranAt[k] # rt.ranAt[k]}
    BY <1>4 DEF Restart
  <2>2. rt'.ranAt = saved.ranAt
    BY <2>1 DEF RuntimeInv, Good, DurableStates
  <2> QED
    BY <1>1, <2>1, <2>2 DEF Remembers
<1>5. CASE ~ClaimNext /\ ~Second /\ ~Restart
  <2>1. rt'.ranAt = rt.ranAt /\ ran' = ran /\ forgotten' = forgotten
    BY <1>5, NotesKept DEF sleepHistory
  <2> QED
    BY <1>1, <2>1 DEF Remembers
<1> QED
  BY <1>2, <1>3, <1>4, <1>5

\* The durable state keeps its shape, in memory and in the file, and the pen of
\* deferred mentions stays within MAX_DEFERRED_MENTIONS, through whatever the
\* operator, the worker, the scheduler, failed writes and restarts do.
THEOREM RuntimeTypeCorrect == Spec => []TypeOK
<1>1. Init => RuntimeInv /\ Remembers
  BY InitKeeps, RemembersAtFirst
<1>2. RuntimeInv /\ Remembers /\ [Next]_vars => (RuntimeInv /\ Remembers)'
  BY StepKeeps, RemembersKept
<1>3. RuntimeInv /\ Remembers => TypeOK
  BY DEF RuntimeInv, TypeOK, Good, WorkerOK, SchedulerOK, RecordOK, BoundsOK, Remembers, Sleeping
<1> QED
  BY <1>1, <1>2, <1>3, PTL DEF Spec

-----------------------------------------------------------------------------
(* Mode and machine.                                                       *)

LEMMA AgreementStep ==
  RuntimeInv /\ Agrees(rt) /\ Agrees(saved) /\ [Next]_vars => Agrees(rt') /\ Agrees(saved')
<1> SUFFICES ASSUME RuntimeInv, Agrees(rt), Agrees(saved), [Next]_vars
             PROVE  Agrees(rt') /\ Agrees(saved')
  OBVIOUS
<1>1. /\ Good(rt) /\ Good(saved) /\ BoundsOK /\ overBudget \in BOOLEAN
      /\ Payload(worker.kind, worker.mention) /\ worker.mention \in Mentions \cup {NoMention}
      /\ scheduler.at = "requeueing" => scheduler.held \in Mentions
      /\ Sound(rt.machine, 0) /\ Sound(saved.machine, 0)
      /\ workload.tasks \subseteq {"wake", "read"} /\ workload.modes \subseteq Modes
      /\ workload.settings \subseteq BOOLEAN
  BY DEF RuntimeInv, RecordOK, WorkerOK, SchedulerOK, BoundsOK, WorkloadOK, Good
<1>2. ASSUME NEW n, rt' = n, saved' \in {saved, n}, n.mode = rt.mode, SamePause(rt.machine, n.machine)
      PROVE  Agrees(rt') /\ Agrees(saved')
  BY <1>2 DEF Agrees, SamePause
<1>3. ASSUME NEW kind \in {"wake", "mention", "read"}, NEW mention \in Mentions \cup {NoMention},
             Payload(kind, mention), Enqueue(kind, mention), UNCHANGED workload
      PROVE  Agrees(rt') /\ Agrees(saved')
  <2> DEFINE n == Enqueued(rt, kind, mention)
  <2>1. rt' = n /\ saved' \in {saved, rt'}
    BY <1>1, <1>3, EnqueueMoves
  <2>2. n.mode = rt.mode /\ Paced(rt.machine, Synced(rt), n.machine)
    BY <1>1, <1>3, EnqueuedGood
  <2> HIDE DEF n
  <2> QED
    BY <1>2, <2>1, <2>2 DEF Paced
<1>4. ASSUME NEW n, Save(n), UNCHANGED workload, n.mode = rt.mode, SamePause(rt.machine, n.machine)
      PROVE  Agrees(rt') /\ Agrees(saved')
  BY <1>1, <1>2, <1>4, SaveMoves
<1>5. UNCHANGED <<rt, disk>> => Agrees(rt') /\ Agrees(saved')
  BY DEF disk
<1>6. SamePause(rt.machine, rt.machine)
  BY DEF SamePause
<1>7. CASE UNCHANGED vars
  BY <1>5, <1>7 DEF vars, disk
<1>8. ASSUME NEW m \in Mentions, PostMention(m), UNCHANGED workload
      PROVE  Agrees(rt') /\ Agrees(saved')
  BY <1>3, <1>8 DEF PostMention, Payload
<1>9. ASSUME NEW kind \in workload.tasks, PostTask(kind), UNCHANGED workload
      PROVE  Agrees(rt') /\ Agrees(saved')
  BY <1>1, <1>3, <1>9 DEF PostTask, Payload
<1>10. ASSUME NEW mode \in workload.modes, SetMode(mode), UNCHANGED workload
       PROVE  Agrees(rt') /\ Agrees(saved')
  <2> DEFINE n == [rt EXCEPT !.mode = mode, !.machine = Converged(Synced(rt), mode)]
  <2>1. Save(n)
    BY <1>10 DEF SetMode
  <2>2. Agrees(n)
    BY <1>1, SetModeGood
  <2> HIDE DEF n
  <2> QED
    BY <1>1, <1>10, <2>1, <2>2, SaveMoves
<1>11. ASSUME SetSchedule, UNCHANGED workload PROVE Agrees(rt') /\ Agrees(saved')
  <2>1. PICK enabled \in workload.settings : Save([rt EXCEPT !.schedule = enabled])
    BY <1>11 DEF SetSchedule
  <2> DEFINE n == [rt EXCEPT !.schedule = enabled]
  <2>2. n.mode = rt.mode /\ n.machine = rt.machine
    BY <1>1, ScheduleGood
  <2> HIDE DEF n
  <2> QED
    BY <1>4, <1>6, <1>11, <2>1, <2>2 DEF n
<1>12. ASSUME EnqueueWake \/ Requeue, UNCHANGED workload PROVE Agrees(rt') /\ Agrees(saved')
  <2>1. \/ Enqueue("wake", NoMention)
        \/ Enqueue("mention", scheduler.held) /\ scheduler.held \in Mentions
    BY <1>1, <1>12 DEF EnqueueWake, Requeue
  <2> QED
    BY <1>3, <1>12, <2>1 DEF Payload
<1>13. ASSUME MarkWake, UNCHANGED workload PROVE Agrees(rt') /\ Agrees(saved')
  BY <1>1, <1>4, <1>6, <1>13, MarkedGood DEF MarkWake
<1>14. ASSUME Retry, UNCHANGED workload PROVE Agrees(rt') /\ Agrees(saved')
  <2>1. UNCHANGED <<rt, disk>> \/ (Save(Popped(rt)) /\ rt.deferred # <<>>)
    BY <1>14 DEF Retry
  <2> QED
    BY <1>1, <1>4, <1>5, <1>6, <1>14, <2>1, PoppedGood
<1>15. ASSUME ClaimNext, UNCHANGED workload PROVE Agrees(rt') /\ Agrees(saved')
  BY <1>1, <1>4, <1>6, <1>15, ClaimedGood DEF ClaimNext
<1>16. ASSUME ClaimNothing, UNCHANGED workload PROVE Agrees(rt') /\ Agrees(saved')
  <2> DEFINE n == [rt EXCEPT !.tasks = Picked(rt.tasks, {j \in DOMAIN rt.tasks : IsRunning(rt.tasks[j])})]
  <2>1. UNCHANGED <<rt, disk>> \/ Save(n)
    BY <1>16 DEF ClaimNothing
  <2>2. n.mode = rt.mode /\ n.machine = rt.machine
    BY <1>1 DEF Good, DurableStates
  <2> HIDE DEF n
  <2> QED
    BY <1>4, <1>5, <1>6, <1>16, <2>1, <2>2
<1>17. ASSUME PreExecute, UNCHANGED workload PROVE Agrees(rt') /\ Agrees(saved')
  <2>1. (Skip /\ Save(Skipped)) \/ (Proceed /\ Save(Proceeded))
    BY <1>17 DEF PreExecute, Skip, Proceed, Skipped, Proceeded
  <2>2. SamePause(rt.machine, Met) /\ Sound(Met, 0)
    BY <1>1, MetIsSound
  <2>3. Skipped.mode = rt.mode /\ Skipped.machine = Met
    BY <1>1, SkippedGood
  <2>4. Proceeded.mode = rt.mode /\ SamePause(rt.machine, Proceeded.machine)
    <3>1. RecordStep(Met, 0).state = Met.state
      BY <2>2 DEF RecordStep, Sound, Snapshots
    <3> QED
      BY <1>1, <2>2, <3>1, ProceededGood DEF SamePause
  <2> QED
    BY <1>4, <1>17, <2>1, <2>2, <2>3, <2>4
<1>18. ASSUME Finish, UNCHANGED workload PROVE Agrees(rt') /\ Agrees(saved')
  BY <1>1, <1>4, <1>18, WithoutGood DEF Finish
<1>19. ASSUME Second, UNCHANGED workload PROVE Agrees(rt') /\ Agrees(saved')
  <2>1. /\ Aged(rt).mode = rt.mode /\ SamePause(rt.machine, Aged(rt).machine)
        /\ Aged(saved).mode = saved.mode /\ SamePause(saved.machine, Aged(saved).machine)
    BY <1>1, AgedGood
  <2> QED
    BY <1>19, <2>1 DEF Second, Agrees, SamePause
<1>20. ASSUME Restart, UNCHANGED workload PROVE Agrees(rt') /\ Agrees(saved')
  <2> DEFINE n == [saved EXCEPT !.machine = Synced(saved)]
  <2>1. n.mode = saved.mode /\ n.machine = Synced(saved)
    BY <1>1, RestartedGood
  <2>2. SamePause(saved.machine, Synced(saved))
    BY <1>1, SyncedIsLive
  <2>3. rt' = n /\ saved' = n
    BY <1>20 DEF Restart
  <2> HIDE DEF n
  <2> QED
    BY <2>1, <2>2, <2>3 DEF Agrees, SamePause
<1>21. CASE Tick \/ Park \/ Decide \/ BeginCall \/ CallReturns \/ LedgerMoves
  BY <1>5, <1>21 DEF Tick, Park, Decide, BeginCall, CallReturns, LedgerMoves
<1> QED
  BY <1>7, <1>8, <1>9, <1>10, <1>11, <1>12, <1>13, <1>14, <1>15, <1>16, <1>17, <1>18, <1>19,
     <1>20, <1>21 DEF Next

\* The operator's decision has two records, the mode and the machine's phase,
\* and they agree in memory and in the file in every run that does not start
\* paused (set_mode, mode_transition_plan, open).
THEOREM ModeAndMachineStayAgreed ==
  ASSUME InitialMode # "paused"
  PROVE  Spec => []ModeAndMachineAgree
<1>1. Init => RuntimeInv /\ Agrees(rt) /\ Agrees(saved)
  BY InitKeeps DEF Init, Agrees, Fresh
<1>2. RuntimeInv /\ Agrees(rt) /\ Agrees(saved) /\ [Next]_vars
        => (RuntimeInv /\ Agrees(rt) /\ Agrees(saved))'
  BY AgreementStep, StepKeeps
<1>3. RuntimeInv /\ Agrees(rt) /\ Agrees(saved) => ModeAndMachineAgree
  BY DEF ModeAndMachineAgree, Agrees
<1> QED
  BY <1>1, <1>2, <1>3, PTL DEF Spec

\* The cooldown of sleep work is read when the work is planned and noted when it
\* starts; whatever happens in between, with restarts and failed writes, work of
\* a kind starts only once its cooldown is over since it last really started,
\* unless a restart found no note of that start, for claim_next ignores the
\* failure to write it (claim_queued_task, enqueue_sleep_proposals, open).
THEOREM SleepWorkKeepsCool == Spec => SleepWorkCoolsDown
<1> DEFINE Step == ClaimNext /\ worker'.kind \in ToSet(SleepKinds) \ forgotten
                     => ran[worker'.kind] = NoTime \/ -ran[worker'.kind] >= Cooldown
<1>1. ASSUME RuntimeInv, Remembers, ClaimNext, worker'.kind \in ToSet(SleepKinds) \ forgotten
      PROVE  ran[worker'.kind] = NoTime \/ -ran[worker'.kind] >= Cooldown
  <2> DEFINE task == rt.tasks[SelectInSeq(rt.tasks, Runnable)]
  <2>1. Good(rt) /\ SelectInSeq(rt.tasks, Runnable) # 0
    BY <1>1 DEF RuntimeInv, ClaimNext
  <2>2. task.kind \in Sleeping => IsReady(rt, task.kind)
    BY <2>1, ClaimedGood
  <2>3. worker'.kind = task.kind
    BY <1>1 DEF ClaimNext, Idle
  <2>4. ran[worker'.kind] = rt.ranAt[worker'.kind]
    BY <1>1 DEF Remembers, Sleeping
  <2> QED
    BY <1>1, <2>2, <2>3, <2>4 DEF Sleeping, IsReady
<1>2. RuntimeInv /\ Remembers => [Step]_vars
  BY <1>1
<1>3. Init => RuntimeInv /\ Remembers
  BY InitKeeps, RemembersAtFirst
<1>4. RuntimeInv /\ Remembers /\ [Next]_vars => (RuntimeInv /\ Remembers)'
  BY StepKeeps, RemembersKept
<1> QED
  BY <1>2, <1>3, <1>4, PTL DEF Spec, SleepWorkCoolsDown

-----------------------------------------------------------------------------
(* The spacing of the scheduler's wakes.                                   *)

LEMMA SpacingStep ==
  ASSUME RuntimeInv, Spaced, workload.crashes = 0, workload.failures = 0, Next
  PROVE  Spaced'
<1>1. /\ Good(rt) /\ BoundsOK /\ overBudget \in BOOLEAN /\ UNCHANGED workload
      /\ Payload(worker.kind, worker.mention) /\ worker.mention \in Mentions \cup {NoMention}
      /\ scheduler.at = "requeueing" => scheduler.held \in Mentions
      /\ rt.lastWake \in (-Spacing..0) \cup {NoTime} /\ sinceWake \in 0..Owed
      /\ rt \in DurableStates
      /\ workload.tasks \subseteq {"wake", "read"} /\ workload.modes \subseteq Modes
      /\ workload.settings \subseteq BOOLEAN
  BY DEF RuntimeInv, RecordOK, WorkerOK, SchedulerOK, BoundsOK, WorkloadOK, Good, DurableStates, Next
<1>2. Spacing \in Nat /\ Spacing > 0 /\ sinceWake \in Int /\ NoTime \notin Int
  BY <1>1
<1>3. ASSUME NEW n, Save(n) PROVE rt' = n /\ ~SaveFailed
  BY <1>1, <1>3, SaveMoves
<1>4. UNCHANGED <<rt, disk>> => rt' = rt
  OBVIOUS
\* Most steps touch neither the wakes nor the scheduler.
<1>5. ASSUME rt'.lastWake = rt.lastWake, sinceWake' = sinceWake, scheduler' = scheduler
      PROVE  Spaced'
  BY <1>5 DEF Spaced
<1>6. ASSUME NEW kind \in {"wake", "mention", "read"}, NEW mention \in Mentions \cup {NoMention},
             Payload(kind, mention), Enqueue(kind, mention)
      PROVE  rt'.lastWake = rt.lastWake /\ ~SaveFailed
  <2>1. Save(Enqueued(rt, kind, mention))
    BY <1>6 DEF Enqueue
  <2>2. Enqueued(rt, kind, mention).lastWake = rt.lastWake
    BY <1>1, <1>6, EnqueuedGood
  <2> QED
    BY <1>3, <2>1, <2>2
<1>7. ASSUME NEW m \in Mentions, PostMention(m) PROVE Spaced'
  BY <1>5, <1>6, <1>7 DEF PostMention, Payload
<1>8. ASSUME NEW kind \in workload.tasks, PostTask(kind) PROVE Spaced'
  BY <1>1, <1>5, <1>6, <1>8 DEF PostTask, Payload
<1>9. ASSUME NEW mode \in workload.modes, SetMode(mode) PROVE Spaced'
  <2> DEFINE n == [rt EXCEPT !.mode = mode, !.machine = Converged(Synced(rt), mode)]
  <2>1. Save(n) /\ UNCHANGED <<scheduler, sinceWake>>
    BY <1>9 DEF SetMode
  <2>2. n.lastWake = rt.lastWake
    BY <1>1, SetModeGood
  <2> HIDE DEF n
  <2> QED
    BY <1>3, <1>5, <2>1, <2>2
<1>10. ASSUME SetSchedule PROVE Spaced'
  <2>1. PICK enabled \in workload.settings : Save([rt EXCEPT !.schedule = enabled])
    BY <1>10 DEF SetSchedule
  <2> DEFINE n == [rt EXCEPT !.schedule = enabled]
  <2>2. n.lastWake = rt.lastWake
    BY <1>1, ScheduleGood
  <2>3. Save(n) /\ UNCHANGED <<scheduler, sinceWake>>
    BY <1>10, <2>1 DEF SetSchedule, history
  <2> HIDE DEF n
  <2> QED
    BY <1>3, <1>5, <2>2, <2>3
\* A wake is due when the last is Spacing old, or owed.
<1>11. ASSUME Tick PROVE Spaced'
  <2>1. /\ rt' = rt /\ sinceWake' = sinceWake /\ scheduler.at = "ticking"
        /\ scheduler'.at \in {"waking", "retrying"}
        /\ scheduler'.at = "waking" => WakeDue(rt)
    BY <1>1, <1>11 DEF Tick, history, RuntimeInv, SchedulerOK
  <2>2. IF rt.lastWake = NoTime THEN sinceWake >= Spacing ELSE -rt.lastWake <= sinceWake
    BY <2>1 DEF Spaced
  <2>3. WakeDue(rt) => sinceWake >= Spacing
    BY <1>1, <1>2, <2>2 DEF WakeDue
  <2> QED
    BY <2>1, <2>2, <2>3 DEF Spaced
<1>12. ASSUME EnqueueWake PROVE Spaced'
  <2>1. Enqueue("wake", NoMention)
    BY <1>12 DEF EnqueueWake
  <2>2. ~SaveFailed
    BY <1>6, <2>1 DEF Payload
  <2>3. scheduler'.at = "marking"
    BY <1>12, <2>2 DEF EnqueueWake, RuntimeInv, SchedulerOK
  <2> QED
    BY <2>3 DEF Spaced
<1>13. ASSUME MarkWake PROVE Spaced'
  <2>1. rt' = Marked(rt) /\ sinceWake' = sinceWake
    BY <1>3, <1>13 DEF MarkWake, history
  <2>2. rt'.lastWake = 0
    BY <1>1, <2>1, MarkedGood
  <2>3. scheduler'.at = "retrying"
    BY <1>13 DEF MarkWake, RuntimeInv, SchedulerOK
  <2> QED
    BY <1>1, <1>2, <2>1, <2>2, <2>3 DEF Spaced
<1>14. ASSUME Retry PROVE Spaced'
  <2>1. sinceWake' = sinceWake /\ scheduler.at = "retrying"
    BY <1>14 DEF Retry, history
  <2>2. rt' = rt \/ (Save(Popped(rt)) /\ rt.deferred # <<>>)
    BY <1>14 DEF Retry
  <2>3. rt'.lastWake = rt.lastWake
    BY <1>1, <1>3, <2>2, PoppedGood
  <2>4. scheduler'.at \notin {"waking", "marking"}
    BY <1>14, RestingOK DEF Retry
  <2> QED
    BY <2>1, <2>3, <2>4 DEF Spaced
<1>15. ASSUME Requeue PROVE Spaced'
  <2>1. /\ sinceWake' = sinceWake /\ scheduler.at = "requeueing" /\ scheduler' = Resting
        /\ Enqueue("mention", scheduler.held)
    BY <1>15 DEF Requeue
  <2>2. rt'.lastWake = rt.lastWake
    BY <1>1, <1>6, <2>1 DEF Payload
  <2> QED
    BY <2>1, <2>2, RestingOK DEF Spaced
<1>16. ASSUME ClaimNext PROVE Spaced'
  <2>1. /\ Save(Claimed(rt)) /\ SelectInSeq(rt.tasks, Runnable) # 0
        /\ UNCHANGED <<scheduler, sinceWake>>
    BY <1>16 DEF ClaimNext, beyond
  <2> QED
    BY <1>1, <1>3, <1>5, <2>1, ClaimedGood
<1>17. ASSUME ClaimNothing PROVE Spaced'
  <2> DEFINE n == [rt EXCEPT !.tasks = Picked(rt.tasks, {j \in DOMAIN rt.tasks : IsRunning(rt.tasks[j])})]
  <2>1. (rt' = rt \/ Save(n)) /\ UNCHANGED <<scheduler, sinceWake>>
    BY <1>17 DEF ClaimNothing, beyond
  <2>2. n.lastWake = rt.lastWake
    BY <1>1 DEF DurableStates
  <2> HIDE DEF n
  <2> QED
    BY <1>3, <1>5, <2>1, <2>2
<1>18. ASSUME PreExecute, Proceed PROVE Spaced'
  <2>1. Save(Proceeded) /\ UNCHANGED <<scheduler, sinceWake>>
    BY <1>18 DEF PreExecute, Proceed, Proceeded
  <2> QED
    BY <1>1, <1>3, <1>5, <2>1, ProceededGood
\* A wake that is skipped is owed at once.
<1>19. ASSUME PreExecute, Skip PROVE Spaced'
  <2>1. Save(Skipped) /\ scheduler' = scheduler
        /\ sinceWake' = IF worker.kind = "wake" THEN Owed ELSE sinceWake
    BY <1>19 DEF PreExecute, Skip, Skipped
  <2>2. rt'.lastWake = IF worker.kind = "wake" THEN NoTime ELSE rt.lastWake
    BY <1>1, <1>3, <2>1, SkippedGood
  <2>3. Owed >= Spacing
    BY <1>2 DEF Owed
  <2> QED
    BY <2>1, <2>2, <2>3 DEF Spaced
<1>20. ASSUME Finish PROVE Spaced'
  <2> DEFINE i == SelectInSeq(rt.tasks, Performs)
             n == Without(rt, i)
  <2>1. Save(n) /\ UNCHANGED <<scheduler, sinceWake>>
    BY <1>20 DEF Finish, beyond
  <2> HIDE DEF i
  <2>2. n.lastWake = rt.lastWake
    BY <1>1, WithoutGood
  <2> HIDE DEF n
  <2> QED
    BY <1>3, <1>5, <2>1, <2>2
<1>21. ASSUME Second PROVE Spaced'
  <2>1. /\ rt' = Aged(rt) /\ scheduler' \in {scheduler, Ticking}
        /\ sinceWake' = IF sinceWake < Spacing THEN sinceWake + 1 ELSE sinceWake
        /\ scheduler' # scheduler => scheduler.at = "sleeping"
    BY <1>21 DEF Second
  <2>2. rt'.lastWake = Older(rt.lastWake, Spacing)
    BY <1>1, <2>1, AgedGood
  <2>3. scheduler.at # "marking" =>
          IF rt'.lastWake = NoTime THEN sinceWake' >= Spacing ELSE -rt'.lastWake <= sinceWake'
    BY <1>1, <1>2, <2>1, <2>2 DEF Spaced, Older
  <2>4. sinceWake' >= sinceWake /\ sinceWake' \in Int
    BY <1>2, <2>1
  <2>5. scheduler.at = "waking" => sinceWake' >= Spacing
    BY <1>2, <2>1, <2>4 DEF Spaced
  <2> QED
    BY <2>1, <2>3, <2>5, RestingOK DEF Spaced
<1>22. ASSUME Park \/ Decide \/ BeginCall \/ CallReturns \/ LedgerMoves PROVE Spaced'
  BY <1>5, <1>22 DEF Park, Decide, BeginCall, CallReturns, LedgerMoves, beyond, history
<1>23. ~Restart
  BY <1>1 DEF Restart, BoundsOK
<1> QED
  BY <1>7, <1>8, <1>9, <1>10, <1>11, <1>12, <1>13, <1>14, <1>15, <1>16, <1>17, <1>18, <1>19,
     <1>20, <1>21, <1>22, <1>23 DEF Next, PreExecute

\* The scheduler's wakes are Spacing apart, unless one was skipped and is owed:
\* the mark is set in a later holding of the mutex than the wake it marks, and
\* may be cleared by the worker in between (run_scheduler, pre_execute_hooks).
THEOREM WakesStaySpaced == Spec => WakesAreSpaced
<1> DEFINE Step == EnqueueWake /\ workload.crashes = 0 /\ workload.failures = 0
                     => sinceWake >= Spacing
<1>1. Init => SpacingInv
  <2> SUFFICES ASSUME Init PROVE SpacingInv
    OBVIOUS
  <2>1. /\ scheduler.at = "ticking" /\ rt.lastWake = NoTime /\ sinceWake = Spacing
    BY RestingOK DEF Init
  <2> QED
    BY <2>1, InitKeeps DEF SpacingInv, Spaced
<1>2. SpacingInv /\ [Next]_vars => SpacingInv'
  <2> SUFFICES ASSUME SpacingInv, [Next]_vars PROVE SpacingInv'
    OBVIOUS
  <2>1. RuntimeInv' /\ UNCHANGED workload
    BY StepKeeps DEF SpacingInv, Next, vars
  <2>2. CASE UNCHANGED vars
    BY <2>1, <2>2 DEF SpacingInv, Spaced, vars
  <2>3. CASE Next
    BY <2>1, <2>3, SpacingStep DEF SpacingInv
  <2> QED
    BY <2>2, <2>3
<1>3. SpacingInv => [Step]_vars
  BY DEF SpacingInv, Spaced, EnqueueWake
<1> QED
  BY <1>1, <1>2, <1>3, PTL DEF Spec, WakesAreSpaced

-----------------------------------------------------------------------------
(* Where mentions are: nowhere before they are posted.                      *)

LEMMA FromNamesLess ==
  ASSUME NEW r, NEW n, From(n.tasks, r.tasks), n.deferred = r.deferred
  PROVE  Named(n) \subseteq Named(r)
  BY DEF From, Named

LEMMA AppendNames ==
  ASSUME NEW r, NEW n, r \in DurableStates, NEW mention, NEW t, t.mention = mention,
         n.tasks = Append(r.tasks, t), n.deferred = r.deferred
  PROVE  Named(n) \subseteq Named(r) \cup {mention}
<1>1. r.tasks \in Seq(Tasks)
  BY DEF DurableStates
<1>2. \A i \in DOMAIN n.tasks :
        n.tasks[i].mention = mention \/ (i \in DOMAIN r.tasks /\ n.tasks[i] = r.tasks[i])
  BY <1>1
<1> QED
  BY <1>2 DEF Named

LEMMA DeferNames ==
  ASSUME NEW r, NEW n, r \in DurableStates, NEW mention \in Mentions,
         n.tasks = r.tasks, n.deferred = Defer(r.deferred, mention)
  PROVE  Named(n) \subseteq Named(r) \cup {mention}
<1> DEFINE longer == Append(r.deferred, mention)
<1>1. r.deferred \in Seq(Mentions) /\ longer \in Seq(Mentions) /\ longer # <<>>
  <2>1. r.deferred \in Seq(Mentions)
    BY DEF DurableStates
  <2>2. longer \in Seq(Mentions) /\ Len(longer) = Len(r.deferred) + 1 /\ Len(r.deferred) \in Nat
    BY <2>1
  <2> HIDE DEF longer
  <2>3. longer # <<>>
    BY <2>2
  <2> QED
    BY <2>1, <2>2, <2>3
<1>2. \A i \in DOMAIN longer :
        longer[i] = mention \/ (i \in DOMAIN r.deferred /\ longer[i] = r.deferred[i])
  BY <1>1
<1>3. n.deferred = longer \/ n.deferred = Tail(longer)
  BY DEF Defer
<1> HIDE DEF longer
<1>4. \A i \in DOMAIN Tail(longer) : i + 1 \in DOMAIN longer /\ Tail(longer)[i] = longer[i + 1]
  BY <1>1
<1>5. \A i \in DOMAIN n.deferred : \E j \in DOMAIN longer : n.deferred[i] = longer[j]
  BY <1>3, <1>4
<1> QED
  BY <1>2, <1>5 DEF Named

\* Only a post brings in a mention that was not there, and it is then not new.
LEMMA NewStaysNowhere ==
  ASSUME RuntimeInv, NewIsNowhere, Next
  PROVE  NewIsNowhere'
<1>1. /\ Good(rt) /\ Good(saved) /\ BoundsOK /\ overBudget \in BOOLEAN /\ UNCHANGED workload
      /\ Payload(worker.kind, worker.mention) /\ worker.mention \in Mentions \cup {NoMention}
      /\ scheduler.at = "requeueing" => scheduler.held \in Mentions
      /\ scheduler.held \in Mentions \cup {NoMention}
      /\ rt \in DurableStates /\ saved \in DurableStates
      /\ workload.tasks \subseteq {"wake", "read"} /\ workload.modes \subseteq Modes
      /\ workload.settings \subseteq BOOLEAN
      /\ fate \in [Mentions -> {"new", "waiting", "dropped", "refused", "failed", "deliberated"}]
  BY DEF RuntimeInv, RecordOK, WorkerOK, SchedulerOK, BoundsOK, WorkloadOK, Good, Next
<1>2. Idle.mention = NoMention /\ Ticking.held = NoMention /\ Resting.held = NoMention
  BY IdleOK, RestingOK
<1>3. \A m \in Mentions : m # NoMention
  OBVIOUS
\* What a step must show: where the names it leaves come from.
<1>4. ASSUME NEW p, Named(rt') \subseteq Abroad \cup {p, NoMention}, saved' \in {saved, rt'},
             worker'.mention \in Abroad \cup {NoMention},
             scheduler'.held \in Abroad \cup {NoMention},
             p \in Mentions => p \in Abroad \/ fate'[p] # "new",
             \A m \in Mentions : fate'[m] = "new" => fate[m] = "new"
      PROVE  NewIsNowhere'
  <2>1. Named(saved') \subseteq Named(saved) \cup Named(rt')
    BY <1>4
  <2>2. Abroad' \subseteq Abroad \cup {p, NoMention}
    BY <1>4, <2>1 DEF Abroad
  <2> QED
    BY <1>3, <1>4, <2>2 DEF NewIsNowhere
<1>5. /\ Named(rt) \subseteq Abroad /\ worker.mention \in Abroad /\ scheduler.held \in Abroad
      /\ \A i \in DOMAIN rt.tasks : rt.tasks[i].mention \in Abroad
      /\ \A i \in DOMAIN rt.deferred : rt.deferred[i] \in Abroad
  BY DEF Abroad, Named
<1>6. ASSUME Named(rt') \subseteq Abroad \cup {NoMention}, saved' \in {saved, rt'},
             worker'.mention \in Abroad \cup {NoMention},
             scheduler'.held \in Abroad \cup {NoMention},
             \A m \in Mentions : fate'[m] = "new" => fate[m] = "new"
      PROVE  NewIsNowhere'
  BY <1>3, <1>4, <1>6
<1>7. ASSUME NEW kind \in {"wake", "mention", "read"}, NEW mention \in Mentions \cup {NoMention},
             Payload(kind, mention), Enqueue(kind, mention)
      PROVE  /\ Named(rt') \subseteq Abroad \cup {mention} /\ saved' \in {saved, rt'}
             /\ worker'.mention \in Abroad \cup {NoMention}
  <2> DEFINE n == Enqueued(rt, kind, mention)
             t == NewTask(kind, mention, 0)
  <2>1. rt' = n /\ saved' \in {saved, rt'} /\ worker' \in {worker, Idle}
    BY <1>1, <1>7, EnqueueMoves
  <2>2. n.tasks = Append(rt.tasks, t) /\ n.deferred = rt.deferred
    BY <1>1, <1>7, EnqueuedGood
  <2>3. t.mention = mention
    BY DEF NewTask
  <2> HIDE DEF n, t
  <2>4. Named(n) \subseteq Named(rt) \cup {mention}
    BY <1>1, <2>2, <2>3, AppendNames
  <2> QED
    BY <1>2, <1>5, <2>1, <2>4
<1>8. ASSUME NEW m \in Mentions, PostMention(m) PROVE NewIsNowhere'
  <2>1. Enqueue("mention", m) /\ scheduler' = scheduler /\ fate' = [fate EXCEPT ![m] = "waiting"]
    BY <1>8 DEF PostMention
  <2>2. /\ Named(rt') \subseteq Abroad \cup {m} /\ saved' \in {saved, rt'}
        /\ worker'.mention \in Abroad \cup {NoMention}
    BY <1>7, <1>3, <2>1 DEF Payload
  <2>3. fate'[m] # "new" /\ \A o \in Mentions : fate'[o] = "new" => fate[o] = "new"
    BY <1>1, <2>1
  <2> QED
    BY <1>4, <1>5, <2>1, <2>2, <2>3
<1>9. ASSUME NEW kind \in {"wake", "read"}, Enqueue(kind, NoMention), fate' = fate,
             scheduler'.held \in {scheduler.held, NoMention}
      PROVE  NewIsNowhere'
  <2>1. /\ Named(rt') \subseteq Abroad \cup {NoMention} /\ saved' \in {saved, rt'}
        /\ worker'.mention \in Abroad \cup {NoMention}
    BY <1>7, <1>9 DEF Payload
  <2> QED
    BY <1>5, <1>6, <1>9, <2>1
<1>10. ASSUME NEW kind \in workload.tasks, PostTask(kind) PROVE NewIsNowhere'
  BY <1>1, <1>9, <1>10 DEF PostTask
<1>11. ASSUME EnqueueWake PROVE NewIsNowhere'
  <2>1. Enqueue("wake", NoMention) /\ fate' = fate /\ scheduler'.held = scheduler.held
    BY <1>1, <1>11 DEF EnqueueWake, RuntimeInv, SchedulerOK
  <2> QED
    BY <1>9, <2>1
<1>12. ASSUME Requeue PROVE NewIsNowhere'
  <2>1. Enqueue("mention", scheduler.held) /\ fate' = fate /\ scheduler' = Resting
        /\ scheduler.held \in Mentions
    BY <1>1, <1>12 DEF Requeue
  <2>2. /\ Named(rt') \subseteq Abroad \cup {scheduler.held} /\ saved' \in {saved, rt'}
        /\ worker'.mention \in Abroad \cup {NoMention}
    BY <1>3, <1>7, <2>1 DEF Payload
  <2> QED
    BY <1>2, <1>5, <1>6, <2>1, <2>2
\* A save of a state that names no more, by a step that leaves the fates alone or
\* settles one.
<1>13. ASSUME NEW n, Save(n), Named(n) \subseteq Abroad \cup {NoMention},
              worker'.mention \in Abroad \cup {NoMention},
              scheduler'.held \in Abroad \cup {NoMention},
              \A m \in Mentions : fate'[m] = "new" => fate[m] = "new"
       PROVE  NewIsNowhere'
  BY <1>1, <1>6, <1>13, SaveMoves
<1>14. ASSUME UNCHANGED <<rt, disk>>,
              worker'.mention \in Abroad \cup {NoMention},
              scheduler'.held \in Abroad \cup {NoMention},
              \A m \in Mentions : fate'[m] = "new" => fate[m] = "new"
       PROVE  NewIsNowhere'
  BY <1>5, <1>6, <1>14 DEF disk
<1>15. ASSUME NEW mode \in workload.modes, SetMode(mode) PROVE NewIsNowhere'
  <2> DEFINE n == [rt EXCEPT !.mode = mode, !.machine = Converged(Synced(rt), mode)]
  <2>1. Save(n) /\ fate' = fate /\ scheduler' = scheduler /\ worker' \in {worker, Idle}
    BY <1>15 DEF SetMode, NotifyWaiters
  <2>2. n.tasks = rt.tasks /\ n.deferred = rt.deferred
    BY <1>1, SetModeGood
  <2> HIDE DEF n
  <2>3. Named(n) = Named(rt)
    BY <2>2 DEF Named
  <2> QED
    BY <1>2, <1>5, <1>13, <2>1, <2>3
<1>16. ASSUME SetSchedule PROVE NewIsNowhere'
  <2>1. PICK enabled \in workload.settings : Save([rt EXCEPT !.schedule = enabled])
    BY <1>16 DEF SetSchedule
  <2> DEFINE n == [rt EXCEPT !.schedule = enabled]
  <2>2. n.tasks = rt.tasks /\ n.deferred = rt.deferred
    BY <1>1, ScheduleGood
  <2>3. Save(n) /\ fate' = fate /\ scheduler' = scheduler /\ worker' = worker
    BY <1>16, <2>1 DEF SetSchedule, history
  <2> HIDE DEF n
  <2>4. Named(n) = Named(rt)
    BY <2>2 DEF Named
  <2> QED
    BY <1>5, <1>13, <2>3, <2>4
<1>17. ASSUME MarkWake PROVE NewIsNowhere'
  <2> DEFINE n == Marked(rt)
  <2>1. Save(n) /\ fate' = fate /\ scheduler'.held = scheduler.held /\ worker' = worker
    BY <1>1, <1>17 DEF MarkWake, history, RuntimeInv, SchedulerOK
  <2>2. n.tasks = rt.tasks /\ n.deferred = rt.deferred
    BY <1>1, MarkedGood
  <2> HIDE DEF n
  <2>3. Named(n) = Named(rt)
    BY <2>2 DEF Named
  <2> QED
    BY <1>5, <1>13, <2>1, <2>3
<1>18. ASSUME Retry PROVE NewIsNowhere'
  <2>1. fate' = fate /\ worker' = worker
    BY <1>18 DEF Retry, history
  <2>2. CASE scheduler' = Resting /\ UNCHANGED <<rt, disk>>
    BY <1>2, <1>5, <1>14, <2>1, <2>2
  <2>3. CASE rt.deferred # <<>> /\ scheduler' = [at |-> "requeueing", held |-> Head(rt.deferred)]
             /\ Save(Popped(rt))
    <3> DEFINE n == Popped(rt)
    <3>1. n.tasks = rt.tasks /\ n.deferred = Tail(rt.deferred)
      BY <1>1, <2>3, PoppedGood
    <3>2. rt.deferred \in Seq(Mentions)
      BY <1>1 DEF DurableStates
    <3>3. /\ 1 \in DOMAIN rt.deferred /\ Head(rt.deferred) = rt.deferred[1]
          /\ \A i \in DOMAIN Tail(rt.deferred) :
               i + 1 \in DOMAIN rt.deferred /\ Tail(rt.deferred)[i] = rt.deferred[i + 1]
      BY <2>3, <3>2
    <3> HIDE DEF n
    <3>4. Named(n) \subseteq Named(rt)
      BY <3>1, <3>3 DEF Named
    <3>5. scheduler'.held \in Abroad
      BY <1>5, <2>3, <3>3
    <3> QED
      BY <1>5, <1>13, <2>1, <2>3, <3>4, <3>5 DEF n
  <2> QED
    BY <1>18, <2>2, <2>3 DEF Retry
<1>19. ASSUME ClaimNext PROVE NewIsNowhere'
  <2> DEFINE i == SelectInSeq(rt.tasks, Runnable)
             n == Claimed(rt)
  <2>1. Save(n) /\ fate' = fate /\ scheduler' = scheduler /\ i # 0
        /\ worker'.mention = rt.tasks[i].mention
    BY <1>19 DEF ClaimNext, beyond, Idle
  <2>2. From(n.tasks, rt.tasks) /\ n.deferred = rt.deferred
    BY <1>1, <2>1, ClaimedGood
  <2>3. i \in DOMAIN rt.tasks
    BY <1>1, <2>1, SelectFinds DEF DurableStates
  <2> HIDE DEF n, i
  <2>4. Named(n) \subseteq Named(rt)
    BY <2>2, FromNamesLess
  <2> QED
    BY <1>5, <1>13, <2>1, <2>3, <2>4
<1>20. ASSUME ClaimNothing PROVE NewIsNowhere'
  <2> DEFINE I == {j \in DOMAIN rt.tasks : IsRunning(rt.tasks[j])}
             n == [rt EXCEPT !.tasks = Picked(rt.tasks, I)]
  <2>1. (UNCHANGED <<rt, disk>> \/ Save(n)) /\ fate' = fate /\ scheduler' = scheduler
        /\ worker'.mention = worker.mention
    BY <1>1, <1>20 DEF ClaimNothing, beyond, RuntimeInv, WorkerOK
  <2>2. n.tasks = Picked(rt.tasks, I) /\ n.deferred = rt.deferred
    BY <1>1 DEF DurableStates
  <2>3. I \in SUBSET DOMAIN rt.tasks /\ rt.tasks \in Seq(Tasks)
    BY <1>1 DEF DurableStates
  <2> HIDE DEF I, n
  <2>4. Named(n) \subseteq Named(rt)
    BY <2>2, <2>3, PickedIsFrom, FromNamesLess
  <2> QED
    BY <1>5, <1>13, <1>14, <2>1, <2>4
<1>21. ASSUME Skip, UNCHANGED scheduler PROVE NewIsNowhere'
  <2>1. /\ Save(Skipped) /\ worker'.mention = worker.mention
        /\ \A m \in Mentions : fate'[m] = "new" => fate[m] = "new"
    BY <1>1, <1>21 DEF Skip, Skipped, RuntimeInv, WorkerOK
  <2>2. /\ Skipped.tasks = rt.tasks
        /\ Skipped.deferred = IF worker.kind = "mention"
                              THEN Defer(rt.deferred, worker.mention) ELSE rt.deferred
    BY <1>1, SkippedGood
  <2>3. Named(Skipped) \subseteq Named(rt) \cup {worker.mention}
    <3>1. CASE worker.kind = "mention"
      BY <1>1, <2>2, <3>1, DeferNames DEF Payload
    <3>2. CASE worker.kind # "mention"
      BY <2>2, <3>2 DEF Named
    <3> QED
      BY <3>1, <3>2
  <2> QED
    BY <1>5, <1>13, <1>21, <2>1, <2>3
<1>22. ASSUME Proceed, UNCHANGED scheduler PROVE NewIsNowhere'
  <2>1. /\ Save(Proceeded) /\ worker'.mention = worker.mention
        /\ fate' \in {fate, [fate EXCEPT ![worker.mention] = "failed"]}
    BY <1>1, <1>22 DEF Proceed, Proceeded, RuntimeInv, WorkerOK
  <2>2. \A m \in Mentions : fate'[m] = "new" => fate[m] = "new"
    BY <1>1, <2>1
  <2>3. Named(Proceeded) \subseteq Named(rt) \cup {NoMention}
    BY <1>1, ProceededGood DEF Named
  <2> QED
    BY <1>5, <1>13, <1>22, <2>1, <2>2, <2>3
<1>23. ASSUME Finish PROVE NewIsNowhere'
  <2> DEFINE i == SelectInSeq(rt.tasks, Performs)
             n == Without(rt, i)
  <2>1. Save(n) /\ fate' = fate /\ scheduler' = scheduler /\ worker' = Idle
    BY <1>23 DEF Finish, beyond
  <2> HIDE DEF i
  <2>2. From(n.tasks, rt.tasks) /\ n.deferred = rt.deferred
    BY <1>1, WithoutGood
  <2> HIDE DEF n
  <2>3. Named(n) \subseteq Named(rt)
    BY <2>2, FromNamesLess
  <2> QED
    BY <1>2, <1>5, <1>13, <2>1, <2>3
<1>24. ASSUME Tick \/ Park \/ BeginCall \/ LedgerMoves PROVE NewIsNowhere'
  <2>1. /\ UNCHANGED <<rt, disk>> /\ fate' = fate /\ scheduler'.held = scheduler.held
        /\ worker'.mention \in {worker.mention, NoMention}
    BY <1>1, <1>2, <1>24 DEF Tick, Park, BeginCall, LedgerMoves, history, beyond, RuntimeInv,
                            WorkerOK, SchedulerOK
  <2> QED
    BY <1>5, <1>14, <2>1
<1>25. ASSUME Decide \/ CallReturns PROVE NewIsNowhere'
  <2>1. /\ UNCHANGED <<rt, disk>> /\ scheduler' = scheduler /\ worker'.mention = worker.mention
        /\ \/ fate' = fate
           \/ \E f \in {"refused", "deliberated", "failed"} :
                fate' = [fate EXCEPT ![worker.mention] = f]
    BY <1>1, <1>25 DEF Decide, CallReturns, beyond, RuntimeInv, WorkerOK
  <2>2. \A m \in Mentions : fate'[m] = "new" => fate[m] = "new"
    BY <1>1, <2>1
  <2> QED
    BY <1>5, <1>14, <2>1, <2>2
<1>26. ASSUME Second PROVE NewIsNowhere'
  <2>1. /\ rt' = Aged(rt) /\ saved' = Aged(saved) /\ fate' = fate /\ worker' = worker
        /\ scheduler'.held \in {scheduler.held, NoMention}
    BY <1>2, <1>26 DEF Second
  <2>2. Named(Aged(rt)) \subseteq Named(rt)
    BY <1>1, AgedGood, FromNamesLess
  <2>3. Named(Aged(saved)) \subseteq Named(saved)
    BY <1>1, AgedGood, FromNamesLess
  <2>4. Abroad' \subseteq Abroad \cup {NoMention}
    BY <1>5, <2>1, <2>2, <2>3 DEF Abroad
  <2> QED
    BY <1>3, <2>1, <2>4 DEF NewIsNowhere
<1>27. ASSUME Restart PROVE NewIsNowhere'
  <2> DEFINE n == [saved EXCEPT !.machine = Synced(saved)]
  <2>1. rt' = n /\ saved' = n /\ worker' = Idle /\ scheduler' = Ticking /\ fate' = fate
    BY <1>27 DEF Restart
  <2>2. n.tasks = saved.tasks /\ n.deferred = saved.deferred
    BY <1>1, RestartedGood
  <2> HIDE DEF n
  <2>3. Named(n) = Named(saved)
    BY <2>2 DEF Named
  <2>4. Abroad' \subseteq Abroad \cup {NoMention}
    BY <1>2, <2>1, <2>3 DEF Abroad
  <2> QED
    BY <1>3, <2>1, <2>4 DEF NewIsNowhere
<1> QED
  BY <1>8, <1>10, <1>11, <1>12, <1>15, <1>16, <1>17, <1>18, <1>19, <1>20, <1>21, <1>22, <1>23,
     <1>24, <1>25, <1>26, <1>27 DEF Next, PreExecute

\* With no post there is nothing to settle.
LEMMA UnmentionedStep ==
  ASSUME RuntimeInv, NewIsNowhere, Unmentioned, workload.mentions = 0, Next
  PROVE  Unmentioned'
<1>1. /\ BoundsOK /\ burst = 0 /\ \A m \in Mentions : fate[m] = "new" /\ m \notin Abroad
      /\ Payload(worker.kind, worker.mention) /\ worker.mention \in Mentions \cup {NoMention}
      /\ \A i \in DOMAIN rt.deferred : rt.deferred[i] \in Mentions
  BY DEF RuntimeInv, WorkerOK, Unmentioned, NewIsNowhere, Good, DurableStates
<1>2. worker.kind # "mention"
  BY <1>1 DEF Abroad, Payload
<1>3. {m \in Mentions : fate[m] # "new"} = {} /\ ToSet(rt.deferred) = {}
  BY <1>1 DEF Abroad, Named, ToSet
<1>4. \A m \in Mentions : ~PostMention(m)
  <2>1. Cardinality({m \in Mentions : fate[m] # "new"}) = 0
    BY <1>3, FS_EmptySet
  <2> DEFINE posted == {n \in Mentions : fate[n] # "new"}
  <2>2. ASSUME NEW m \in Mentions, PostMention(m) PROVE Cardinality(posted) < workload.mentions
    BY <2>2 DEF PostMention
  <2>3. Cardinality(posted) = 0
    BY <2>1
  <2> HIDE DEF posted
  <2> QED
    BY <2>2, <2>3
<1>5. \A m : Slept(m) = 0
  BY <1>1 DEF Slept
<1>6. ASSUME fate' = fate, burst' \in {0, burst} PROVE Unmentioned'
  BY <1>1, <1>6 DEF Unmentioned
<1>7. ASSUME PreExecute PROVE Unmentioned'
  <2>1. burst' = 0
    BY <1>2, <1>5, <1>7 DEF PreExecute, Skip, Proceed
  <2>2. \A m \in Mentions : fate'[m] = "new"
    BY <1>1, <1>2, <1>3, <1>7 DEF PreExecute, Skip, Proceed
  <2> QED
    BY <2>1, <2>2 DEF Unmentioned
<1>8. ASSUME ClaimNext \/ ClaimNothing \/ Park \/ Decide \/ BeginCall \/ CallReturns \/ Finish
      PROVE  Unmentioned'
  BY <1>2, <1>6, <1>8
     DEF ClaimNext, ClaimNothing, Park, Decide, BeginCall, CallReturns, Finish, beyond
<1>9. ASSUME \/ \E kind \in workload.tasks : PostTask(kind)
             \/ \E mode \in workload.modes : SetMode(mode)
             \/ EnqueueWake \/ Requeue \/ LedgerMoves \/ Second \/ Restart
             \/ SetSchedule \/ Tick \/ MarkWake \/ Retry
      PROVE  Unmentioned'
  BY <1>5, <1>6, <1>9 DEF PostTask, SetMode, EnqueueWake, Requeue, LedgerMoves, Second, Restart,
                          SetSchedule, Tick, MarkWake, Retry, history
<1> QED
  BY <1>4, <1>7, <1>8, <1>9 DEF Next

LEMMA UnmentionedKept == UnmentionedInv /\ [Next]_vars => UnmentionedInv'
<1> SUFFICES ASSUME UnmentionedInv, [Next]_vars PROVE UnmentionedInv'
  OBVIOUS
<1>1. RuntimeInv' /\ UNCHANGED workload
  BY StepKeeps DEF UnmentionedInv, Next, vars
<1>2. CASE UNCHANGED vars
  <2>1. UNCHANGED <<rt, saved, worker, scheduler, fate, burst>>
    BY <1>2 DEF vars
  <2> QED
    BY <1>1, <2>1 DEF UnmentionedInv, NewIsNowhere, Abroad, Named, Unmentioned
<1>3. CASE Next
  BY <1>1, <1>3, NewStaysNowhere, UnmentionedStep DEF UnmentionedInv
<1> QED
  BY <1>2, <1>3

LEMMA UnmentionedAtFirst == Init => UnmentionedInv
<1> SUFFICES ASSUME Init PROVE UnmentionedInv
  OBVIOUS
<1>1. RuntimeInv
  BY InitKeeps
<1>2. Named(rt) = {} /\ Named(saved) = {}
  BY DEF Init, Named
<1>3. worker.mention = NoMention /\ scheduler.held = NoMention
  BY IdleOK, RestingOK DEF Init
<1>4. Unmentioned
  BY DEF Init, Unmentioned
<1> QED
  BY <1>1, <1>2, <1>3, <1>4 DEF UnmentionedInv, NewIsNowhere, Abroad

-----------------------------------------------------------------------------
(* What a burst of work considers.                                         *)

\* A run in which a consideration that was made may be forgotten, by a write that
\* fails and a crash, is not claimed to stay within one budget.
Remembered(w) == w.crashes = 0 \/ w.failures = 0 \/ w.mentions = 0

LEMMA BurstStep ==
  ASSUME BurstInv, Remembered(workload), Next
  PROVE  /\ workload.failures = 0 => saved' = rt'
         /\ Worked(rt'.machine, burst') /\ Worked(saved'.machine, 0)
         /\ burst' <= LeaseSteps
<1> DEFINE Goal == /\ workload.failures = 0 => saved' = rt'
                   /\ Worked(rt'.machine, burst') /\ Worked(saved'.machine, 0)
                   /\ burst' <= LeaseSteps
<1>1. /\ Good(rt) /\ Good(saved) /\ BoundsOK /\ overBudget \in BOOLEAN /\ UNCHANGED workload
      /\ Payload(worker.kind, worker.mention) /\ worker.mention \in Mentions \cup {NoMention}
      /\ scheduler.at = "requeueing" => scheduler.held \in Mentions
      /\ Sound(rt.machine, 0) /\ Sound(saved.machine, 0)
      /\ workload.tasks \subseteq {"wake", "read"} /\ workload.modes \subseteq Modes
      /\ workload.settings \subseteq BOOLEAN
  BY DEF BurstInv, UnmentionedInv, RuntimeInv, RecordOK, WorkerOK, SchedulerOK, BoundsOK,
         WorkloadOK, Good, Next
<1>2. /\ workload.failures = 0 => saved = rt
      /\ Worked(rt.machine, burst) /\ Worked(saved.machine, 0)
      /\ burst \in Nat /\ burst <= LeaseSteps /\ LeaseSteps \in Nat /\ LeaseSteps > 0
      /\ workload.failures \in Nat /\ workload.crashes \in Nat
  <2>1. WorkloadOK(workload)
    BY <1>1 DEF BoundsOK
  <2>2. /\ workload.failures = 0 => saved = rt
        /\ Worked(rt.machine, burst) /\ Worked(saved.machine, 0)
        /\ burst \in Nat /\ burst <= LeaseSteps
    BY DEF BurstInv, BurstWithinOneBudget, UnmentionedInv, RuntimeInv, RecordOK
  <2> QED
    BY <2>1, <2>2 DEF WorkloadOK
\* Less worked is still accounted for.
<1>3. ASSUME NEW m, NEW b \in Nat, Sound(m, 0), Worked(m, b) PROVE Worked(m, 0)
  <2>1. IsWorking(m) => m.lease.steps \in Nat
    BY <1>3 DEF Sound, Snapshots, Leases
  <2> QED
    BY <1>3, <2>1 DEF Worked
<1>4. ASSUME NEW n, Save(n), Sound(n.machine, 0), burst' \in Nat, burst' <= LeaseSteps,
             Worked(n.machine, burst')
      PROVE  Goal
  <2>1. rt' = n /\ saved' \in {saved, n} /\ (workload.failures = 0 => saved' = n)
    BY <1>1, <1>4, SaveMoves
  <2> QED
    BY <1>2, <1>3, <1>4, <2>1
\* A save of what Paced speaks of, by a step that notes whether the machine slept.
<1>5. ASSUME NEW n, NEW met, Save(n), Sound(n.machine, 0), burst' = Slept(met),
             \A b \in Nat : Worked(rt.machine, b) => Worked(n.machine, IF IsWorking(met) THEN b ELSE 0)
      PROVE  Goal
  BY <1>2, <1>4, <1>5 DEF Slept
<1>6. ASSUME NEW n, Save(n), Sound(n.machine, 0), burst' = burst,
             \A b \in Nat : Worked(rt.machine, b) => Worked(n.machine, b)
      PROVE  Goal
  BY <1>2, <1>4, <1>6
<1>7. ASSUME UNCHANGED <<rt, disk>>, burst' = burst PROVE Goal
  BY <1>2, <1>7 DEF disk
<1>8. ASSUME NEW kind \in {"wake", "mention", "read"}, NEW mention \in Mentions \cup {NoMention},
             Payload(kind, mention), Enqueue(kind, mention), burst' = Slept(Synced(rt))
      PROVE  Goal
  <2> DEFINE n == Enqueued(rt, kind, mention)
  <2>1. Save(n)
    BY <1>8 DEF Enqueue
  <2>2. Paced(rt.machine, Synced(rt), n.machine)
    BY <1>1, <1>8, EnqueuedGood
  <2> HIDE DEF n
  <2> QED
    BY <1>5, <1>8, <2>1, <2>2 DEF Paced
<1>9. ASSUME NEW m \in Mentions, PostMention(m) PROVE Goal
  BY <1>8, <1>9 DEF PostMention, Payload
<1>10. ASSUME NEW kind \in workload.tasks, PostTask(kind) PROVE Goal
  BY <1>1, <1>8, <1>10 DEF PostTask, Payload
<1>11. ASSUME EnqueueWake \/ Requeue PROVE Goal
  <2>1. /\ burst' = Slept(Synced(rt))
        /\ \/ Enqueue("wake", NoMention)
           \/ Enqueue("mention", scheduler.held) /\ scheduler.held \in Mentions
    BY <1>1, <1>11 DEF EnqueueWake, Requeue
  <2> QED
    BY <1>8, <2>1 DEF Payload
<1>12. ASSUME NEW mode \in workload.modes, SetMode(mode) PROVE Goal
  <2> DEFINE n == [rt EXCEPT !.mode = mode, !.machine = Converged(Synced(rt), mode)]
  <2>1. Save(n) /\ burst' = Slept(Synced(rt))
    BY <1>12 DEF SetMode
  <2>2. /\ Sound(n.machine, 0)
        /\ \A b \in Nat : Worked(rt.machine, b)
                             => Worked(n.machine, IF IsWorking(Synced(rt)) THEN b ELSE 0)
    BY <1>1, SetModeGood DEF Good
  <2> HIDE DEF n
  <2> QED
    BY <1>5, <2>1, <2>2
<1>13. ASSUME SetSchedule PROVE Goal
  <2>1. PICK enabled \in workload.settings : Save([rt EXCEPT !.schedule = enabled])
    BY <1>13 DEF SetSchedule
  <2> DEFINE n == [rt EXCEPT !.schedule = enabled]
  <2>2. n.machine = rt.machine
    BY <1>1, ScheduleGood
  <2>3. Save(n) /\ burst' = burst
    BY <1>13, <2>1 DEF SetSchedule, history
  <2> HIDE DEF n
  <2> QED
    BY <1>1, <1>6, <2>2, <2>3
<1>14. ASSUME MarkWake PROVE Goal
  BY <1>1, <1>6, <1>14, MarkedGood DEF MarkWake, history
<1>15. ASSUME Retry PROVE Goal
  <2>1. burst' = burst /\ (UNCHANGED <<rt, disk>> \/ (Save(Popped(rt)) /\ rt.deferred # <<>>))
    BY <1>15 DEF Retry, history
  <2> QED
    BY <1>1, <1>6, <1>7, <2>1, PoppedGood
<1>16. ASSUME ClaimNext PROVE Goal
  <2>1. Save(Claimed(rt)) /\ SelectInSeq(rt.tasks, Runnable) # 0 /\ burst' = burst
    BY <1>16 DEF ClaimNext
  <2> QED
    BY <1>1, <1>6, <2>1, ClaimedGood
<1>17. ASSUME ClaimNothing PROVE Goal
  <2> DEFINE n == [rt EXCEPT !.tasks = Picked(rt.tasks, {j \in DOMAIN rt.tasks : IsRunning(rt.tasks[j])})]
  <2>1. burst' = burst /\ (UNCHANGED <<rt, disk>> \/ Save(n))
    BY <1>17 DEF ClaimNothing
  <2>2. n.machine = rt.machine
    BY <1>1 DEF Good, DurableStates
  <2> HIDE DEF n
  <2> QED
    BY <1>1, <1>6, <1>7, <2>1, <2>2
<1>18. /\ Sound(Met, 0)
       /\ \A b \in Nat : Worked(rt.machine, b) => Worked(Met, IF IsWorking(Met) THEN b ELSE 0)
       /\ NeedsLease(worker.kind) => Met.state # "awake"
  BY <1>1, MetIsSound
<1>19. ASSUME Skip PROVE Goal
  <2>1. Save(Skipped) /\ burst' = Slept(Met)
    BY <1>19 DEF Skip, Skipped
  <2>2. Skipped.machine = Met
    BY <1>1, SkippedGood
  <2> QED
    BY <1>5, <1>18, <2>1, <2>2
\* A consideration is a step of a lease that is not used up.
<1>20. ASSUME Proceed PROVE Goal
  <2>1. /\ Save(Proceeded) /\ Admitted
        /\ burst' = IF worker.kind = "mention" THEN Slept(Met) + 1 ELSE Slept(Met)
    BY <1>20 DEF Proceed, Proceeded
  <2>2. Proceeded.machine = IF worker.kind = "mention" THEN RecordStep(Met, 0) ELSE Met
    BY <1>1, ProceededGood
  <2>3. CASE worker.kind = "mention"
    <3>1. IsWorking(Met) /\ HasLiveLease(Met, 0) /\ Met.state # "awake"
      BY <1>18, <2>1, <2>3 DEF Admitted, NeedsLease
    <3>2. Worked(Met, burst) /\ burst' = burst + 1
      BY <1>2, <1>18, <2>1, <2>3, <3>1 DEF Slept
    <3>3. Worked(RecordStep(Met, 0), burst + 1) /\ burst + 1 <= LeaseSteps
      BY <1>2, <1>18, <3>1, <3>2, StepIsWorked
    <3>4. Sound(RecordStep(Met, 0), 0)
      BY <1>18, RecordStepSound
    <3> QED
      BY <1>2, <1>4, <2>1, <2>2, <2>3, <3>2, <3>3, <3>4
  <2>4. CASE worker.kind # "mention"
    BY <1>5, <1>18, <2>1, <2>2, <2>4
  <2> QED
    BY <2>3, <2>4
<1>21. ASSUME Finish PROVE Goal
  <2> DEFINE i == SelectInSeq(rt.tasks, Performs)
             n == Without(rt, i)
  <2>1. Save(n) /\ burst' = burst
    BY <1>21 DEF Finish
  <2> HIDE DEF i
  <2>2. Good(n) /\ \A b \in Nat : Worked(rt.machine, b) => Worked(n.machine, b)
    BY <1>1, WithoutGood
  <2> HIDE DEF n
  <2> QED
    BY <1>6, <2>1, <2>2 DEF Good
<1>22. ASSUME Second PROVE Goal
  <2>1. rt' = Aged(rt) /\ saved' = Aged(saved) /\ burst' = burst
    BY <1>22 DEF Second
  <2>2. \A b \in Nat : Worked(rt.machine, b) => Worked(Aged(rt).machine, b)
    BY <1>1, AgedGood
  <2>3. \A b \in Nat : Worked(saved.machine, b) => Worked(Aged(saved).machine, b)
    BY <1>1, AgedGood
  <2>4. 0 \in Nat
    OBVIOUS
  <2>5. Worked(rt'.machine, burst') /\ Worked(saved'.machine, 0)
    BY <1>2, <2>1, <2>2, <2>3, <2>4
  <2>6. workload.failures = 0 => saved' = rt'
    BY <1>2, <2>1
  <2> QED
    BY <1>2, <2>1, <2>5, <2>6
\* What a restart finds in the file is what the memory held, or nothing was
\* ever considered.
<1>23. ASSUME Restart PROVE Goal
  <2> DEFINE n == [saved EXCEPT !.machine = Synced(saved)]
  <2>1. rt' = n /\ saved' = n /\ burst' = Slept(Synced(saved))
    BY <1>23 DEF Restart
  <2>2. n.machine = Synced(saved)
    BY <1>1, RestartedGood
  <2> HIDE DEF n
  <2>3. workload.crashes # 0
    <3>1. crashes \in 0 .. workload.crashes /\ crashes < workload.crashes
      BY <1>1, <1>23 DEF Restart, BoundsOK
    <3> HIDE DEF n
    <3> QED
      BY <3>1
  <2>4. Worked(saved.machine, burst)
    <3>1. CASE workload.failures = 0
      BY <1>2, <3>1
    <3>2. CASE workload.mentions = 0
      BY <1>2, <3>2 DEF BurstInv, UnmentionedInv, Unmentioned
    <3> QED
      BY <2>3, <3>1, <3>2 DEF Remembered
  <2>5. Paced(saved.machine, Synced(saved), Synced(saved))
    BY <1>1, SyncedIsPaced
  <2>6. Worked(Synced(saved), burst')
    BY <1>2, <2>1, <2>4, <2>5 DEF Paced, Slept
  <2>7. burst' \in Nat /\ burst' <= LeaseSteps
    BY <1>2, <2>1 DEF Slept
  <2> QED
    BY <1>3, <2>1, <2>2, <2>5, <2>6, <2>7 DEF Paced
<1>24. ASSUME Tick \/ Park \/ Decide \/ BeginCall \/ CallReturns \/ LedgerMoves PROVE Goal
  BY <1>7, <1>24 DEF Tick, Park, Decide, BeginCall, CallReturns, LedgerMoves, history
<1> HIDE DEF Goal
<1>25. Goal
  BY <1>9, <1>10, <1>11, <1>12, <1>13, <1>14, <1>15, <1>16, <1>17, <1>19, <1>20, <1>21, <1>22,
     <1>23, <1>24 DEF Next, PreExecute
<1> QED
  BY <1>25 DEF Goal

\* However triggers, recoveries, restarts and failed writes interleave, the machine
\* works through at most one step budget of considerations before it sleeps
\* (enter_work, recover, record_step, pre_execute_hooks).  A crash may forget a
\* consideration whose write failed: no run is meant that has all three.
THEOREM BurstStaysWithinOneBudget ==
  ASSUME \A w \in Workloads : Remembered(w)
  PROVE  Spec => []BurstWithinOneBudget
<1>1. Init => BurstInv
  <2> SUFFICES ASSUME Init PROVE BurstInv
    OBVIOUS
  <2>1. UnmentionedInv
    BY UnmentionedAtFirst
  <2>2. saved = rt /\ rt.machine = Fresh /\ burst = 0
    BY DEF Init
  <2>3. Worked(Fresh, 0) /\ 0 <= LeaseSteps
    BY DEF Worked, Fresh, IsWorking, WorkingStates
  <2> QED
    BY <2>1, <2>2, <2>3 DEF BurstInv, BurstWithinOneBudget
<1>2. BurstInv /\ [Next]_vars => BurstInv'
  <2> SUFFICES ASSUME BurstInv, [Next]_vars PROVE BurstInv'
    OBVIOUS
  <2>1. UnmentionedInv'
    BY UnmentionedKept DEF BurstInv
  <2>2. workload' = workload /\ Remembered(workload)
    BY DEF BurstInv, UnmentionedInv, RuntimeInv, BoundsOK, Next, vars
  <2>3. CASE UNCHANGED vars
    BY <2>1, <2>3 DEF BurstInv, BurstWithinOneBudget, vars
  <2>4. CASE Next
    BY <2>1, <2>2, <2>4, BurstStep DEF BurstInv, BurstWithinOneBudget
  <2> QED
    BY <2>3, <2>4
<1>3. BurstInv => BurstWithinOneBudget
  BY DEF BurstInv
<1> QED
  BY <1>1, <1>2, <1>3, PTL DEF Spec

-----------------------------------------------------------------------------
(* Where mentions go: the queue, the worker, the pen, the scheduler.        *)

LEMMA AppendQueues ==
  ASSUME NEW q \in Seq(Tasks), NEW t, IsQueued(t), NEW m
  PROVE  QueuedAt(Append(q, t), m) =
           QueuedAt(q, m) \cup (IF t.mention = m THEN {Len(q) + 1} ELSE {})
<1> DEFINE n == Append(q, t)
<1>1. /\ Len(q) \in Nat
      /\ DOMAIN n = 1..(Len(q) + 1) /\ DOMAIN q = 1..Len(q)
      /\ n[Len(q) + 1] = t /\ \A i \in DOMAIN q : n[i] = q[i]
  OBVIOUS
<1> HIDE DEF n
<1>2. \A i \in DOMAIN n : (i \in DOMAIN q /\ n[i] = q[i]) \/ i = Len(q) + 1
  BY <1>1
<1>3. Len(q) + 1 \in DOMAIN n /\ Len(q) + 1 \notin DOMAIN q /\ DOMAIN q \subseteq DOMAIN n
  BY <1>1
<1>4. QueuedAt(n, m) = QueuedAt(q, m) \cup (IF t.mention = m THEN {Len(q) + 1} ELSE {})
  BY <1>1, <1>2, <1>3 DEF QueuedAt
<1> QED
  BY <1>4 DEF n

LEMMA PickedQueues ==
  ASSUME NEW p \in Seq(Tasks), NEW I \in SUBSET (DOMAIN p), NEW m
  PROVE  LET q == Picked(p, I)
         IN /\ Single(QueuedAt(p, m)) => Single(QueuedAt(q, m))
            /\ QueuedAt(q, m) # {} <=> QueuedAt(p, m) \cap I # {}
<1> DEFINE q == Picked(p, I)
<1>1. /\ DOMAIN q = 1..Cardinality(I)
      /\ \A k \in DOMAIN q : Nth(I, k) \in I /\ q[k] = p[Nth(I, k)]
      /\ \A k, l \in DOMAIN q : k # l => Nth(I, k) # Nth(I, l)
  BY PickedIsSeq
<1>2. \A i \in I : \E k \in DOMAIN q : Nth(I, k) = i
  <2>1. DOMAIN p = 1..Len(p) /\ Len(p) \in Nat
    OBVIOUS
  <2>2. IsFiniteSet(1..Len(p))
    BY <2>1, FS_Interval
  <2>3. IsFiniteSet(I)
    BY <2>1, <2>2, FS_Subset
  <2>4. I \in SUBSET Nat
    BY <2>1
  <2> QED
    BY <1>1, <2>3, <2>4, NthCovers
<1> HIDE DEF q
<1>3. Single(QueuedAt(p, m)) => Single(QueuedAt(q, m))
  BY <1>1 DEF Single, QueuedAt
<1>4. QueuedAt(q, m) # {} => QueuedAt(p, m) \cap I # {}
  BY <1>1 DEF QueuedAt
<1>5. QueuedAt(p, m) \cap I # {} => QueuedAt(q, m) # {}
  BY <1>1, <1>2 DEF QueuedAt
<1> QED
  BY <1>3, <1>4, <1>5 DEF q

\* The claimed task leaves the queue, and of the rest only lapsed proposals do.
LEMMA ClaimedQueues ==
  ASSUME NEW r, Good(r), SelectInSeq(r.tasks, Runnable) # 0, NEW m \in Mentions
  PROVE  LET i == SelectInSeq(r.tasks, Runnable)
             q == Claimed(r).tasks
         IN /\ i \in DOMAIN r.tasks /\ IsQueued(r.tasks[i])
            /\ Single(QueuedAt(r.tasks, m)) => Single(QueuedAt(q, m))
            /\ QueuedAt(q, m) # {} <=> QueuedAt(r.tasks, m) \ {i} # {}
<1> DEFINE i == SelectInSeq(r.tasks, Runnable)
           started == [r.tasks EXCEPT ![i].status = "running"]
           I == {j \in DOMAIN started : j >= i \/ IsRunning(started[j])}
<1>1. r \in DurableStates /\ r.tasks \in Seq(Tasks) /\ Payloads(r)
  BY DEF Good, DurableStates
<1>2. /\ i \in DOMAIN r.tasks /\ Runnable(r.tasks[i])
      /\ \A j \in DOMAIN r.tasks : j < i => ~Runnable(r.tasks[j])
  BY <1>1, SelectFinds
<1>3. Claimed(r).tasks = Picked(started, I)
  BY <1>1 DEF Claimed, DurableStates
<1> HIDE DEF i
<1>4. r.tasks[i] \in Tasks /\ IsQueued(r.tasks[i])
  BY <1>1, <1>2 DEF Runnable
<1>5. /\ DOMAIN started = DOMAIN r.tasks /\ started \in Seq(Tasks)
      /\ \A j \in DOMAIN r.tasks :
           started[j] = IF j = i THEN [r.tasks[i] EXCEPT !.status = "running"] ELSE r.tasks[j]
  BY <1>1, <1>2, StartedTasks
<1>6. /\ ~IsQueued(started[i])
      /\ \A j \in DOMAIN r.tasks : j # i => started[j] = r.tasks[j]
  BY <1>2, <1>4, <1>5 DEF Tasks, IsQueued
<1> HIDE DEF started
<1>7. QueuedAt(started, m) = QueuedAt(r.tasks, m) \ {i}
  BY <1>5, <1>6 DEF QueuedAt
<1>8. ASSUME NEW j \in QueuedAt(started, m) PROVE j \in I
  <2>1. j \in DOMAIN r.tasks /\ r.tasks[j].mention = m /\ IsQueued(r.tasks[j]) /\ j \in DOMAIN started
    BY <1>5, <1>7, <1>8 DEF QueuedAt
  <2>2. r.tasks[j].kind = "mention"
    BY <1>1, <2>1 DEF Payloads, Payload
  <2>3. Runnable(r.tasks[j])
    BY <2>1, <2>2, KindsOfTasks DEF Runnable, Lapsed, Sleeping
  <2>4. j \in Int /\ i \in Int
    BY <1>1, <1>2, <2>1
  <2> QED
    BY <1>2, <2>1, <2>3, <2>4
<1>9. I \in SUBSET (DOMAIN started)
  OBVIOUS
<1> HIDE DEF I
<1>10. /\ Single(QueuedAt(started, m)) => Single(QueuedAt(Picked(started, I), m))
       /\ QueuedAt(Picked(started, I), m) # {} <=> QueuedAt(started, m) \cap I # {}
  BY <1>5, <1>9, PickedQueues
<1>11. Single(QueuedAt(r.tasks, m)) => Single(QueuedAt(started, m))
  BY <1>7 DEF Single
<1>12. QueuedAt(started, m) \cap I = QueuedAt(started, m)
  BY <1>8
<1> QED
  BY <1>2, <1>3, <1>4, <1>7, <1>10, <1>11, <1>12 DEF i

\* A queue of which nothing may run holds no mention that waits.
LEMMA IdleQueueHoldsNone ==
  ASSUME NEW r, Good(r), SelectInSeq(r.tasks, Runnable) = 0, NEW m \in Mentions
  PROVE  QueuedAt(r.tasks, m) = {}
<1>1. r.tasks \in Seq(Tasks) /\ Payloads(r)
  BY DEF Good, DurableStates
<1>2. \A j \in DOMAIN r.tasks : ~Runnable(r.tasks[j])
  BY <1>1, SelectFinds
<1>3. ASSUME NEW j \in QueuedAt(r.tasks, m) PROVE FALSE
  <2>1. j \in DOMAIN r.tasks /\ r.tasks[j].mention = m /\ IsQueued(r.tasks[j])
    BY <1>3 DEF QueuedAt
  <2>2. r.tasks[j].kind = "mention"
    BY <1>1, <2>1 DEF Payloads, Payload
  <2> QED
    BY <1>2, <2>1, <2>2, KindsOfTasks DEF Runnable, Lapsed, Sleeping
<1> QED
  BY <1>3

\* What finish removes has started.
LEMMA WithoutQueues ==
  ASSUME NEW r, Good(r), NEW m
  PROVE  LET i == SelectInSeq(r.tasks, Performs)
             n == Without(r, i)
         IN /\ Single(QueuedAt(r.tasks, m)) => Single(QueuedAt(n.tasks, m))
            /\ QueuedAt(n.tasks, m) # {} <=> QueuedAt(r.tasks, m) # {}
<1> DEFINE i == SelectInSeq(r.tasks, Performs)
           I == DOMAIN r.tasks \ {i}
<1>1. r.tasks \in Seq(Tasks)
  BY DEF Good, DurableStates
<1>2. i # 0 => i \in DOMAIN r.tasks /\ Performs(r.tasks[i])
  BY <1>1, SelectFinds
<1>3. 0 \notin DOMAIN r.tasks
  BY <1>1
<1> HIDE DEF i
<1>4. Without(r, i).tasks = Picked(r.tasks, I)
  BY WithoutGood
<1>5. QueuedAt(r.tasks, m) \subseteq I
  BY <1>2, <1>3 DEF QueuedAt, Performs, IsRunning, IsQueued
<1>6. I \in SUBSET (DOMAIN r.tasks) /\ QueuedAt(r.tasks, m) \cap I = QueuedAt(r.tasks, m)
  BY <1>5
<1> HIDE DEF I
<1> QED
  BY <1>1, <1>4, <1>6, PickedQueues DEF i

LEMMA TailHolds ==
  ASSUME NEW pen \in Seq(Mentions), pen # <<>>, NEW m
  PROVE  /\ Single(HeldAt(pen, m)) => Single(HeldAt(Tail(pen), m))
         /\ HeldAt(Tail(pen), m) # {} <=> HeldAt(pen, m) \ {1} # {}
         /\ 1 \in DOMAIN pen /\ Head(pen) = pen[1]
<1>1. /\ Len(pen) \in Nat /\ Len(pen) > 0 /\ DOMAIN pen = 1..Len(pen)
      /\ Tail(pen) \in Seq(Mentions) /\ DOMAIN Tail(pen) = 1..(Len(pen) - 1)
      /\ \A i \in DOMAIN Tail(pen) : Tail(pen)[i] = pen[i + 1]
      /\ Head(pen) = pen[1]
  OBVIOUS
<1> DEFINE rest == Tail(pen)
<1> HIDE DEF rest
<1>2. \A i \in HeldAt(rest, m) : i \in Int /\ i + 1 \in HeldAt(pen, m) \ {1}
  BY <1>1 DEF HeldAt, rest
<1>3. \A i \in HeldAt(pen, m) \ {1} : i - 1 \in HeldAt(rest, m)
  <2> SUFFICES ASSUME NEW i \in HeldAt(pen, m) \ {1} PROVE i - 1 \in HeldAt(rest, m)
    OBVIOUS
  <2>1. i \in 2..Len(pen) /\ pen[i] = m
    BY <1>1 DEF HeldAt
  <2>2. i - 1 \in DOMAIN Tail(pen) /\ (i - 1) + 1 = i
    BY <1>1, <2>1
  <2> QED
    BY <1>1, <2>1, <2>2 DEF HeldAt, rest
<1>4. Single(HeldAt(pen, m)) => Single(HeldAt(rest, m))
  BY <1>2 DEF Single
<1>5. HeldAt(rest, m) # {} <=> HeldAt(pen, m) \ {1} # {}
  BY <1>2, <1>3
<1>6. 1 \in DOMAIN pen
  BY <1>1
<1> QED
  BY <1>1, <1>4, <1>5, <1>6 DEF rest

\* A mention that is deferred is the last of the pen, and the first has to leave
\* a pen that was full.
LEMMA DeferHolds ==
  ASSUME NEW pen \in Seq(Mentions), NEW w \in Mentions, NEW m \in Mentions,
         Single(HeldAt(pen, m)), m = w => HeldAt(pen, m) = {}
  PROVE  LET kept == Defer(pen, w)
         IN /\ Single(HeldAt(kept, m))
            /\ m = w => HeldAt(kept, m) # {}
            /\ m # w /\ HeldAt(kept, m) # {} => HeldAt(pen, m) # {}
<1> DEFINE longer == Append(pen, w)
<1>1. /\ longer \in Seq(Mentions) /\ Len(pen) \in Nat /\ Len(longer) = Len(pen) + 1
      /\ DOMAIN longer = 1..(Len(pen) + 1) /\ DOMAIN pen = 1..Len(pen)
      /\ longer[Len(pen) + 1] = w /\ \A i \in DOMAIN pen : longer[i] = pen[i]
  OBVIOUS
<1>2. Defer(pen, w) = IF Len(longer) > MaxDeferred THEN Tail(longer) ELSE longer
  BY DEF Defer
<1> HIDE DEF longer
<1>3. \A i \in DOMAIN longer : i \in DOMAIN pen \/ i = Len(pen) + 1
  BY <1>1
<1>4. /\ Len(pen) + 1 \in DOMAIN longer /\ Len(pen) + 1 \notin DOMAIN pen
      /\ DOMAIN pen \subseteq DOMAIN longer
  BY <1>1
<1>5. HeldAt(longer, m) = HeldAt(pen, m) \cup (IF m = w THEN {Len(pen) + 1} ELSE {})
  BY <1>1, <1>3, <1>4 DEF HeldAt
<1>6. Single(HeldAt(longer, m))
  BY <1>5 DEF Single
<1>7. longer # <<>>
  BY <1>1
<1>8. CASE Len(longer) > MaxDeferred
  <2>1. Len(pen) + 1 # 1
    BY <1>1, <1>8
  <2>2. /\ Single(HeldAt(Tail(longer), m))
        /\ HeldAt(Tail(longer), m) # {} <=> HeldAt(longer, m) \ {1} # {}
    BY <1>1, <1>6, <1>7, TailHolds
  <2> QED
    BY <1>2, <1>5, <1>8, <2>1, <2>2
<1>9. CASE ~(Len(longer) > MaxDeferred)
  BY <1>2, <1>5, <1>6, <1>9
<1> QED
  BY <1>8, <1>9

LEMMA ConservedStep ==
  ASSUME RuntimeInv, NEW m \in Mentions, Placed(m),
         workload.crashes = 0, workload.failures = 0, Next
  PROVE  Placed(m)'
<1>1. /\ Good(rt) /\ BoundsOK /\ overBudget \in BOOLEAN /\ UNCHANGED workload
      /\ Payload(worker.kind, worker.mention) /\ worker.mention \in Mentions \cup {NoMention}
      /\ worker \in [at : {"idle", "parking", "waiting", "claimed", "deciding",
                           "cleared", "calling", "finishing"},
                     kind : TaskKinds, mention : Mentions \cup {NoMention}, model : BOOLEAN]
      /\ scheduler \in [at : {"sleeping", "ticking", "waking", "marking", "retrying",
                              "requeueing"},
                        held : Mentions \cup {NoMention}]
      /\ (scheduler.at = "requeueing") <=> (scheduler.held # NoMention)
      /\ rt \in DurableStates
      /\ workload.tasks \subseteq {"wake", "read"} /\ workload.modes \subseteq Modes
      /\ workload.settings \subseteq BOOLEAN
      /\ fate \in [Mentions -> {"new", "waiting", "dropped", "refused", "failed", "deliberated"}]
  BY DEF RuntimeInv, RecordOK, WorkerOK, SchedulerOK, BoundsOK, WorkloadOK, Good, Next
<1>2. /\ Idle.at = "idle" /\ Ticking.held = NoMention /\ Resting.held = NoMention
      /\ m # NoMention
  BY IdleOK, RestingOK
<1>3. ASSUME NEW n, Save(n) PROVE rt' = n /\ ~SaveFailed
  BY <1>1, <1>3, SaveMoves
<1> DEFINE Q == QueuedAt(rt.tasks, m)
           D == HeldAt(rt.deferred, m)
           R == QueuedAt(rt'.tasks, m)
           E == HeldAt(rt'.deferred, m)
           Waits == fate[m] = "waiting"
<1>4. OnePlace(Q, D, scheduler.held = m, InHand(m), Waits)
  BY DEF Placed
<1>5. ASSUME OnePlace(R, E, scheduler'.held = m, InHand(m)', fate'[m] = "waiting")
      PROVE  Placed(m)'
  BY <1>5 DEF Placed
<1> HIDE DEF Q, D, R, E
\* Nothing to do with m.
<1>6. ASSUME Single(Q) => Single(R), R # {} <=> Q # {},
             Single(D) => Single(E), E # {} <=> D # {},
             scheduler'.held = m <=> scheduler.held = m, InHand(m)' <=> InHand(m),
             fate'[m] = fate[m]
      PROVE  Placed(m)'
  BY <1>4, <1>5, <1>6 DEF OnePlace
<1>7. rt'.tasks = rt.tasks => R = Q
  BY DEF Q, R
<1>8. rt'.deferred = rt.deferred => E = D
  BY DEF D, E
<1>9. UNCHANGED <<rt, disk>> => R = Q /\ E = D
  BY <1>7, <1>8
<1>10. ASSUME \/ worker' = worker
              \/ /\ worker.at \in {"idle", "parking", "waiting", "finishing"}
                 /\ worker'.at \in {"idle", "parking", "waiting", "finishing"}
       PROVE  InHand(m)' <=> InHand(m)
  BY <1>10 DEF InHand
<1>11. ASSUME NEW kind \in {"wake", "mention", "read"}, NEW w \in Mentions \cup {NoMention},
              Payload(kind, w), Enqueue(kind, w)
       PROVE  /\ R = Q \cup (IF w = m THEN {Len(rt.tasks) + 1} ELSE {}) /\ E = D
              /\ InHand(m)' <=> InHand(m)
  <2> DEFINE n == Enqueued(rt, kind, w)
  <2>1. Save(n) /\ (NotifyOne \/ worker' = worker)
    BY <1>11 DEF Enqueue
  <2>2. n.tasks = Append(rt.tasks, NewTask(kind, w, 0)) /\ n.deferred = rt.deferred
    BY <1>1, <1>11, EnqueuedGood
  <2> HIDE DEF n
  <2>3. rt' = n
    BY <1>3, <2>1
  <2>4. QueuedAt(n.tasks, m) =
          QueuedAt(rt.tasks, m) \cup (IF w = m THEN {Len(rt.tasks) + 1} ELSE {})
    <3> DEFINE t == NewTask(kind, w, 0)
    <3>1. rt.tasks \in Seq(Tasks) /\ n.tasks = Append(rt.tasks, t)
      BY <1>1, <2>2 DEF DurableStates
    <3>2. IsQueued(t) /\ t.mention = w
      BY DEF NewTask, IsQueued
    <3> HIDE DEF t
    <3>3. QueuedAt(Append(rt.tasks, t), m) =
            QueuedAt(rt.tasks, m) \cup (IF t.mention = m THEN {Len(rt.tasks) + 1} ELSE {})
      BY <3>1, <3>2, AppendQueues
    <3> QED
      BY <3>1, <3>2, <3>3
  <2>5. InHand(m)' <=> InHand(m)
    BY <1>2, <1>10, <2>1 DEF NotifyOne
  <2> QED
    BY <1>8, <2>2, <2>3, <2>4, <2>5 DEF Q, R
<1>12. ASSUME NEW kind \in {"wake", "read"}, Enqueue(kind, NoMention), fate' = fate,
              scheduler'.held = scheduler.held
       PROVE  Placed(m)'
  <2>1. Payload(kind, NoMention) /\ kind \in {"wake", "mention", "read"} /\ NoMention # m
    BY <1>2, <1>12 DEF Payload
  <2>2. /\ R = Q \cup (IF NoMention = m THEN {Len(rt.tasks) + 1} ELSE {}) /\ E = D
        /\ InHand(m)' <=> InHand(m)
    BY <1>11, <1>12, <2>1
  <2>3. R = Q /\ E = D /\ (InHand(m)' <=> InHand(m))
    BY <2>1, <2>2
  <2> QED
    BY <1>6, <1>12, <2>3
<1>13. ASSUME NEW p \in Mentions, PostMention(p) PROVE Placed(m)'
  <2>1. Enqueue("mention", p) /\ scheduler' = scheduler /\ fate[p] = "new"
        /\ fate' = [fate EXCEPT ![p] = "waiting"]
    BY <1>13 DEF PostMention
  <2>2. /\ R = Q \cup (IF p = m THEN {Len(rt.tasks) + 1} ELSE {}) /\ E = D
        /\ InHand(m)' <=> InHand(m)
    BY <1>11, <2>1 DEF Payload
  <2>3. CASE p = m
    <3>1. R = {Len(rt.tasks) + 1} /\ E = {} /\ scheduler'.held # m /\ ~InHand(m)'
      BY <1>4, <2>1, <2>2, <2>3 DEF OnePlace
    <3>2. fate'[m] = "waiting" /\ Single(R) /\ Single(E) /\ R # {}
      BY <1>1, <2>1, <2>3, <3>1 DEF Single
    <3> QED
      BY <1>5, <3>1, <3>2 DEF OnePlace
  <2>4. CASE p # m
    BY <1>1, <1>6, <2>1, <2>2, <2>4
  <2> QED
    BY <2>3, <2>4
<1>14. ASSUME NEW kind \in workload.tasks, PostTask(kind) PROVE Placed(m)'
  BY <1>1, <1>12, <1>14 DEF PostTask
<1>15. ASSUME EnqueueWake PROVE Placed(m)'
  <2>1. Enqueue("wake", NoMention) /\ fate' = fate /\ scheduler'.held = scheduler.held
    BY <1>1, <1>15 DEF EnqueueWake
  <2> QED
    BY <1>12, <2>1
\* What the scheduler held is in the queue.
<1>16. ASSUME Requeue PROVE Placed(m)'
  <2>1. Enqueue("mention", scheduler.held) /\ fate' = fate /\ scheduler' = Resting
        /\ scheduler.held \in Mentions
    BY <1>1, <1>16 DEF Requeue
  <2>2. /\ R = Q \cup (IF scheduler.held = m THEN {Len(rt.tasks) + 1} ELSE {}) /\ E = D
        /\ InHand(m)' <=> InHand(m)
    BY <1>2, <1>11, <2>1 DEF Payload
  <2>3. scheduler'.held # m
    BY <1>2, <2>1
  <2>4. CASE scheduler.held = m
    <3>1. R = {Len(rt.tasks) + 1} /\ E = {} /\ ~InHand(m)' /\ fate'[m] = "waiting"
      BY <1>4, <2>1, <2>2, <2>4 DEF OnePlace
    <3>2. Single(R) /\ Single(E) /\ R # {}
      BY <3>1 DEF Single
    <3> QED
      BY <1>5, <2>3, <3>1, <3>2 DEF OnePlace
  <2>5. CASE scheduler.held # m
    BY <1>6, <2>1, <2>2, <2>3, <2>5
  <2> QED
    BY <2>4, <2>5
<1>17. ASSUME NEW n, Save(n), n.tasks = rt.tasks, n.deferred = rt.deferred,
              scheduler'.held = m <=> scheduler.held = m, InHand(m)' <=> InHand(m), fate' = fate
       PROVE  Placed(m)'
  <2>1. rt' = n
    BY <1>3, <1>17
  <2>2. R = Q /\ E = D
    BY <1>7, <1>8, <1>17, <2>1
  <2> QED
    BY <1>6, <1>17, <2>2
<1>18. ASSUME NEW mode \in workload.modes, SetMode(mode) PROVE Placed(m)'
  <2> DEFINE n == [rt EXCEPT !.mode = mode, !.machine = Converged(Synced(rt), mode)]
  <2>1. Save(n) /\ fate' = fate /\ scheduler' = scheduler
        /\ (worker' = worker \/ (worker.at = "waiting" /\ worker' = Idle))
    BY <1>18 DEF SetMode, NotifyWaiters
  <2>2. n.tasks = rt.tasks /\ n.deferred = rt.deferred
    BY <1>1 DEF DurableStates
  <2> HIDE DEF n
  <2>3. InHand(m)' <=> InHand(m)
    BY <1>2, <1>10, <2>1
  <2> QED
    BY <1>17, <2>1, <2>2, <2>3
<1>19. ASSUME SetSchedule PROVE Placed(m)'
  <2>1. PICK enabled \in workload.settings : Save([rt EXCEPT !.schedule = enabled])
    BY <1>19 DEF SetSchedule
  <2> DEFINE n == [rt EXCEPT !.schedule = enabled]
  <2>2. n.tasks = rt.tasks /\ n.deferred = rt.deferred
    BY <1>1, ScheduleGood
  <2>3. Save(n) /\ fate' = fate /\ scheduler' = scheduler /\ worker' = worker
    BY <1>19, <2>1 DEF SetSchedule, history
  <2> HIDE DEF n
  <2> QED
    BY <1>10, <1>17, <2>2, <2>3
<1>20. ASSUME MarkWake PROVE Placed(m)'
  <2> DEFINE n == Marked(rt)
  <2>1. Save(n) /\ fate' = fate /\ scheduler'.held = scheduler.held /\ worker' = worker
    BY <1>1, <1>20 DEF MarkWake, history
  <2>2. n.tasks = rt.tasks /\ n.deferred = rt.deferred
    BY <1>1, MarkedGood
  <2> HIDE DEF n
  <2> QED
    BY <1>10, <1>17, <2>1, <2>2
\* The first of the pen is in the scheduler's hand.
<1>21. ASSUME Retry PROVE Placed(m)'
  <2>1. fate' = fate /\ worker' = worker /\ scheduler.held = NoMention
    BY <1>1, <1>21 DEF Retry, history
  <2>2. InHand(m)' <=> InHand(m)
    BY <1>10, <2>1
  <2>3. CASE scheduler' = Resting /\ UNCHANGED <<rt, disk>>
    BY <1>2, <1>6, <1>9, <2>1, <2>2, <2>3
  <2>4. CASE rt.deferred # <<>> /\ scheduler' = [at |-> "requeueing", held |-> Head(rt.deferred)]
             /\ Save(Popped(rt))
    <3>1. Popped(rt).tasks = rt.tasks /\ Popped(rt).deferred = Tail(rt.deferred)
      BY <1>1, <2>4, PoppedGood
    <3>2. rt' = Popped(rt)
      BY <1>3, <2>4
    <3>3. rt.deferred \in Seq(Mentions)
      BY <1>1 DEF DurableStates
    <3>4. /\ Single(D) => Single(E)
          /\ E # {} <=> D \ {1} # {}
          /\ 1 \in DOMAIN rt.deferred /\ Head(rt.deferred) = rt.deferred[1]
      BY <2>4, <3>1, <3>2, <3>3, TailHolds DEF D, E
    <3>5. R = Q /\ scheduler'.held = rt.deferred[1] /\ (1 \in D <=> rt.deferred[1] = m)
      BY <1>7, <2>4, <3>1, <3>2, <3>4 DEF D, HeldAt
    <3>6. CASE 1 \in D
      <4>1. E = {} /\ R = {} /\ scheduler'.held = m /\ ~InHand(m)' /\ fate'[m] = "waiting"
        BY <1>4, <2>1, <2>2, <3>4, <3>5, <3>6 DEF OnePlace, Single
      <4>2. Single(R) /\ Single(E)
        BY <4>1 DEF Single
      <4> QED
        BY <1>5, <4>1, <4>2 DEF OnePlace
    <3>7. CASE 1 \notin D
      <4>1. D \ {1} = D
        BY <3>7
      <4> QED
        BY <1>2, <1>6, <2>1, <2>2, <3>4, <3>5, <3>7, <4>1
    <3> QED
      BY <3>6, <3>7
  <2> QED
    BY <1>21, <2>3, <2>4 DEF Retry
\* The first task that may run is in the worker's hand.
<1>22. ASSUME ClaimNext PROVE Placed(m)'
  <2> DEFINE i == SelectInSeq(rt.tasks, Runnable)
  <2>1. /\ Save(Claimed(rt)) /\ fate' = fate /\ scheduler' = scheduler /\ i # 0
        /\ worker.at = "idle" /\ worker'.at = "claimed" /\ worker'.mention = rt.tasks[i].mention
    BY <1>22 DEF ClaimNext, beyond, Idle
  <2>2. rt' = Claimed(rt) /\ Claimed(rt).deferred = rt.deferred
    BY <1>1, <1>3, <2>1, ClaimedGood
  <2>3. /\ i \in DOMAIN rt.tasks /\ IsQueued(rt.tasks[i])
        /\ Single(Q) => Single(R)
        /\ R # {} <=> Q \ {i} # {}
    <3>1. /\ i \in DOMAIN rt.tasks /\ IsQueued(rt.tasks[i])
          /\ Single(QueuedAt(rt.tasks, m)) => Single(QueuedAt(Claimed(rt).tasks, m))
          /\ QueuedAt(Claimed(rt).tasks, m) # {} <=> QueuedAt(rt.tasks, m) \ {i} # {}
      BY <1>1, <2>1, ClaimedQueues
    <3> HIDE DEF i
    <3> QED
      BY <2>2, <3>1 DEF Q, R
  <2> HIDE DEF i
  <2>4. E = D /\ ~InHand(m) /\ (InHand(m)' <=> i \in Q)
    BY <1>8, <2>1, <2>2, <2>3 DEF InHand, Q, QueuedAt
  <2>5. CASE i \in Q
    <3>1. R = {} /\ E = {} /\ scheduler'.held # m /\ InHand(m)' /\ fate'[m] = "waiting"
      BY <1>4, <2>1, <2>3, <2>4, <2>5 DEF OnePlace, Single
    <3>2. Single(R) /\ Single(E)
      BY <3>1 DEF Single
    <3> QED
      BY <1>5, <3>1, <3>2 DEF OnePlace
  <2>6. CASE i \notin Q
    <3>1. Q \ {i} = Q
      BY <2>6
    <3> QED
      BY <1>6, <2>1, <2>3, <2>4, <2>6, <3>1
  <2> QED
    BY <2>5, <2>6
<1>23. ASSUME ClaimNothing PROVE Placed(m)'
  <2> DEFINE I == {j \in DOMAIN rt.tasks : IsRunning(rt.tasks[j])}
             n == [rt EXCEPT !.tasks = Picked(rt.tasks, I)]
  <2>1. /\ fate' = fate /\ scheduler' = scheduler
        /\ worker.at = "idle" /\ worker'.at = "parking"
        /\ UNCHANGED <<rt, disk>> \/ (SelectInSeq(rt.tasks, Runnable) = 0 /\ Save(n))
    BY <1>1, <1>23 DEF ClaimNothing, beyond
  <2>2. InHand(m)' <=> InHand(m)
    BY <1>10, <2>1
  <2>3. CASE UNCHANGED <<rt, disk>>
    BY <1>6, <1>9, <2>1, <2>2, <2>3
  <2>4. CASE SelectInSeq(rt.tasks, Runnable) = 0 /\ Save(n)
    <3>1. n.tasks = Picked(rt.tasks, I) /\ n.deferred = rt.deferred /\ rt.tasks \in Seq(Tasks)
      BY <1>1 DEF DurableStates
    <3>2. I \in SUBSET (DOMAIN rt.tasks)
      OBVIOUS
    <3> HIDE DEF I, n
    <3>3. rt' = n /\ Q = {}
      BY <1>1, <1>3, <2>4, IdleQueueHoldsNone DEF Q
    <3>4. R = {} /\ E = D
      BY <1>8, <3>1, <3>2, <3>3, PickedQueues DEF Q, R
    <3> QED
      BY <1>6, <2>1, <2>2, <3>3, <3>4 DEF Single
  <2> QED
    BY <2>1, <2>3, <2>4
\* A mention without a lease goes to the pen, from which the oldest may drop.
<1>24. ASSUME worker.at = "claimed", Skip, UNCHANGED scheduler PROVE Placed(m)'
  <2>1. /\ Save(Skipped) /\ worker'.at = "finishing"
        /\ fate'[m] = IF m \in ToSet(rt.deferred) \ ToSet(rt'.deferred) THEN "dropped" ELSE fate[m]
    BY <1>1, <1>24 DEF Skip, Skipped
  <2>2. /\ rt' = Skipped /\ Skipped.tasks = rt.tasks
        /\ Skipped.deferred = IF worker.kind = "mention"
                              THEN Defer(rt.deferred, worker.mention) ELSE rt.deferred
    BY <1>1, <1>3, <2>1, SkippedGood
  <2>3. R = Q /\ ~InHand(m)' /\ (InHand(m) <=> worker.mention = m)
    BY <1>7, <1>24, <2>1, <2>2 DEF InHand
  <2>4. (m \in ToSet(rt.deferred) <=> D # {}) /\ (m \in ToSet(rt'.deferred) <=> E # {})
    BY DEF ToSet, D, E, HeldAt
  <2>5. CASE worker.kind # "mention"
    <3>1. E = D /\ worker.mention = NoMention
      BY <1>1, <1>8, <2>2, <2>5 DEF Payload
    <3> QED
      BY <1>2, <1>6, <1>24, <2>1, <2>3, <2>4, <3>1
  <2>6. CASE worker.kind = "mention"
    <3>1. worker.mention \in Mentions /\ rt.deferred \in Seq(Mentions)
          /\ rt'.deferred = Defer(rt.deferred, worker.mention)
      BY <1>1, <2>2, <2>6 DEF Payload, DurableStates
    <3>2. Single(D) /\ (m = worker.mention => D = {})
      BY <1>4, <2>3 DEF OnePlace
    <3>3. /\ Single(E)
          /\ m = worker.mention => E # {}
          /\ m # worker.mention /\ E # {} => D # {}
      BY <3>1, <3>2, DeferHolds DEF D, E
    <3> QED
      BY <1>4, <1>5, <1>24, <2>1, <2>3, <2>4, <3>2, <3>3 DEF OnePlace
  <2> QED
    BY <2>5, <2>6
<1>25. ASSUME worker.at = "claimed", Proceed, UNCHANGED scheduler PROVE Placed(m)'
  <2>1. Save(Proceeded)
    BY <1>25 DEF Proceed, Proceeded
  <2>2. rt' = Proceeded /\ ~SaveFailed
    BY <1>3, <2>1
  <2>3. worker'.at \in {"deciding", "calling"} /\ worker'.mention = worker.mention /\ fate' = fate
    BY <1>1, <1>25, <2>2 DEF Proceed
  <2>4. InHand(m)' <=> InHand(m)
    BY <1>25, <2>3 DEF InHand
  <2>5. /\ Proceeded.deferred = rt.deferred
        /\ DOMAIN rt.tasks \subseteq DOMAIN Proceeded.tasks
        /\ \A i \in DOMAIN rt.tasks : Proceeded.tasks[i] = rt.tasks[i]
        /\ \A i \in DOMAIN Proceeded.tasks \ DOMAIN rt.tasks :
             Proceeded.tasks[i].mention = NoMention
    BY <1>1, ProceededGood
  <2>6. R = Q /\ E = D
    BY <1>2, <1>8, <2>2, <2>5 DEF Q, R, QueuedAt
  <2> QED
    BY <1>6, <1>25, <2>3, <2>4, <2>6
\* A mention that is refused, or considered, is in no place.
<1>26. ASSUME UNCHANGED <<rt, disk, scheduler>>, worker'.mention = worker.mention,
              worker.at \in {"deciding", "cleared", "calling"}, worker'.at = "finishing",
              \/ worker.kind # "mention" /\ fate' = fate
              \/ /\ worker.kind = "mention"
                 /\ \E f \in {"refused", "deliberated", "failed"} :
                      fate' = [fate EXCEPT ![worker.mention] = f]
       PROVE  Placed(m)'
  <2>1. R = Q /\ E = D /\ ~InHand(m)' /\ (InHand(m) <=> worker.mention = m)
    BY <1>9, <1>26 DEF InHand
  <2>2. CASE worker.mention = m
    <3>1. worker.kind = "mention"
      BY <1>1, <1>2, <2>2 DEF Payload
    <3>2. fate'[m] # "waiting"
      BY <1>1, <1>26, <2>2, <3>1
    <3> QED
      BY <1>4, <1>5, <1>26, <2>1, <2>2, <3>2 DEF OnePlace
  <2>3. CASE worker.mention # m
    <3>1. fate'[m] = fate[m]
      BY <1>1, <1>26, <2>3
    <3> QED
      BY <1>6, <1>26, <2>1, <2>3, <3>1
  <2> QED
    BY <2>2, <2>3
<1>27. ASSUME Decide PROVE Placed(m)'
  <2>1. /\ UNCHANGED <<rt, disk, scheduler>> /\ worker'.mention = worker.mention
        /\ worker.at = "deciding" /\ worker'.at = IF ModelGate THEN "cleared" ELSE "finishing"
        /\ fate' = IF worker.kind = "mention" /\ ~ModelGate
                   THEN [fate EXCEPT ![worker.mention] = "refused"] ELSE fate
    BY <1>1, <1>27 DEF Decide, beyond
  <2>2. CASE ModelGate
    <3>1. InHand(m)' <=> InHand(m)
      BY <2>1, <2>2 DEF InHand
    <3> QED
      BY <1>6, <1>9, <2>1, <2>2, <3>1
  <2>3. CASE ~ModelGate
    BY <1>26, <2>1, <2>3
  <2> QED
    BY <2>2, <2>3
<1>28. ASSUME CallReturns PROVE Placed(m)'
  <2>1. /\ UNCHANGED <<rt, disk, scheduler>> /\ worker'.mention = worker.mention
        /\ worker.at = "calling" /\ worker'.at = "finishing"
        /\ \/ worker.kind # "mention" /\ fate' = fate
           \/ /\ worker.kind = "mention"
              /\ \E f \in {"refused", "deliberated", "failed"} :
                   fate' = [fate EXCEPT ![worker.mention] = f]
    BY <1>1, <1>28 DEF CallReturns, beyond
  <2> QED
    BY <1>26, <2>1
<1>29. ASSUME BeginCall PROVE Placed(m)'
  <2>1. /\ UNCHANGED <<rt, disk, scheduler, fate>> /\ worker'.mention = worker.mention
        /\ worker.at = "cleared" /\ worker'.at = "calling"
    BY <1>1, <1>29 DEF BeginCall, beyond
  <2>2. InHand(m)' <=> InHand(m)
    BY <2>1 DEF InHand
  <2> QED
    BY <1>6, <1>9, <2>1, <2>2
<1>30. ASSUME Finish PROVE Placed(m)'
  <2> DEFINE i == SelectInSeq(rt.tasks, Performs)
             n == Without(rt, i)
  <2>1. /\ Save(n) /\ fate' = fate /\ scheduler' = scheduler
        /\ worker.at = "finishing" /\ worker' = Idle
    BY <1>30 DEF Finish, beyond
  <2>2. /\ Single(QueuedAt(rt.tasks, m)) => Single(QueuedAt(n.tasks, m))
        /\ QueuedAt(n.tasks, m) # {} <=> QueuedAt(rt.tasks, m) # {}
    BY <1>1, WithoutQueues
  <2> HIDE DEF i
  <2>3. n.deferred = rt.deferred
    BY <1>1, WithoutGood
  <2> HIDE DEF n
  <2>4. rt' = n
    BY <1>3, <2>1
  <2>5. InHand(m)' <=> InHand(m)
    BY <1>2, <1>10, <2>1
  <2> QED
    BY <1>6, <1>8, <2>1, <2>2, <2>3, <2>4, <2>5 DEF Q, R
<1>31. ASSUME Second PROVE Placed(m)'
  <2>1. /\ rt' = Aged(rt) /\ fate' = fate /\ worker' = worker
        /\ scheduler' = IF scheduler.at = "sleeping" THEN Ticking ELSE scheduler
    BY <1>31 DEF Second
  <2>2. scheduler'.held = scheduler.held
    BY <1>1, <1>2, <2>1
  <2>3. /\ Aged(rt).deferred = rt.deferred /\ DOMAIN Aged(rt).tasks = DOMAIN rt.tasks
        /\ \A i \in DOMAIN rt.tasks : /\ Aged(rt).tasks[i].mention = rt.tasks[i].mention
                                      /\ Aged(rt).tasks[i].status = rt.tasks[i].status
    BY <1>1, AgedGood
  <2>4. R = Q /\ E = D
    BY <1>8, <2>1, <2>3 DEF Q, R, QueuedAt, IsQueued
  <2> QED
    BY <1>6, <1>10, <2>1, <2>2, <2>4
<1>32. ASSUME Tick \/ Park \/ LedgerMoves PROVE Placed(m)'
  <2>1. /\ UNCHANGED <<rt, disk>> /\ fate' = fate /\ scheduler'.held = scheduler.held
        /\ \/ worker' = worker
           \/ /\ worker.at \in {"idle", "parking", "waiting", "finishing"}
              /\ worker'.at \in {"idle", "parking", "waiting", "finishing"}
    BY <1>1, <1>2, <1>32 DEF Tick, Park, LedgerMoves, history, beyond
  <2>2. InHand(m)' <=> InHand(m)
    BY <1>10, <2>1
  <2> QED
    BY <1>6, <1>9, <2>1, <2>2
<1>33. ~Restart
  BY <1>1 DEF Restart, BoundsOK
<1>34. PreExecute => worker.at = "claimed" /\ (Skip \/ Proceed) /\ UNCHANGED scheduler
  BY DEF PreExecute
<1> QED
  BY <1>13, <1>14, <1>15, <1>16, <1>18, <1>19, <1>20, <1>21, <1>22, <1>23, <1>24, <1>25, <1>27,
     <1>28, <1>29, <1>30, <1>31, <1>32, <1>33, <1>34 DEF Next

\* A mention that was never posted is in no place, and was never waiting.
LEMMA NewIsPlaced ==
  ASSUME NewIsNowhere, NEW m \in Mentions, fate[m] = "new"
  PROVE  Placed(m)
<1>1. m \notin Abroad
  BY DEF NewIsNowhere
<1>2. /\ QueuedAt(rt.tasks, m) = {} /\ HeldAt(rt.deferred, m) = {}
      /\ scheduler.held # m /\ ~InHand(m)
  BY <1>1 DEF Abroad, Named, QueuedAt, HeldAt, InHand
<1> QED
  BY <1>2 DEF Placed, OnePlace, Single

\* Being in one place is counted as one.
LEMMA PlacedCounts ==
  ASSUME NEW m \in Mentions, Placed(m)
  PROVE  Places(m) = IF fate[m] = "waiting" THEN 1 ELSE 0
<1> DEFINE Q == {i \in DOMAIN rt.tasks : rt.tasks[i].mention = m /\ IsQueued(rt.tasks[i])}
           D == {i \in DOMAIN rt.deferred : rt.deferred[i] = m}
<1>1. OnePlace(Q, D, scheduler.held = m, InHand(m), fate[m] = "waiting")
  BY DEF Placed, QueuedAt, HeldAt
<1>2. Places(m) = Cardinality(Q) + Cardinality(D) + (IF scheduler.held = m THEN 1 ELSE 0)
                  + (IF InHand(m) THEN 1 ELSE 0)
  BY DEF Places
<1> HIDE DEF Q, D
<1>3. ASSUME NEW S, Single(S) PROVE Cardinality(S) = IF S = {} THEN 0 ELSE 1
  <2>1. CASE S = {}
    BY <2>1, FS_EmptySet
  <2>2. CASE S # {}
    <3>1. PICK x \in S : S = {x}
      BY <1>3, <2>2 DEF Single
    <3> QED
      BY <2>2, <3>1, FS_Singleton
  <2> QED
    BY <2>1, <2>2
<1>4. /\ Cardinality(Q) = IF Q = {} THEN 0 ELSE 1
      /\ Cardinality(D) = IF D = {} THEN 0 ELSE 1
  BY <1>1, <1>3 DEF OnePlace
<1> QED
  BY <1>1, <1>2, <1>4 DEF OnePlace

\* A mention that waits is in exactly one of the queue, the worker's hand, the pen
\* and the scheduler's, one that is settled in none, as long as no write fails
\* and the process does not stop (enqueue, claim_queued_task, pre_execute_hooks,
\* defer_mention, run_scheduler).
THEOREM MentionsStayConserved ==
  ASSUME \A w \in Workloads : w.mentions = 0 \/ (w.crashes = 0 /\ w.failures = 0)
  PROVE  Spec => []MentionsAreConserved
<1>1. Init => ConservedInv
  BY UnmentionedAtFirst, NewIsPlaced DEF ConservedInv, UnmentionedInv, Init
<1>2. ConservedInv /\ [Next]_vars => ConservedInv'
  <2> SUFFICES ASSUME ConservedInv, [Next]_vars PROVE ConservedInv'
    OBVIOUS
  <2>1. UnmentionedInv'
    BY UnmentionedKept DEF ConservedInv
  <2>2. /\ RuntimeInv /\ \A m \in Mentions : Placed(m)
        /\ workload.mentions = 0 \/ (workload.crashes = 0 /\ workload.failures = 0)
    BY DEF ConservedInv, UnmentionedInv, RuntimeInv, BoundsOK
  <2>3. CASE UNCHANGED vars
    <3>1. UNCHANGED <<rt, worker, scheduler, fate>>
      BY <2>3 DEF vars
    <3>2. ASSUME NEW m \in Mentions PROVE Placed(m)'
      <4>1. Placed(m)
        BY <2>2
      <4> QED
        BY <3>1, <4>1 DEF Placed, QueuedAt, HeldAt, InHand
    <3> QED
      BY <2>1, <3>2 DEF ConservedInv
  <2>4. CASE Next /\ workload.crashes = 0 /\ workload.failures = 0
    BY <2>1, <2>2, <2>4, ConservedStep DEF ConservedInv
  <2>5. CASE Next /\ workload.mentions = 0
    <3>1. workload' = workload
      BY <2>5 DEF Next
    <3>2. NewIsNowhere' /\ \A m \in Mentions : fate'[m] = "new"
      BY <2>1, <2>5, <3>1 DEF UnmentionedInv, Unmentioned
    <3>3. ASSUME NEW m \in Mentions PROVE Placed(m)'
      <4>1. m \notin Abroad' /\ fate'[m] = "new"
        BY <3>2 DEF NewIsNowhere
      <4>2. /\ QueuedAt(rt'.tasks, m) = {} /\ HeldAt(rt'.deferred, m) = {}
            /\ scheduler'.held # m /\ ~InHand(m)'
        BY <4>1 DEF Abroad, Named, QueuedAt, HeldAt, InHand
      <4> QED
        BY <4>1, <4>2 DEF Placed, OnePlace, Single
    <3> QED
      BY <2>1, <3>3 DEF ConservedInv
  <2> QED
    BY <2>2, <2>3, <2>4, <2>5
<1>3. ConservedInv => MentionsAreConserved
  BY PlacedCounts DEF ConservedInv, MentionsAreConserved
<1> QED
  BY <1>1, <1>2, <1>3, PTL DEF Spec
=============================================================================
