---------------------------- MODULE MemoryProofs ----------------------------
(***************************************************************************)
(* Theorems about the memory of an episode and of the first generation.    *)
(*                                                                         *)
(* OverlayLog, for every number of events, every set of base memories and  *)
(* every clock: everything follows from one invariant of a chain, Sound,   *)
(* which append preserves; events and disk are both such chains at all     *)
(* times.                                                                  *)
(*                                                                         *)
(* Episodes: verdicts and registry are inductive once the maps are typed:  *)
(* the grounds of a verdict only grow (IndependentKept), and a commit that *)
(* leaves an episode's hypotheses alone leaves it open or closed as it was *)
(* (OtherEpisodes).                                                        *)
(*                                                                         *)
(* MindLoop, for every set of commands and every snapshot to start from:   *)
(* the engine and what its files would be redone to both hold what was     *)
(* told, and the files archive nothing that the engine does not            *)
(* (MemoryIsKept); requests are told apart by their numbers                *)
(* (RequestsAreApart); what the dreams took and the reservoir holds was    *)
(* given (Clockwork).  The folds of the model (the log, the groups of a    *)
(* dream, the recalls) are followed by the functions they are chosen from, *)
(* on the subsets of their index sets.                                     *)
(***************************************************************************)
EXTENDS OverlayLog, Episodes, MindLoop, FiniteSetTheorems, WellFoundedInduction, SequenceTheorems, TLAPS

\* The events of S that may still count: effective already, or pending.
Standing(l, S) == {i \in S : Effective(l, i) \/ Pending(l, i)}
InForce(l, S)  == {i \in S : Effective(l, i)}

ApprovalsSound(l) ==
    \A a \in DOMAIN l : l[a].payload.kind = "approval" =>
        /\ l[a].payload.target \in 1..(a - 1)
        /\ RequiresApproval(l[l[a].payload.target].payload)
        /\ \A b \in DOMAIN l : Decides(l, b, l[a].payload.target) => b = a

TimesSound(l) == \A i, j \in DOMAIN l : i < j => l[i].at <= l[j].at

\* A pending transition, and a prune, is the last that may still count.
LifecycleSound(l, m) ==
    LET S == Standing(l, LifecycleOf(l, m))
    IN  /\ \A i, j \in S :
              Pending(l, i) \/ l[i].payload.to = "Pruned" => j <= i
        /\ PathOf(l, S)

\* A pending removal is the first event of its edge that may still count, or
\* it is the last and the edge is added.
EdgeSound(l, e) ==
    LET S == Standing(l, EdgeEvents(l, e))
        F == InForce(l, EdgeEvents(l, e))
    IN  /\ F = {} \/ \E i \in F : LatestOf(F, i)
        /\ \A p \in S : Pending(l, p) =>
              /\ \/ \A j \in S : p <= j
                 \/ (\A j \in S : j <= p) /\ EdgeIs(l, e, "add")
              /\ \A q \in S : Pending(l, q) => q = p
        /\ Alternates(l, S)

UsesSound(l) ==
    \A i \in DOMAIN l : \A m \in Mentioned(l[i].payload) \ Bases :
        m \in 1..(i - 1) /\ l[m].payload.kind = "propose" /\ Effective(l, m)

Sound(l) ==
    /\ l \in Seq(Events)
    /\ Len(l) <= MaxEvents
    /\ ApprovalsSound(l)
    /\ TimesSound(l)
    /\ \A m \in Memories : LifecycleSound(l, m)
    /\ \A m, n \in Memories : EdgeSound(l, <<m, n>>)
    /\ UsesSound(l)

\* Whatever is saved is the beginning of what is in memory.
SavedIsPrefix ==
    /\ Len(disk) <= Len(events)
    /\ \A i \in DOMAIN disk : events[i] = disk[i]

Inv == Sound(events) /\ Sound(disk) /\ SavedIsPrefix

-----------------------------------------------------------------------------
(* One event more.  k is the chain l with e appended.                      *)

Grown(l, e, k) ==
    /\ Len(l) \in Nat
    /\ DOMAIN l = 1..Len(l)
    /\ DOMAIN k = 1..(Len(l) + 1)
    /\ \A i \in DOMAIN l : k[i] = l[i] /\ l[i] \in Events
    /\ k[Len(l) + 1] = e
    /\ e \in Events

\* How the decisions of l carry over: what is effective stays so, what is
\* pending in k was pending in l, and only an approval changes anything.
Carried(l, e, k) ==
    /\ \A i \in DOMAIN l :
          /\ Effective(l, i) => Effective(k, i)
          /\ Effective(k, i) => Effective(l, i) \/ Pending(l, i)
          /\ Pending(k, i) => Pending(l, i)
          /\ Pending(k, i) => ~Effective(k, i)
          /\ Pending(l, i) => ~Effective(l, i)
          /\ e.payload.kind # "approval" => (Pending(l, i) => Pending(k, i))
    /\ Effective(k, Len(l) + 1) <=> ~RequiresApproval(e.payload)
    /\ Pending(k, Len(l) + 1) <=> RequiresApproval(e.payload)

LEMMA Appended ==
    ASSUME NEW l \in Seq(Events), NEW e \in Events
    PROVE  Grown(l, e, Append(l, e))
  BY DEF Grown

(* What a payload that is not an approval cannot do, and what one can. *)
LEMMA ApprovalShape ==
    ASSUME NEW l, NEW p \in Payloads, Allowed(l, p), p.kind = "approval"
    PROVE  /\ p \in Approvals
           /\ ApprovalAllowed(l, p)
           /\ ~RequiresApproval(p)
  BY DEF Allowed, Proposals, Notes, Touches, Transitions, GraphEdges, DreamCandidates, Approvals,
         Payloads, RequiresApproval

(* append's decisions: an event of l keeps its status unless e decides it. *)
LEMMA Decisions ==
    ASSUME NEW l, NEW e, NEW k, Grown(l, e, k),
           ApprovalsSound(l), Allowed(l, e.payload)
    PROVE  Carried(l, e, k) /\ ApprovalsSound(k)
  <1> DEFINE n == Len(l) + 1
  <1>1. e.payload \in Payloads
    BY DEF Grown, Events
  <1>2. /\ \A a, i \in DOMAIN l : Decides(k, a, i) <=> Decides(l, a, i)
        /\ n \in DOMAIN k /\ n \notin DOMAIN l
        /\ DOMAIN k = DOMAIN l \cup {n}
        /\ \A i \in DOMAIN l : i < n
    BY DEF Grown, Decides
  <1>3. \A a \in DOMAIN k : ~Decides(k, a, n)
    <2>1. \A a \in DOMAIN l : ~Decides(k, a, n)
      BY <1>2 DEF Grown, Decides, ApprovalsSound
    <2>2. ~Decides(k, n, n)
      BY <1>1, <1>2, ApprovalShape DEF Grown, Decides, ApprovalAllowed
    <2> QED
      BY <2>1, <2>2, <1>2
  <1>4. /\ Effective(k, n) <=> ~RequiresApproval(e.payload)
        /\ Pending(k, n) <=> RequiresApproval(e.payload)
    BY <1>3 DEF Grown, Effective, Pending, Decided, DecisionIs
  <1>5. ASSUME NEW i \in DOMAIN l
        PROVE  /\ Effective(l, i) => Effective(k, i)
               /\ Effective(k, i) => Effective(l, i) \/ Pending(l, i)
               /\ Pending(k, i) => Pending(l, i)
               /\ Pending(k, i) => ~Effective(k, i)
               /\ Pending(l, i) => ~Effective(l, i)
               /\ e.payload.kind # "approval" => (Pending(l, i) => Pending(k, i))
    <2>1. k[i] = l[i]
      BY DEF Grown
    <2>2. Decided(l, i) => Decided(k, i)
      BY <1>2 DEF Decided
    <2>3. DecisionIs(l, i, "approved") => Decided(l, i)
      BY DEF DecisionIs, Decided
    <2>4. DecisionIs(k, i, "approved") => Decided(k, i)
      BY DEF DecisionIs, Decided
    <2>5. DecisionIs(l, i, "approved") => DecisionIs(k, i, "approved")
      BY <1>2 DEF DecisionIs, Grown
    <2>6. DecisionIs(k, i, "approved") => DecisionIs(l, i, "approved") \/ ~Decided(l, i)
      <3> SUFFICES ASSUME DecisionIs(k, i, "approved"), Decided(l, i)
                   PROVE  DecisionIs(l, i, "approved")
        OBVIOUS
      <3>1. PICK a \in DOMAIN k :
                /\ Decides(k, a, i)
                /\ k[a].payload.decision = "approved"
                /\ \A b \in DOMAIN k : Decides(k, b, i) => a <= b
        BY DEF DecisionIs
      <3>2. PICK b \in DOMAIN l : Decides(l, b, i)
        BY DEF Decided
      <3>3. a \in DOMAIN l
        BY <3>1, <3>2, <1>2 DEF Grown
      <3> QED
        BY <3>1, <3>3, <1>2 DEF DecisionIs, Grown
    <2>7. e.payload.kind # "approval" => (Decided(k, i) => Decided(l, i))
      BY <1>2 DEF Decided, Decides, Grown
    <2> QED
      BY <2>1, <2>2, <2>3, <2>4, <2>5, <2>6, <2>7 DEF Effective, Pending
  <1>6. ApprovalsSound(k)
    <2> SUFFICES ASSUME NEW a \in DOMAIN k, k[a].payload.kind = "approval"
                 PROVE  /\ k[a].payload.target \in 1..(a - 1)
                        /\ RequiresApproval(k[k[a].payload.target].payload)
                        /\ \A b \in DOMAIN k : Decides(k, b, k[a].payload.target) => b = a
      BY DEF ApprovalsSound
    <2>1. CASE a = n
      <3>1. /\ e.payload.target \in DOMAIN l
            /\ RequiresApproval(l[e.payload.target].payload)
            /\ \A b \in DOMAIN l : ~Decides(l, b, e.payload.target)
        BY <1>1, <2>1, ApprovalShape DEF Grown, ApprovalAllowed, Decided
      <3> QED
        BY <3>1, <2>1, <1>2 DEF Grown
    <2>2. CASE a \in DOMAIN l
      <3>1. /\ l[a].payload.target \in 1..(a - 1)
            /\ RequiresApproval(l[l[a].payload.target].payload)
            /\ \A b \in DOMAIN l : Decides(l, b, l[a].payload.target) => b = a
            /\ k[a] = l[a]
            /\ l[a].payload.target \in DOMAIN l
        BY <2>2 DEF Grown, ApprovalsSound
      <3>2. ~Decides(k, n, l[a].payload.target)
        <4>1. CASE e.payload.kind = "approval"
          BY <4>1, <1>1, <2>2, <3>1, ApprovalShape
             DEF Grown, ApprovalAllowed, Decided, Decides
        <4> QED
          BY <4>1 DEF Grown, Decides
      <3> QED
        BY <3>1, <3>2, <1>2 DEF Grown
    <2> QED
      BY <2>1, <2>2, <1>2
  <1> QED
    BY <1>4, <1>5, <1>6 DEF Carried

(* What an accepted transition or edge is, and what it was checked for. *)
LEMMA OtherShapes ==
    ASSUME NEW l, NEW p \in Payloads, Allowed(l, p)
    PROVE  /\ p.kind = "lifecycle" => p \in Transitions /\ TransitionAllowed(l, p)
           /\ p.kind = "edge" => p \in GraphEdges /\ EdgeAllowed(l, p)
           /\ p.kind = "reinforce" => p \in Touches /\ TouchAllowed(l, p)
           /\ p.kind = "dream" => p \in DreamCandidates /\ DreamAllowed(l, p)
  BY DEF Allowed, Proposals, Notes, Touches, Transitions, GraphEdges, DreamCandidates, Approvals, Payloads

(* The events of one memory or edge when e is not about it: nothing joins  *)
(* them, and what leaves the standing ones was pending.                    *)
LEMMA LeftAlone ==
    ASSUME NEW l, NEW e, NEW k, Grown(l, e, k), Carried(l, e, k),
           NEW S, S \subseteq DOMAIN l
    PROVE  /\ Standing(k, S) \subseteq Standing(l, S)
           /\ \A i \in Standing(l, S) \ Standing(k, S) : Pending(l, i)
           /\ InForce(l, S) \subseteq InForce(k, S)
           /\ \A i \in InForce(k, S) \ InForce(l, S) : Pending(l, i) /\ ~Pending(k, i)
  BY DEF Standing, InForce, Carried

(* ... and when it is about it: e joins them last, and no decision moves.  *)
LEMMA Joined ==
    ASSUME NEW l, NEW e, NEW k, Grown(l, e, k), Carried(l, e, k),
           e.payload.kind # "approval",
           NEW S, NEW R, S \subseteq DOMAIN l,
           \A i : i \in R <=> i \in S \/ i = Len(l) + 1
    PROVE  /\ \A i : i \in Standing(k, R) <=> i \in Standing(l, S) \/ i = Len(l) + 1
           /\ \A i : i \in InForce(k, R) <=>
                 \/ i \in InForce(l, S)
                 \/ i = Len(l) + 1 /\ ~RequiresApproval(e.payload)
           /\ \A i \in S : (Pending(k, i) <=> Pending(l, i)) /\ i < Len(l) + 1
  <1> DEFINE n == Len(l) + 1
  <1>1. \A i \in S : /\ Effective(k, i) <=> Effective(l, i)
                     /\ Pending(k, i) <=> Pending(l, i)
                     /\ i < n
    BY DEF Carried, Grown
  <1>2. Effective(k, n) \/ Pending(k, n)
    BY DEF Carried
  <1>3. Effective(k, n) <=> ~RequiresApproval(e.payload)
    BY DEF Carried
  <1> QED
    BY <1>1, <1>2, <1>3 DEF Standing, InForce

(* One memory's lifecycle history stays sound. *)
LEMMA LifecycleStep ==
    ASSUME NEW l, NEW e, NEW k, Grown(l, e, k), Carried(l, e, k),
           Allowed(l, e.payload),
           NEW m, LifecycleSound(l, m)
    PROVE  LifecycleSound(k, m)
  <1> DEFINE n == Len(l) + 1
             L == LifecycleOf(l, m)
             S == Standing(l, L)
             T == Standing(k, LifecycleOf(k, m))
  <1>1. /\ L \subseteq DOMAIN l
        /\ \A i \in DOMAIN l : k[i] = l[i]
        /\ k[n] = e /\ e.payload \in Payloads
        /\ S \subseteq L /\ T \subseteq LifecycleOf(k, m)
    BY DEF LifecycleOf, Standing, Grown, Events
  <1>2. /\ \A i, j \in S : Pending(l, i) \/ l[i].payload.to = "Pruned" => j <= i
        /\ PathOf(l, S)
    BY DEF LifecycleSound
  <1>3. \A i \in DOMAIN l : i \in Nat /\ i < n
    BY DEF Grown
  <1>4. CASE ~(e.payload.kind = "lifecycle" /\ e.payload.target = m)
    <2>1. LifecycleOf(k, m) = L
      BY <1>4 DEF LifecycleOf, Grown
    <2>2. /\ T \subseteq S
          /\ \A i \in S \ T : Pending(l, i)
      BY <2>1, <1>1, LeftAlone
    <2>3. ASSUME NEW i \in T, NEW j \in T,
                 Pending(k, i) \/ k[i].payload.to = "Pruned"
          PROVE  j <= i
      BY <2>2, <2>3, <1>1, <1>2 DEF Carried
    <2>4. ASSUME NEW i \in T, NEW j \in T, i < j, ~\E x \in T : i < x /\ x < j
          PROVE  k[i].payload.to = k[j].payload.from
      <3>1. ~\E x \in S : i < x /\ x < j
        BY <2>2, <2>4, <1>1, <1>2, <1>3
      <3> QED
        BY <3>1, <2>2, <2>4, <1>1, <1>2 DEF PathOf
    <2> QED
      BY <2>3, <2>4 DEF LifecycleSound, PathOf
  <1>5. CASE e.payload.kind = "lifecycle" /\ e.payload.target = m
    <2>1. LifecycleOf(k, m) = L \cup {n}
      BY <1>5 DEF LifecycleOf, Grown
    <2>2. /\ T = S \cup {n}
          /\ \A i \in L : Pending(k, i) <=> Pending(l, i)
          /\ \A i \in L : i < n
      <3>1. e.payload.kind # "approval"
        BY <1>5
      <3>2. \A i : i \in LifecycleOf(k, m) <=> i \in L \/ i = Len(l) + 1
        BY <2>1
      <3>3. L \subseteq DOMAIN l
        BY <1>1
      <3> HIDE DEF L
      <3>4. \A i : i \in T <=> i \in S \/ i = Len(l) + 1
        BY <3>1, <3>2, <3>3, Joined
      <3>5. \A i \in L : (Pending(k, i) <=> Pending(l, i)) /\ i < Len(l) + 1
        BY <3>1, <3>2, <3>3, Joined
      <3> QED
        BY <3>4, <3>5
    <2>3. /\ e.payload \in Transitions
          /\ \A i \in L : ~Pending(l, i)
          /\ ~LifecycleIs(l, m, "Pruned")
          /\ \A s \in LifecycleStates : LifecycleIs(l, m, s) => s = e.payload.from
      BY <1>1, <1>5, OtherShapes DEF TransitionAllowed, Live
    <2>4. ASSUME NEW i \in S, \A j \in S : j <= i
          PROVE  LifecycleIs(l, m, l[i].payload.to) /\ l[i].payload.to \in LifecycleStates
      <3>1. l[i].payload \in Payloads /\ l[i].payload.kind = "lifecycle"
        BY <1>1 DEF Grown, Events, LifecycleOf
      <3>2. l[i].payload.to \in LifecycleStates
        BY <3>1 DEF Proposals, Notes, Touches, Transitions, GraphEdges, DreamCandidates, Approvals, Payloads
      <3>3. Effective(l, i)
        BY <1>1, <2>3 DEF Standing
      <3> QED
        BY <3>2, <3>3, <2>4, <1>1 DEF LifecycleIs, LatestOf, Standing
    <2>5. \A i \in S : l[i].payload.to # "Pruned"
      BY <2>3, <2>4, <1>2
    <2>6. ASSUME NEW i \in T, NEW j \in T,
                 Pending(k, i) \/ k[i].payload.to = "Pruned"
          PROVE  j <= i
      <3>1. i = n
        BY <2>2, <2>3, <2>5, <2>6, <1>1
      <3> QED
        BY <3>1, <2>2, <1>1, <1>3
    <2>7. ASSUME NEW i \in T, NEW j \in T, i < j, ~\E x \in T : i < x /\ x < j
          PROVE  k[i].payload.to = k[j].payload.from
      <3>1. CASE j = n
        <4>1. i \in S /\ \A x \in S : x <= i
          BY <3>1, <2>2, <2>7, <1>1, <1>3
        <4> QED
          BY <4>1, <3>1, <2>3, <2>4, <1>1
      <3>2. CASE j \in S
        <4>1. i \in S
          BY <3>2, <2>2, <2>7, <1>1, <1>3
        <4> QED
          BY <4>1, <3>2, <2>2, <2>7, <1>1, <1>2 DEF PathOf
      <3> QED
        BY <3>1, <3>2, <2>2
    <2> QED
      BY <2>6, <2>7 DEF LifecycleSound, PathOf
  <1> QED
    BY <1>4, <1>5

(* One edge's history stays sound. *)
LEMMA EdgeStep ==
    ASSUME NEW l, NEW e, NEW k, Grown(l, e, k), Carried(l, e, k),
           Allowed(l, e.payload),
           NEW d, EdgeSound(l, d)
    PROVE  EdgeSound(k, d)
  <1> DEFINE n == Len(l) + 1
             L == EdgeEvents(l, d)
             S == Standing(l, L)
             F == InForce(l, L)
             M == EdgeEvents(k, d)
             T == Standing(k, M)
             G == InForce(k, M)
  <1>1. /\ L \subseteq DOMAIN l
        /\ \A i \in DOMAIN l : k[i] = l[i] /\ i \in Nat /\ i < n
        /\ k[n] = e /\ e.payload \in Payloads
        /\ n \in Nat
        /\ DOMAIN k = DOMAIN l \cup {n}
        /\ S \subseteq L /\ F \subseteq S
    BY DEF EdgeEvents, Standing, InForce, Grown, Events
  <1>2. /\ F = {} \/ \E i \in F : LatestOf(F, i)
        /\ \A p \in S : Pending(l, p) =>
              /\ (\A j \in S : p <= j) \/ ((\A j \in S : j <= p) /\ EdgeIs(l, d, "add"))
              /\ \A q \in S : Pending(l, q) => q = p
        /\ Alternates(l, S)
    BY DEF EdgeSound
  <1>3. \A i \in L : /\ l[i].payload.action \in {"add", "remove"}
                     /\ Pending(l, i) => l[i].payload.action = "remove"
    <2> SUFFICES ASSUME NEW i \in L
                 PROVE  /\ l[i].payload.action \in {"add", "remove"}
                        /\ Pending(l, i) => l[i].payload.action = "remove"
      OBVIOUS
    <2>1. l[i].payload \in Payloads /\ l[i].payload.kind = "edge"
      BY DEF Grown, Events, EdgeEvents
    <2>2. l[i].payload.action \in {"add", "remove"}
      BY <2>1 DEF Proposals, Notes, Touches, Transitions, GraphEdges, DreamCandidates, Approvals, Payloads
    <2> QED
      BY <2>1, <2>2 DEF Pending, RequiresApproval
  <1>4. CASE ~(e.payload.kind = "edge" /\ <<e.payload.from, e.payload.to>> = d)
    <2>1. M = L
      BY <1>4 DEF EdgeEvents, Grown
    <2>2. /\ T \subseteq S
          /\ \A i \in S \ T : Pending(l, i)
          /\ F \subseteq G
          /\ \A i \in G \ F : Pending(l, i) /\ ~Pending(k, i)
      BY <2>1, <1>1, LeftAlone
    <2>3. G \subseteq T /\ \A i \in T : Pending(k, i) => Pending(l, i)
      BY <2>1, <1>1 DEF InForce, Standing, Carried
    <2>4. G = {} \/ \E i \in G : LatestOf(G, i)
      <3>1. CASE G = F
        BY <3>1, <1>2
      <3>2. CASE G # F
        <4>1. PICK p \in G \ F : TRUE
          BY <3>2, <2>2
        <4>2. p \in S /\ Pending(l, p) /\ \A q \in G : q \in F \/ q = p
          BY <4>1, <1>2, <2>2, <2>3
        <4>3. CASE F = {}
          BY <4>1, <4>2, <4>3, <1>1 DEF LatestOf
        <4>4. CASE F # {}
          <5>1. PICK i \in F : LatestOf(F, i)
            BY <4>4, <1>2
          <5>2. i \in G /\ i \in Nat /\ p \in Nat /\ \A q \in F : q \in Nat
            BY <5>1, <4>2, <2>2, <1>1
          <5>3. LatestOf(G, i) \/ LatestOf(G, p)
            BY <5>1, <5>2, <4>1, <4>2 DEF LatestOf
          <5> QED
            BY <5>2, <5>3, <4>1
        <4> QED
          BY <4>3, <4>4
      <3> QED
        BY <3>1, <3>2
    <2>5. ASSUME NEW p \in T, Pending(k, p)
          PROVE  /\ \/ \A j \in T : p <= j
                    \/ (\A j \in T : j <= p) /\ EdgeIs(k, d, "add")
                 /\ \A q \in T : Pending(k, q) => q = p
      <3>1. p \in S /\ Pending(l, p)
        BY <2>5, <2>2, <2>3
      <3>2. \A q \in T : Pending(k, q) => q = p
        BY <3>1, <2>2, <2>3, <1>2
      <3>3. G = F
        BY <3>1, <2>2, <2>3, <2>5, <1>2
      <3>4. EdgeIs(l, d, "add") => EdgeIs(k, d, "add")
        BY <3>3, <1>1 DEF EdgeIs, LatestOf, InForce
      <3> QED
        BY <3>1, <3>2, <3>4, <2>2, <1>2
    <2>6. ASSUME NEW i \in T, NEW j \in T, i < j, ~\E x \in T : i < x /\ x < j
          PROVE  k[i].payload.action # k[j].payload.action
      <3>1. ~\E x \in S : i < x /\ x < j
        BY <2>2, <2>6, <1>1, <1>2
      <3> QED
        BY <3>1, <2>2, <2>6, <1>1, <1>2 DEF Alternates
    <2> QED
      BY <2>4, <2>5, <2>6 DEF EdgeSound, Alternates
  <1>5. CASE e.payload.kind = "edge" /\ <<e.payload.from, e.payload.to>> = d
    <2>1. \A i : i \in M <=> i \in L \/ i = n
      BY <1>5, <1>1 DEF EdgeEvents, Grown
    <2>2. /\ \A i : i \in T <=> i \in S \/ i = n
          /\ \A i : i \in G <=> i \in F \/ (i = n /\ ~RequiresApproval(e.payload))
          /\ \A i \in L : (Pending(k, i) <=> Pending(l, i)) /\ i < n
      <3>1. e.payload.kind # "approval" /\ L \subseteq DOMAIN l
        BY <1>5, <1>1
      <3> HIDE DEF L, M
      <3> QED
        BY <3>1, <2>1, Joined
    <2>3. /\ e.payload.action \in {"add", "remove"}
          /\ RequiresApproval(e.payload) <=> e.payload.action = "remove"
          /\ ~EdgeIs(l, d, e.payload.action)
          /\ e.payload.action = "remove" => \A i \in L : ~Pending(l, i)
      <3>1. e.payload \in GraphEdges /\ EdgeAllowed(l, e.payload)
        BY <1>1, <1>5, OtherShapes
      <3> QED
        BY <3>1, <1>5 DEF GraphEdges, EdgeAllowed, RequiresApproval
    <2>4. ASSUME NEW i \in F, LatestOf(F, i)
          PROVE  EdgeIs(l, d, l[i].payload.action) /\ l[i].payload.action # e.payload.action
      <3>1. EdgeIs(l, d, l[i].payload.action)
        BY <2>4, <1>1 DEF EdgeIs, LatestOf, InForce
      <3> QED
        BY <3>1, <2>3
    <2>5. ASSUME NEW i \in S, \A x \in S : x <= i
          PROVE  l[i].payload.action # e.payload.action
      <3>1. CASE Pending(l, i)
        BY <3>1, <2>3, <1>1, <1>3
      <3>2. CASE ~Pending(l, i)
        <4>1. i \in F /\ LatestOf(F, i)
          BY <3>2, <2>5, <1>1 DEF Standing, InForce, LatestOf
        <4> QED
          BY <4>1, <2>4
      <3> QED
        BY <3>1, <3>2
    <2>6. ASSUME NEW i \in T, NEW j \in T, i < j, ~\E x \in T : i < x /\ x < j
          PROVE  k[i].payload.action # k[j].payload.action
      <3>1. CASE j = n
        <4>1. i \in S /\ \A x \in S : x <= i
          BY <3>1, <2>2, <2>6, <1>1
        <4> QED
          BY <4>1, <3>1, <2>5, <1>1
      <3>2. CASE j \in S
        <4>1. i \in S
          BY <3>2, <2>2, <2>6, <1>1
        <4> QED
          BY <4>1, <3>2, <2>2, <2>6, <1>1, <1>2 DEF Alternates
      <3> QED
        BY <3>1, <3>2, <2>2
    <2>7. CASE e.payload.action = "add"
      <3>1. LatestOf(G, n) /\ n \in G
        BY <2>7, <2>2, <2>3, <1>1 DEF LatestOf
      <3>2. ~Pending(k, n)
        BY <2>7, <2>3 DEF Carried
      <3>3. ASSUME NEW p \in T, Pending(k, p)
            PROVE  (\A j \in T : p <= j) /\ \A q \in T : Pending(k, q) => q = p
        <4>1. p \in S /\ Pending(l, p)
          BY <3>2, <3>3, <2>2, <1>1
        <4>2. \A j \in S : p <= j
          BY <4>1, <2>3, <2>7, <1>2
        <4> QED
          BY <4>1, <4>2, <3>2, <2>2, <1>1, <1>2
      <3> QED
        BY <3>1, <3>3, <2>6 DEF EdgeSound, Alternates
    <2>8. CASE e.payload.action = "remove"
      <3>1. G = F
        BY <2>8, <2>2, <2>3
      <3>2. \A p \in T : Pending(k, p) => p = n
        BY <2>8, <2>2, <2>3, <1>1
      <3>3. \A j \in T : j <= n
        BY <2>2, <1>1
      <3>4. S = F
        BY <2>8, <2>3, <1>1 DEF Standing, InForce
      <3>5. CASE F = {}
        <4>1. \A j \in T : n <= j
          BY <3>4, <3>5, <2>2, <1>1
        <4> QED
          BY <4>1, <3>1, <3>2, <3>5, <2>6 DEF EdgeSound, Alternates
      <3>6. CASE F # {}
        <4>1. PICK i \in F : LatestOf(F, i)
          BY <3>6, <1>2
        <4>2. l[i].payload.action = "add"
          BY <4>1, <2>4, <2>8, <1>1, <1>3
        <4>3. LatestOf(G, i) /\ i \in G /\ i \in DOMAIN k /\ k[i].payload.action = "add"
          BY <4>1, <4>2, <3>1, <1>1
        <4>4. EdgeIs(k, d, "add")
          BY <4>3 DEF EdgeIs, InForce
        <4> QED
          BY <4>3, <4>4, <3>2, <3>3, <2>6 DEF EdgeSound, Alternates
      <3> QED
        BY <3>5, <3>6
    <2> QED
      BY <2>3, <2>7, <2>8
  <1> QED
    BY <1>4, <1>5

(* Memories named by events remain effective proposals. *)
LEMMA UsesStep ==
    ASSUME NEW l, NEW e, NEW k, Grown(l, e, k), Carried(l, e, k),
           Allowed(l, e.payload), UsesSound(l)
    PROVE  UsesSound(k)
  <1> DEFINE n == Len(l) + 1
  <1> SUFFICES ASSUME NEW i \in DOMAIN k, NEW m \in Mentioned(k[i].payload) \ Bases
               PROVE  /\ m \in 1..(i - 1)
                      /\ k[m].payload.kind = "propose"
                      /\ Effective(k, m)
    BY DEF UsesSound
  <1>1. CASE i \in DOMAIN l
    <2>1. m \in 1..(i - 1) /\ l[m].payload.kind = "propose" /\ Effective(l, m)
      BY <1>1 DEF UsesSound, Grown
    <2>2. m \in DOMAIN l
      BY <1>1, <2>1 DEF Grown
    <2> QED
      BY <2>1, <2>2 DEF Carried, Grown
  <1>2. CASE i = n
    <2>1. e.payload \in Payloads /\ m \in Mentioned(e.payload)
      BY <1>2 DEF Grown, Events
    <2>2. m \in Memories /\ Live(l, m)
      <3>1. CASE e.payload.kind = "reinforce"
        <4>1. e.payload \in Touches /\ TouchAllowed(l, e.payload)
          BY <2>1, <3>1, OtherShapes
        <4>2. m = e.payload.target
          BY <2>1, <3>1 DEF Mentioned
        <4> QED
          BY <4>1, <4>2 DEF Touches, TouchAllowed
      <3>2. CASE e.payload.kind = "lifecycle"
        <4>1. e.payload \in Transitions /\ TransitionAllowed(l, e.payload)
          BY <2>1, <3>2, OtherShapes
        <4>2. m = e.payload.target
          BY <2>1, <3>2 DEF Mentioned
        <4> QED
          BY <4>1, <4>2 DEF Transitions, TransitionAllowed
      <3>3. CASE e.payload.kind = "edge"
        <4>1. e.payload \in GraphEdges /\ EdgeAllowed(l, e.payload)
          BY <2>1, <3>3, OtherShapes
        <4>2. m \in {e.payload.from, e.payload.to}
          BY <2>1, <3>3 DEF Mentioned
        <4>3. /\ e.payload.from \in Memories /\ Live(l, e.payload.from)
              /\ e.payload.to \in Memories /\ Live(l, e.payload.to)
          BY <4>1 DEF GraphEdges, EdgeAllowed
        <4> QED
          BY <4>2, <4>3
      <3>4. CASE e.payload.kind = "dream"
        <4>1. e.payload \in DreamCandidates /\ DreamAllowed(l, e.payload)
          BY <2>1, <3>4, OtherShapes
        <4>2. m \in e.payload.members
          BY <2>1, <3>4 DEF Mentioned
        <4> QED
          BY <4>1, <4>2 DEF DreamCandidates, DreamAllowed
      <3>5. e.payload.kind \in {"reinforce", "lifecycle", "edge", "dream"}
        <4>1. CASE e.payload.kind \notin {"reinforce", "lifecycle", "edge", "dream"}
          <5>1. Mentioned(e.payload) = {}
            BY <4>1 DEF Mentioned
          <5> QED
            BY <5>1, <2>1
        <4> QED
          BY <4>1
      <3> QED
        BY <3>1, <3>2, <3>3, <3>4, <3>5
    <2>3. m \in DOMAIN l /\ l[m].payload.kind = "propose" /\ Effective(l, m)
      BY <2>2 DEF Memories, Live
    <2> QED
      BY <2>3, <1>2 DEF Carried, Grown
  <1> QED
    BY <1>1, <1>2 DEF Grown

(* What append accepts keeps a sound chain sound. *)
LEMMA SoundStep ==
    ASSUME NEW l, Sound(l), Len(l) < MaxEvents,
           NEW p \in Requests, NEW now \in Nat,
           l # <<>> => l[Len(l)].at <= now,
           Allowed(l, p)
    PROVE  Sound(Append(l, [payload |-> p, at |-> now]))
  <1> DEFINE e == [payload |-> p, at |-> now]
             k == Append(l, e)
  <1>1. e \in Events /\ l \in Seq(Events) /\ e.payload = p
    BY OverlayAssumption DEF Events, Sound
  <1>2. Grown(l, e, k) /\ k \in Seq(Events) /\ Len(k) = Len(l) + 1
    BY <1>1, Appended
  <1> HIDE DEF e, k
  <1>3. Carried(l, e, k) /\ ApprovalsSound(k)
    BY <1>1, <1>2, Decisions DEF Sound
  <1>4. TimesSound(k)
    <2>1. /\ e.at = now
          /\ \A i \in DOMAIN l : l[i].at \in Nat
      <3>1. e.at = now
        BY DEF e
      <3>2. \A i \in DOMAIN l : l[i].at \in Nat
        BY <1>2 DEF Grown, Events
      <3> QED
        BY <3>1, <3>2
    <2>2. \A i \in DOMAIN l : l[i].at <= now
      <3>1. \A i \in DOMAIN l : i = Len(l) \/ i < Len(l)
        BY <1>2 DEF Grown
      <3>2. \A i \in DOMAIN l : Len(l) \in DOMAIN l /\ l # <<>>
        BY <1>1, <1>2 DEF Grown
      <3> QED
        BY <3>1, <3>2, <2>1 DEF Sound, TimesSound
    <2> SUFFICES ASSUME NEW i \in DOMAIN k, NEW j \in DOMAIN k, i < j
                 PROVE  k[i].at <= k[j].at
      BY DEF TimesSound
    <2>3. i \in DOMAIN l /\ k[i] = l[i]
      BY <1>2 DEF Grown
    <2>4. CASE j \in DOMAIN l
      BY <1>2, <2>3, <2>4 DEF Grown, Sound, TimesSound
    <2>5. CASE j \notin DOMAIN l
      <3>1. k[j] = e
        BY <1>2, <2>5 DEF Grown
      <3> QED
        BY <2>1, <2>2, <2>3, <3>1
    <2> QED
      BY <2>4, <2>5
  <1>5. \A m \in Memories : LifecycleSound(k, m)
    BY <1>1, <1>2, <1>3, LifecycleStep DEF Sound
  <1>6. \A m, n \in Memories : EdgeSound(k, <<m, n>>)
    BY <1>1, <1>2, <1>3, EdgeStep DEF Sound
  <1>7. UsesSound(k)
    BY <1>1, <1>2, <1>3, UsesStep DEF Sound
  <1>8. Len(k) <= MaxEvents
    BY <1>1, <1>2, OverlayAssumption
  <1>9. Sound(k)
    BY <1>2, <1>3, <1>4, <1>5, <1>6, <1>7, <1>8 DEF Sound
  <1> QED
    BY <1>9 DEF k, e

LEMMA EmptySound == Sound(<<>>)
  <1>1. <<>> \in Seq(Events) /\ Len(<<>>) = 0 /\ DOMAIN <<>> = {}
    OBVIOUS
  <1>2. 0 <= MaxEvents
    BY OverlayAssumption
  <1> QED
    BY <1>1, <1>2
       DEF Sound, ApprovalsSound, TimesSound, LifecycleSound, EdgeSound, UsesSound,
           LifecycleOf, EdgeEvents, Standing, InForce, PathOf, Alternates

LEMMA Invariance == OverlaySpec => []Inv
  <1>1. OverlayInit => Inv
    BY EmptySound DEF OverlayInit, Inv, SavedIsPrefix
  <1>2. Inv /\ [OverlayNext]_overlayVars => Inv'
    <2> SUFFICES ASSUME Inv, [OverlayNext]_overlayVars PROVE Inv'
      OBVIOUS
    <2>1. ASSUME NEW p \in Requests, NEW now \in 0..MaxTime, AppendEvent(p, now)
          PROVE  Inv'
      <3>1. now \in Nat
        BY OverlayAssumption
      <3>2. Sound(events')
        BY <2>1, <3>1, SoundStep DEF AppendEvent, Inv
      <3>3. /\ events \in Seq(Events)
            /\ disk \in Seq(Events)
            /\ events' = Append(events, [payload |-> p, at |-> now])
            /\ disk' = disk
        BY <2>1 DEF AppendEvent, Inv, Sound
      <3>4. SavedIsPrefix'
        <4>1. /\ DOMAIN events = 1..Len(events) /\ Len(events) \in Nat
              /\ DOMAIN disk = 1..Len(disk) /\ Len(disk) \in Nat
              /\ Len(events') = Len(events) + 1
              /\ \A i \in DOMAIN events : events'[i] = events[i]
          BY <3>3
        <4> QED
          BY <4>1, <3>3 DEF SavedIsPrefix, Inv
      <3> QED
        BY <3>2, <3>3, <3>4 DEF Inv
    <2>2. CASE Save
      BY <2>2 DEF Save, Inv, SavedIsPrefix, Sound
    <2>3. CASE OverlayRestart
      BY <2>3 DEF OverlayRestart, Inv, SavedIsPrefix, Sound
    <2>4. CASE UNCHANGED overlayVars
      BY <2>4 DEF overlayVars, Inv, SavedIsPrefix
    <2> QED
      BY <2>1, <2>2, <2>3, <2>4 DEF OverlayNext
  <1> QED
    BY <1>1, <1>2, PTL DEF OverlaySpec

-----------------------------------------------------------------------------
(* Theorems                                                                *)

(* Both chains consist of valid events and respect the configured cap. *)
THEOREM OverlayTypeCorrectness == OverlaySpec => []OverlayTypeOK
  <1>1. Inv => OverlayTypeOK
    BY DEF Inv, Sound, OverlayTypeOK
  <1> QED
    BY <1>1, Invariance, PTL

(* The audit of verify never refuses a log that append built, so a save is *)
(* never refused and a saved document always loads.                        *)
THEOREM LogsVerify == OverlaySpec => []EveryLogVerifies
  <1>1. Inv => EveryLogVerifies
    BY DEF Inv, Sound, EveryLogVerifies, Verifies, ApprovalsSound, TimesSound
  <1> QED
    BY <1>1, Invariance, PTL

(* Whatever the order of approvals, effective transitions form a path. *)
THEOREM LifecyclePaths == OverlaySpec => []LifecycleIsAPath
  <1>1. ASSUME Inv, NEW m \in Memories
        PROVE  PathOf(events, {i \in LifecycleOf(events, m) : Effective(events, i)})
    <2> DEFINE L == LifecycleOf(events, m)
               S == Standing(events, L)
               F == {i \in L : Effective(events, i)}
    <2>1. /\ \A i, j \in S : Pending(events, i) => j <= i
          /\ PathOf(events, S)
      BY <1>1 DEF Inv, Sound, LifecycleSound
    <2>2. F \subseteq S /\ \A i \in S \ F : Pending(events, i)
      BY DEF Standing
    <2>3. \A i \in S : i \in Nat
      BY <1>1 DEF Inv, Sound, Standing, LifecycleOf
    <2> HIDE DEF S, F
    <2>4. PathOf(events, F)
      BY <2>1, <2>2, <2>3 DEF PathOf
    <2> QED
      BY <2>4 DEF F
  <1>2. Inv => LifecycleIsAPath
    BY <1>1 DEF LifecycleIsAPath
  <1> QED
    BY <1>2, Invariance, PTL

(* A memory whose prune took effect has no later state. *)
THEOREM PrunesAreFinal == OverlaySpec => []TombstonesAreTheDead
  <1>1. ASSUME Inv, NEW m \in Memories,
               NEW i \in LifecycleOf(events, m), Effective(events, i),
               events[i].payload.to = "Pruned"
        PROVE  LifecycleIs(events, m, "Pruned")
    <2>1. \A j \in Standing(events, LifecycleOf(events, m)) : j <= i
      BY <1>1 DEF Inv, Sound, LifecycleSound, Standing
    <2> QED
      BY <1>1, <2>1 DEF LifecycleIs, LatestOf, Standing, LifecycleOf
  <1>2. ASSUME Inv, NEW m \in Memories, LifecycleIs(events, m, "Pruned")
        PROVE  \E i \in LifecycleOf(events, m) :
                  Effective(events, i) /\ events[i].payload.to = "Pruned"
    BY <1>2 DEF LifecycleIs, LatestOf
  <1>3. Inv => TombstonesAreTheDead
    BY <1>1, <1>2 DEF TombstonesAreTheDead, Tombstones
  <1> QED
    BY <1>3, Invariance, PTL

(* No edge is added twice or removed twice by effective events. *)
THEOREM EdgesAlternate == OverlaySpec => []EdgeActionsAlternate
  <1>1. ASSUME Inv, NEW m \in Memories, NEW n \in Memories
        PROVE  Alternates(events,
                 {i \in EdgeEvents(events, <<m, n>>) : Effective(events, i)})
    <2> DEFINE L == EdgeEvents(events, <<m, n>>)
               S == Standing(events, L)
               F == {i \in L : Effective(events, i)}
    <2>1. /\ \A p \in S : Pending(events, p) =>
                (\A j \in S : p <= j) \/ (\A j \in S : j <= p)
          /\ Alternates(events, S)
      BY <1>1 DEF Inv, Sound, EdgeSound
    <2>2. F \subseteq S /\ \A i \in S \ F : Pending(events, i)
      BY DEF Standing
    <2>3. \A i \in S : i \in Nat
      BY <1>1 DEF Inv, Sound, Standing, EdgeEvents
    <2> HIDE DEF S, F
    <2>4. Alternates(events, F)
      BY <2>1, <2>2, <2>3 DEF Alternates
    <2> QED
      BY <2>4 DEF F
  <1>2. Inv => EdgeActionsAlternate
    BY <1>1 DEF EdgeActionsAlternate
  <1> QED
    BY <1>2, Invariance, PTL

(* The chain keeps its shape, and the effective history of every memory and
   every edge joins up (validate_payload, projection).                     *)
THEOREM HistoriesStayJoined == OverlaySpec => []HistoriesJoinUp
  BY OverlayTypeCorrectness, LifecyclePaths, PrunesAreFinal, EdgesAlternate, PTL DEF HistoriesJoinUp

(* A proposal that is pending or rejected is named by no event. *)
THEOREM UsesAreEffective == OverlaySpec => []OnlyEffectiveMemoriesAreUsed
  <1>1. Inv => OnlyEffectiveMemoriesAreUsed
    BY DEF Inv, Sound, UsesSound, OnlyEffectiveMemoriesAreUsed
  <1> QED
    BY <1>1, Invariance, PTL

(* A save only ever extends the saved chain. *)
THEOREM SavedHistoryGrows == OverlaySpec => SavedHistoryOnlyGrows
  <1>1. Inv /\ [OverlayNext]_overlayVars =>
          [/\ Len(disk) <= Len(disk')
           /\ \A i \in DOMAIN disk : disk'[i] = disk[i]]_disk
    BY DEF Inv, SavedIsPrefix, OverlayNext, AppendEvent, Save, OverlayRestart, overlayVars
  <1> QED
    BY <1>1, Invariance, PTL DEF OverlaySpec, SavedHistoryOnlyGrows

-----------------------------------------------------------------------------
(* Episodes                                                                *)


(* The new record of hypothesis h stays one about the same episode.        *)
Revises(h, v) ==
    /\ v \in StoredHypotheses
    /\ v.target = hypotheses[h].target
    /\ v.support \cup v.against \subseteq DOMAIN observations

(* What every status transition has in common: it gives one hypothesis a   *)
(* new record and leaves the rest alone.                                   *)
MovedTo(h, v) ==
    /\ h \in DOMAIN hypotheses
    /\ Revises(h, v)
    /\ Moved(h, v)

(* Each status transition, as the record it moves its hypothesis to.       *)
LEMMA TransitionsRevise ==
    ASSUME EpisodesTypeOK, NEW h \in Hypotheses, NEW ev \in SUBSET Reports
    PROVE  /\ Support(h, ev) =>
                MovedTo(h, [hypotheses[h] EXCEPT !.status = "Supported",
                                                 !.support = @ \cup ev])
           /\ Disconfirm(h, ev) =>
                MovedTo(h, [hypotheses[h] EXCEPT !.status = "Disconfirmed",
                                                 !.against = @ \cup ev])
           /\ \A by \in Hypotheses : Supersede(h, by, ev) =>
                MovedTo(h, [hypotheses[h] EXCEPT !.status = "Superseded", !.by = by])
<1>1. CASE h \in DOMAIN hypotheses
  <2>1. /\ hypotheses[h] \in StoredHypotheses
        /\ hypotheses[h].support \cup hypotheses[h].against \subseteq DOMAIN observations
    BY <1>1 DEF EpisodesTypeOK
  <2>2. Support(h, ev) =>
          MovedTo(h, [hypotheses[h] EXCEPT !.status = "Supported", !.support = @ \cup ev])
    BY <1>1, <2>1 DEF Support, Corroborates, MovedTo, Revises, StoredHypotheses, Statuses
  <2>3. Disconfirm(h, ev) =>
          MovedTo(h, [hypotheses[h] EXCEPT !.status = "Disconfirmed", !.against = @ \cup ev])
    BY <1>1, <2>1 DEF Disconfirm, Corroborates, MovedTo, Revises, StoredHypotheses, Statuses
  <2>4. ASSUME NEW by \in Hypotheses, Supersede(h, by, ev)
        PROVE  MovedTo(h, [hypotheses[h] EXCEPT !.status = "Superseded", !.by = by])
    BY <1>1, <2>1, <2>4 DEF Supersede, MovedTo, Revises, StoredHypotheses, Statuses
  <2> QED
    BY <2>2, <2>3, <2>4
<1>2. CASE h \notin DOMAIN hypotheses
  BY <1>2 DEF Support, Disconfirm, Supersede
<1> QED
  BY <1>1, <1>2

LEMMA MovedFacts ==
    ASSUME NEW h, NEW v, MovedTo(h, v)
    PROVE  /\ DOMAIN hypotheses' = DOMAIN hypotheses
           /\ hypotheses'[h] = v
           /\ \A g \in DOMAIN hypotheses : g # h => hypotheses'[g] = hypotheses[g]
           /\ UNCHANGED <<observations, goals, links>>
           /\ unresolved' = Recomputed(hypotheses', hypotheses[h].target)
BY DEF MovedTo, Moved

(* A step is one of five kinds.                                            *)
LEMMA Kinds ==
    ASSUME EpisodesTypeOK, EpisodesNext
    PROVE  \/ \E r \in Reports, o \in Observations : CommitObservation(r, o)
           \/ \E g \in Goals : CommitGoal(g)
           \/ \E h \in Hypotheses, r \in Reports, s, a \in SUBSET Reports :
                 CommitHypothesis(h, r, s, a)
           \/ \E x, y \in Reports \cup Goals \cup Hypotheses : CommitLink(x, y)
           \/ \E h \in Hypotheses, v \in StoredHypotheses : MovedTo(h, v)
<1>1. ASSUME NEW h \in Hypotheses, NEW ev \in SUBSET Reports,
             Support(h, ev) \/ Disconfirm(h, ev) \/ \E by \in Hypotheses : Supersede(h, by, ev)
      PROVE  \E v : MovedTo(h, v)
  BY <1>1, TransitionsRevise
<1>2. ASSUME NEW h, NEW v, MovedTo(h, v)
      PROVE  v \in StoredHypotheses
  BY <1>2 DEF MovedTo, Revises
<1> QED
  BY <1>1, <1>2 DEF EpisodesNext

-----------------------------------------------------------------------------
(* Types                                                                   *)

LEMMA TypeStep ==
    ASSUME EpisodesTypeOK, [EpisodesNext]_episodesVars
    PROVE  EpisodesTypeOK'
<1>1. CASE UNCHANGED episodesVars
  BY <1>1 DEF EpisodesTypeOK, episodesVars, Entities
<1>2. ASSUME NEW r \in Reports, NEW o \in Observations, CommitObservation(r, o)
      PROVE  EpisodesTypeOK'
  <2>1. /\ DOMAIN observations' = DOMAIN observations \cup {r}
        /\ observations'[r] = o
        /\ \A y \in DOMAIN observations : y # r => observations'[y] = observations[y]
    BY <1>2 DEF CommitObservation, Put
  <2> QED
    BY <1>2, <2>1 DEF EpisodesTypeOK, CommitObservation, Entities
<1>3. ASSUME NEW g \in Goals, CommitGoal(g)
      PROVE  EpisodesTypeOK'
  BY <1>3 DEF EpisodesTypeOK, CommitGoal, Entities
<1>4. ASSUME NEW h \in Hypotheses, NEW r \in Reports, NEW s \in SUBSET Reports,
             NEW a \in SUBSET Reports, CommitHypothesis(h, r, s, a)
      PROVE  EpisodesTypeOK'
  <2> DEFINE v == [target |-> r, status |-> "Candidate", support |-> s,
                   against |-> a, by |-> NoHypothesis]
  <2>1. /\ v \in StoredHypotheses
        /\ {v.target} \cup v.support \cup v.against \subseteq DOMAIN observations
    BY <1>4 DEF StoredHypotheses, Statuses, CommitHypothesis
  <2>2. hypotheses' = Put(hypotheses, h, v)
    BY <1>4 DEF CommitHypothesis
  <2> HIDE DEF v
  <2>3. /\ DOMAIN hypotheses' = DOMAIN hypotheses \cup {h}
        /\ hypotheses'[h] = v
        /\ \A y \in DOMAIN hypotheses : y # h => hypotheses'[y] = hypotheses[y]
    BY <2>2 DEF Put
  <2> QED
    BY <1>4, <2>1, <2>3 DEF EpisodesTypeOK, CommitHypothesis, Entities
<1>5. ASSUME NEW x \in Reports \cup Goals \cup Hypotheses,
             NEW y \in Reports \cup Goals \cup Hypotheses, CommitLink(x, y)
      PROVE  EpisodesTypeOK'
  BY <1>5 DEF EpisodesTypeOK, CommitLink, Entities
<1>6. ASSUME NEW h \in Hypotheses, NEW v \in StoredHypotheses, MovedTo(h, v)
      PROVE  EpisodesTypeOK'
  <2>1. v.target \in DOMAIN observations /\ v.support \cup v.against \subseteq DOMAIN observations
    BY <1>6 DEF MovedTo, Revises, EpisodesTypeOK
  <2>2. unresolved' \subseteq DOMAIN observations
    BY <1>6, <2>1, MovedFacts DEF Recomputed, EpisodesTypeOK, MovedTo, Revises
  <2> QED
    BY <1>6, <2>1, <2>2, MovedFacts DEF EpisodesTypeOK, Entities
<1> QED
  BY <1>1, <1>2, <1>3, <1>4, <1>5, <1>6, Kinds

LEMMA InitType == EpisodesInit => EpisodesTypeOK
BY DEF EpisodesInit, EpisodesTypeOK, Entities

(* The maps of the projection hold entries of their types, after every     *)
(* sequence of commits, for every set of ids.                              *)
THEOREM EpisodesTypeCorrectness == EpisodesSpec => []EpisodesTypeOK
BY InitType, TypeStep, PTL DEF EpisodesSpec

-----------------------------------------------------------------------------
(* Verdicts                                                                *)

(* A report that is evidence for a hypothesis stays evidence for it: what  *)
(* it reports and which episode the hypothesis is about are settled, and   *)
(* links are only added.                                                   *)
LEMMA IndependentKept ==
    ASSUME NEW h, NEW r,
           hypotheses'[h].target = hypotheses[h].target,
           observations'[r] = observations[r],
           links \subseteq links',
           Independent(h, r)
    PROVE  Independent(h, r)'
BY DEF Independent, Authorized

(* No step withdraws a report or a link, and a hypothesis that is there    *)
(* stays about its episode.                                                *)
LEMMA NothingIsWithdrawn ==
    ASSUME EpisodesTypeOK, [EpisodesNext]_episodesVars
    PROVE  /\ \A r \in DOMAIN observations :
                r \in DOMAIN observations' /\ observations'[r] = observations[r]
           /\ links \subseteq links'
           /\ \A h \in DOMAIN hypotheses :
                h \in DOMAIN hypotheses' /\ hypotheses'[h].target = hypotheses[h].target
<1>1. CASE UNCHANGED episodesVars
  BY <1>1 DEF episodesVars
<1>2. ASSUME NEW r \in Reports, NEW o \in Observations, CommitObservation(r, o)
      PROVE  /\ \A q \in DOMAIN observations :
                  q \in DOMAIN observations' /\ observations'[q] = observations[q]
             /\ UNCHANGED <<links, hypotheses>>
  BY <1>2 DEF CommitObservation, Put
<1>3. ASSUME NEW g \in Goals, CommitGoal(g)
      PROVE  UNCHANGED <<observations, links, hypotheses>>
  BY <1>3 DEF CommitGoal
<1>4. ASSUME NEW h \in Hypotheses, NEW r \in Reports, NEW s \in SUBSET Reports,
             NEW a \in SUBSET Reports, CommitHypothesis(h, r, s, a)
      PROVE  /\ UNCHANGED <<observations, links>>
             /\ \A g \in DOMAIN hypotheses :
                  g \in DOMAIN hypotheses' /\ hypotheses'[g] = hypotheses[g]
  BY <1>4 DEF CommitHypothesis, Put
<1>5. ASSUME NEW x, NEW y, CommitLink(x, y)
      PROVE  links \subseteq links' /\ UNCHANGED <<observations, hypotheses>>
  BY <1>5 DEF CommitLink
<1>6. ASSUME NEW h \in Hypotheses, NEW v \in StoredHypotheses, MovedTo(h, v)
      PROVE  /\ UNCHANGED <<observations, links>>
             /\ \A g \in DOMAIN hypotheses :
                  /\ g \in DOMAIN hypotheses'
                  /\ hypotheses'[g].target = hypotheses[g].target
  BY <1>6, MovedFacts DEF MovedTo, Revises
<1> QED
  BY <1>1, <1>2, <1>3, <1>4, <1>5, <1>6, Kinds

\* The conjunct of VerdictsRestOnEvidence about one hypothesis.
Grounded(h) ==
    /\ hypotheses[h].status = "Supported" =>
          \E r \in hypotheses[h].support : Independent(h, r)
    /\ hypotheses[h].status = "Disconfirmed" =>
          \E r \in hypotheses[h].against : Independent(h, r)

(* A hypothesis whose record a step leaves alone keeps its grounds.        *)
LEMMA GroundsKept ==
    ASSUME EpisodesTypeOK, [EpisodesNext]_episodesVars, NEW h \in DOMAIN hypotheses, Grounded(h),
           hypotheses'[h] = hypotheses[h]
    PROVE  Grounded(h)'
<1>1. \A r \in hypotheses[h].support \cup hypotheses[h].against :
         Independent(h, r) => Independent(h, r)'
  BY NothingIsWithdrawn, IndependentKept DEF EpisodesTypeOK
<1> QED
  BY <1>1 DEF Grounded

(* A transition that gives a verdict gives it its grounds.                 *)
LEMMA VerdictIsGrounded ==
    ASSUME EpisodesTypeOK, NEW h \in Hypotheses, NEW ev \in SUBSET Reports,
           [EpisodesNext]_episodesVars,
           Support(h, ev) \/ Disconfirm(h, ev) \/ \E by \in Hypotheses : Supersede(h, by, ev)
    PROVE  Grounded(h)'
<1>0. h \in DOMAIN hypotheses /\ hypotheses[h] \in StoredHypotheses
  BY DEF EpisodesTypeOK, Support, Disconfirm, Supersede
<1>1. PICK r \in ev : r \in DOMAIN observations /\ Independent(h, r)
  BY DEF Support, Disconfirm, Supersede, Corroborates
<1>2. Independent(h, r)'
  BY <1>0, <1>1, NothingIsWithdrawn, IndependentKept
<1>3. CASE Support(h, ev)
  <2>1. hypotheses'[h].status = "Supported" /\ r \in hypotheses'[h].support
    BY <1>0, <1>1, <1>3 DEF Support, Moved, StoredHypotheses
  <2> QED
    BY <1>2, <2>1 DEF Grounded
<1>4. CASE Disconfirm(h, ev)
  <2>1. hypotheses'[h].status = "Disconfirmed" /\ r \in hypotheses'[h].against
    BY <1>0, <1>1, <1>4 DEF Disconfirm, Moved, StoredHypotheses
  <2> QED
    BY <1>2, <2>1 DEF Grounded
<1>5. ASSUME NEW by \in Hypotheses, Supersede(h, by, ev)
      PROVE  Grounded(h)'
  <2>1. hypotheses'[h].status = "Superseded"
    BY <1>0, <1>5 DEF Supersede, Moved, StoredHypotheses
  <2> QED
    BY <2>1 DEF Grounded
<1> QED
  BY <1>3, <1>4, <1>5

LEMMA EvidenceStep ==
    ASSUME EpisodesTypeOK, VerdictsRestOnEvidence, [EpisodesNext]_episodesVars
    PROVE  VerdictsRestOnEvidence'
<1> SUFFICES ASSUME NEW g \in DOMAIN hypotheses'
             PROVE  Grounded(g)'
  BY DEF VerdictsRestOnEvidence, Grounded
<1>0. \A h \in DOMAIN hypotheses : Grounded(h)
  BY DEF VerdictsRestOnEvidence, Grounded
<1>1. CASE g \in DOMAIN hypotheses /\ hypotheses'[g] = hypotheses[g]
  BY <1>0, <1>1, GroundsKept
<1>2. ASSUME NEW h \in Hypotheses, NEW r \in Reports, NEW s \in SUBSET Reports,
             NEW a \in SUBSET Reports, CommitHypothesis(h, r, s, a)
      PROVE  Grounded(g)'
  <2>1. CASE g = h
    <3>1. hypotheses'[g].status = "Candidate"
      BY <1>2, <2>1 DEF CommitHypothesis, Put
    <3> QED
      BY <3>1 DEF Grounded
  <2>2. CASE g # h
    <3>1. g \in DOMAIN hypotheses /\ hypotheses'[g] = hypotheses[g]
      BY <1>2, <2>2 DEF CommitHypothesis, Put
    <3> QED
      BY <1>1, <3>1
  <2> QED
    BY <2>1, <2>2
<1>3. ASSUME NEW h \in Hypotheses, NEW ev \in SUBSET Reports,
             Support(h, ev) \/ Disconfirm(h, ev) \/ \E by \in Hypotheses : Supersede(h, by, ev)
      PROVE  Grounded(g)'
  <2>1. CASE g = h
    BY <1>3, <2>1, VerdictIsGrounded
  <2>2. CASE g # h
    <3>1. g \in DOMAIN hypotheses /\ hypotheses'[g] = hypotheses[g]
      BY <1>3, <2>2 DEF Support, Disconfirm, Supersede, Moved
    <3> QED
      BY <1>1, <3>1
  <2> QED
    BY <2>1, <2>2
<1>4. CASE UNCHANGED hypotheses
  BY <1>1, <1>4
<1> QED
  BY <1>2, <1>3, <1>4 DEF EpisodesNext, episodesVars, CommitObservation, CommitGoal, CommitLink

(* A hypothesis is never supported or disconfirmed on the report it        *)
(* explains, on an inconclusive one, or on one nobody linked to the case.  *)
THEOREM VerdictsAreGrounded == EpisodesSpec => []VerdictsRestOnEvidence
<1>1. EpisodesInit => VerdictsRestOnEvidence
  BY DEF EpisodesInit, VerdictsRestOnEvidence
<1>2. EpisodesTypeOK /\ VerdictsRestOnEvidence /\ [EpisodesNext]_episodesVars => VerdictsRestOnEvidence'
  BY EvidenceStep
<1> QED
  BY <1>1, <1>2, EpisodesTypeCorrectness, PTL DEF EpisodesSpec

-----------------------------------------------------------------------------
(* The registry                                                            *)

\* The conjunct of RegistryIsExact about one episode.
Exact(r) ==
    r \in unresolved <=> r \in DOMAIN observations /\ StaysUnresolved(hypotheses, r)

(* An episode whose report and hypotheses a step leaves alone stays open   *)
(* or closed.                                                              *)
LEMMA OtherEpisodes ==
    ASSUME NEW r, NEW h, Exact(r),
           r \in unresolved' <=> r \in unresolved,
           r \in DOMAIN observations' <=> r \in DOMAIN observations,
           observations'[r] = observations[r],
           DOMAIN hypotheses \subseteq DOMAIN hypotheses',
           DOMAIN hypotheses' \subseteq DOMAIN hypotheses \cup {h},
           \A g \in DOMAIN hypotheses : g # h => hypotheses'[g] = hypotheses[g],
           h \in DOMAIN hypotheses => hypotheses[h].target # r,
           h \in DOMAIN hypotheses' => hypotheses'[h].target # r
    PROVE  Exact(r)'
<1>1. \A g : g \in DOMAIN hypotheses /\ hypotheses[g].target = r <=>
             g \in DOMAIN hypotheses' /\ hypotheses'[g].target = r
  OBVIOUS
<1>2. \A g \in DOMAIN hypotheses : hypotheses[g].target = r =>
             hypotheses'[g] = hypotheses[g]
  OBVIOUS
<1>3. \A c : HasHypothesis(hypotheses, r, c) <=> HasHypothesis(hypotheses', r, c)
  BY <1>1, <1>2 DEF HasHypothesis
<1> QED
  BY <1>3 DEF Exact, StaysUnresolved

LEMMA RegistryStep ==
    ASSUME EpisodesTypeOK, RegistryIsExact, [EpisodesNext]_episodesVars
    PROVE  RegistryIsExact'
<1> SUFFICES ASSUME NEW r
             PROVE  Exact(r)'
  BY DEF RegistryIsExact, Exact
<1>0. Exact(r)
  BY DEF RegistryIsExact, Exact
<1>1. CASE UNCHANGED <<observations, hypotheses, unresolved>>
  BY <1>0, <1>1 DEF Exact, StaysUnresolved, HasHypothesis
<1>2. ASSUME NEW q \in Reports, NEW o \in Observations, CommitObservation(q, o)
      PROVE  Exact(r)'
  <2>1. \A g \in DOMAIN hypotheses : hypotheses[g].target # q
    BY <1>2 DEF EpisodesTypeOK, CommitObservation
  <2>2. /\ DOMAIN observations' = DOMAIN observations \cup {q}
        /\ observations'[q] = o
        /\ \A y \in DOMAIN observations : y # q => observations'[y] = observations[y]
        /\ unresolved' = IF o.flagged THEN unresolved \cup {q} ELSE unresolved
        /\ q \notin DOMAIN observations
        /\ UNCHANGED hypotheses
    BY <1>2 DEF CommitObservation, Put
  <2>3. CASE r = q
    BY <1>0, <2>1, <2>2, <2>3 DEF Exact, StaysUnresolved, HasHypothesis
  <2>4. CASE r # q
    BY <1>0, <2>2, <2>4 DEF Exact, StaysUnresolved, HasHypothesis
  <2> QED
    BY <2>3, <2>4
<1>3. ASSUME NEW h \in Hypotheses, NEW q \in Reports, NEW s \in SUBSET Reports,
             NEW a \in SUBSET Reports, CommitHypothesis(h, q, s, a)
      PROVE  Exact(r)'
  <2>1. /\ h \notin DOMAIN hypotheses
        /\ DOMAIN hypotheses' = DOMAIN hypotheses \cup {h}
        /\ hypotheses'[h].target = q /\ hypotheses'[h].status = "Candidate"
        /\ \A y \in DOMAIN hypotheses : y # h => hypotheses'[y] = hypotheses[y]
        /\ unresolved' = unresolved \cup {q}
        /\ q \in DOMAIN observations
        /\ UNCHANGED observations
    BY <1>3 DEF CommitHypothesis, Put
  <2>2. CASE r = q
    <3>1. HasHypothesis(hypotheses', r, "Candidate")
      BY <2>1, <2>2 DEF HasHypothesis
    <3> QED
      BY <2>1, <2>2, <3>1 DEF Exact, StaysUnresolved
  <2>3. CASE r # q
    BY <1>0, <2>1, <2>3, OtherEpisodes
  <2> QED
    BY <2>2, <2>3
<1>4. ASSUME NEW h \in Hypotheses, NEW v \in StoredHypotheses, MovedTo(h, v)
      PROVE  Exact(r)'
  <2> DEFINE q == hypotheses[h].target
  <2>1. /\ h \in DOMAIN hypotheses
        /\ DOMAIN hypotheses' = DOMAIN hypotheses
        /\ hypotheses'[h].target = q
        /\ \A y \in DOMAIN hypotheses : y # h => hypotheses'[y] = hypotheses[y]
        /\ unresolved' = Recomputed(hypotheses', q)
        /\ q \in DOMAIN observations
        /\ UNCHANGED observations
    BY <1>4, MovedFacts DEF MovedTo, Revises, EpisodesTypeOK
  <2>2. CASE r = q
    <3>1. r \in unresolved' <=> StaysUnresolved(hypotheses', r)
      BY <2>1, <2>2 DEF Recomputed
    <3>2. StaysUnresolved(hypotheses', r) <=> StaysUnresolved(hypotheses, r)'
      BY <2>1 DEF StaysUnresolved
    <3> QED
      BY <2>1, <2>2, <3>1, <3>2 DEF Exact
  <2>3. CASE r # q
    <3>1. r \in unresolved' <=> r \in unresolved
      BY <2>1, <2>3 DEF Recomputed
    <3> QED
      BY <1>0, <2>1, <2>3, <3>1, OtherEpisodes
  <2> QED
    BY <2>2, <2>3
<1>5. ASSUME NEW g \in Goals, CommitGoal(g)
      PROVE  UNCHANGED <<observations, hypotheses, unresolved>>
  BY <1>5 DEF CommitGoal
<1>6. ASSUME NEW x, NEW y, CommitLink(x, y)
      PROVE  UNCHANGED <<observations, hypotheses, unresolved>>
  BY <1>6 DEF CommitLink
<1>7. CASE UNCHANGED episodesVars
  BY <1>1, <1>7 DEF episodesVars
<1> QED
  BY <1>1, <1>2, <1>3, <1>4, <1>5, <1>6, <1>7, Kinds

(* The registry of unresolved episodes, patched at each commit for one     *)
(* episode, always is what all reports and hypotheses together say.        *)
THEOREM RegistryStaysExact == EpisodesSpec => []RegistryIsExact
<1>1. EpisodesInit => RegistryIsExact
  BY DEF EpisodesInit, RegistryIsExact, StaysUnresolved
<1>2. EpisodesTypeOK /\ RegistryIsExact /\ [EpisodesNext]_episodesVars => RegistryIsExact'
  BY RegistryStep
<1> QED
  BY <1>1, <1>2, EpisodesTypeCorrectness, PTL DEF EpisodesSpec

-----------------------------------------------------------------------------
(* Status                                                                  *)

(* No commit returns a hypothesis to candidacy, and none supports one that *)
(* was disconfirmed or superseded.                                         *)
THEOREM VerdictsStand == EpisodesSpec => VerdictsAreNotTakenBack
<1> DEFINE Stands(h) ==
      /\ h \in DOMAIN hypotheses'
      /\ hypotheses[h].status # "Candidate" => hypotheses'[h].status # "Candidate"
      /\ hypotheses[h].status \in {"Disconfirmed", "Superseded"} =>
            hypotheses'[h].status # "Supported"
<1>1. ASSUME EpisodesTypeOK, [EpisodesNext]_episodesVars, NEW g \in DOMAIN hypotheses
      PROVE  Stands(g)
  <2>0. g \in DOMAIN hypotheses'
    BY <1>1, NothingIsWithdrawn
  <2>1. CASE hypotheses'[g] = hypotheses[g]
    BY <2>0, <2>1
  <2>2. ASSUME NEW h \in Hypotheses, NEW r \in Reports, NEW s \in SUBSET Reports,
               NEW a \in SUBSET Reports, CommitHypothesis(h, r, s, a)
        PROVE  hypotheses'[g] = hypotheses[g]
    BY <1>1, <2>2 DEF CommitHypothesis, Put
  <2>3. ASSUME NEW h \in Hypotheses, NEW ev \in SUBSET Reports,
               Support(h, ev) \/ Disconfirm(h, ev) \/ \E by \in Hypotheses : Supersede(h, by, ev)
        PROVE  Stands(g)
    <3>1. CASE g # h
      <4>1. hypotheses'[g] = hypotheses[g]
        BY <1>1, <2>3, <3>1 DEF Support, Disconfirm, Supersede, Moved
      <4> QED
        BY <2>1, <4>1
    <3>2. CASE g = h
      <4>0. hypotheses[g] \in StoredHypotheses
        BY <1>1 DEF EpisodesTypeOK
      <4>1. CASE Support(h, ev)
        BY <2>0, <3>2, <4>0, <4>1 DEF Support
      <4>2. CASE Disconfirm(h, ev)
        <5>1. hypotheses'[g].status = "Disconfirmed"
          BY <1>1, <3>2, <4>0, <4>2 DEF Disconfirm, Moved, StoredHypotheses
        <5> QED
          BY <2>0, <5>1
      <4>3. ASSUME NEW by \in Hypotheses, Supersede(h, by, ev)
            PROVE  Stands(g)
        <5>1. hypotheses'[g].status = "Superseded"
          BY <1>1, <3>2, <4>0, <4>3 DEF Supersede, Moved, StoredHypotheses
        <5> QED
          BY <2>0, <5>1
      <4> QED
        BY <2>3, <4>1, <4>2, <4>3
    <3> QED
      BY <3>1, <3>2
  <2>4. CASE UNCHANGED hypotheses
    BY <2>1, <2>4
  <2> QED
    BY <1>1, <2>1, <2>2, <2>3, <2>4
    DEF EpisodesNext, episodesVars, CommitObservation, CommitGoal, CommitLink
<1>2. EpisodesTypeOK /\ [EpisodesNext]_episodesVars =>
        [\A h \in DOMAIN hypotheses : Stands(h)]_hypotheses
  BY <1>1
<1> QED
  BY <1>2, EpisodesTypeCorrectness, PTL DEF EpisodesSpec, VerdictsAreNotTakenBack

-----------------------------------------------------------------------------
(* Induction                                                                *)

\* Induction over the numbers, with a set for the property.
LEMMA SetInduction ==
  ASSUME NEW P, 0 \in P, \A n \in Nat : n \in P => n + 1 \in P
  PROVE  Nat \subseteq P
<1> DEFINE R == OpToRel(<, Nat)
<1> DEFINE T == Nat \ P
<1>1. IsWellFoundedOn(R, Nat)
  BY NatLessThanWellFounded
<1>2. \A x, y \in Nat : y < x => <<y, x>> \in R
  BY DEF OpToRel
<1> HIDE DEF R
<1>3. SUFFICES ASSUME T # {} PROVE FALSE
  OBVIOUS
<1>4. PICK x \in T : \A y \in T : ~ (<<y, x>> \in R)
  BY <1>1, <1>3, WFMin
<1>5. x \in Nat /\ x # 0
  OBVIOUS
<1>6. x - 1 \in Nat /\ x - 1 < x /\ x = (x - 1) + 1
  BY <1>5
<1>7. x - 1 \in T
  BY <1>6
<1>8. <<x - 1, x>> \in R
  BY <1>2, <1>5, <1>6
<1> QED
  BY <1>4, <1>7, <1>8

-----------------------------------------------------------------------------
(* Folds.  A fold is a function on the subsets of a finite set; Step says   *)
(* what an element adds, Ch which element of a subset is taken out.          *)

\* The function of a fold over the subsets of S of at most n elements.
FoldRun(f, S, n, base, Ch, Step) ==
    f = [s \in {s \in SUBSET S : Cardinality(s) <= n} |->
            IF s = {} THEN base ELSE Step[<<Ch[s], f[s \ {Ch[s]}]>>]]

\* A set that is not empty, without the element taken out, is smaller by one.
LEMMA OneLess ==
  ASSUME NEW S, IsFiniteSet(S), NEW s \in SUBSET S, NEW x \in s
  PROVE  /\ s \ {x} \in SUBSET S /\ IsFiniteSet(s) /\ IsFiniteSet(s \ {x})
         /\ Cardinality(s) \in Nat /\ Cardinality(s) # 0 /\ Cardinality(s \ {x}) = Cardinality(s) - 1
<1>1. IsFiniteSet(s)
  BY FS_Subset
<1>2. Cardinality(s \ {x}) = Cardinality(s) - 1 /\ IsFiniteSet(s \ {x})
  BY <1>1, FS_RemoveElement
<1>3. Cardinality(s) \in Nat /\ Cardinality(s) # 0
  BY <1>1, FS_CardinalityType, FS_EmptySet
<1> QED
  BY <1>1, <1>2, <1>3

\* The function of a whole fold, with values in T.
FoldOf(f, S, T, base, Ch, Step) ==
    /\ f \in [SUBSET S -> T]
    /\ f = [s \in SUBSET S |-> IF s = {} THEN base ELSE Step[<<Ch[s], f[s \ {Ch[s]}]>>]]

\* A fold has a function, and its values stay in T.
LEMMA FoldExists ==
  ASSUME NEW S, IsFiniteSet(S), NEW T, NEW base \in T, NEW Ch, NEW Step,
         \A s \in SUBSET S : s # {} => Ch[s] \in s,
         \A x \in S, t \in T : Step[<<x, t>>] \in T
  PROVE  \E f : FoldOf(f, S, T, base, Ch, Step)
<1> DEFINE Small(n) == {s \in SUBSET S : Cardinality(s) <= n}
<1> DEFINE P == {n \in Nat : \E f : f \in [Small(n) -> T] /\ FoldRun(f, S, n, base, Ch, Step)}
<1>0. \A s \in SUBSET S : IsFiniteSet(s) /\ Cardinality(s) \in Nat /\ (Cardinality(s) = 0 <=> s = {})
  BY FS_Subset, FS_CardinalityType, FS_EmptySet
<1>1. 0 \in P
  <2> DEFINE f == [s \in Small(0) |-> base]
  <2>1. \A s \in Small(0) : s = {}
    BY <1>0
  <2>2. f = [s \in Small(0) |-> IF s = {} THEN base ELSE Step[<<Ch[s], f[s \ {Ch[s]}]>>]]
    BY <2>1
  <2> QED
    BY <2>2 DEF FoldRun
<1>2. ASSUME NEW n \in Nat, n \in P
      PROVE  n + 1 \in P
  <2>1. PICK f : f \in [Small(n) -> T] /\ FoldRun(f, S, n, base, Ch, Step)
    BY <1>2
  <2> DEFINE g == [s \in Small(n + 1) |-> IF s = {} THEN base ELSE Step[<<Ch[s], f[s \ {Ch[s]}]>>]]
  <2>2. \A s \in Small(n + 1) : s # {} => Ch[s] \in s /\ Ch[s] \in S /\ s \ {Ch[s]} \in Small(n)
    BY <1>0, OneLess
  <2>3. g \in [Small(n + 1) -> T]
    BY <2>1, <2>2
  <2>4. ASSUME NEW s \in Small(n)
        PROVE  s \in Small(n + 1) /\ g[s] = f[s]
    <3>1. s \in SUBSET S /\ Cardinality(s) \in Nat /\ Cardinality(s) <= n
      BY <1>0
    <3>2. s \in Small(n + 1)
      BY <3>1
    <3>3. f[s] = IF s = {} THEN base ELSE Step[<<Ch[s], f[s \ {Ch[s]}]>>]
      BY <2>1 DEF FoldRun
    <3> QED
      BY <3>2, <3>3
  <2>5. g = [s \in Small(n + 1) |-> IF s = {} THEN base ELSE Step[<<Ch[s], g[s \ {Ch[s]}]>>]]
    <3>1. \A s \in Small(n + 1) : s # {} => f[s \ {Ch[s]}] = g[s \ {Ch[s]}]
      BY <2>2, <2>4
    <3>2. \A s \in Small(n + 1) :
             g[s] = IF s = {} THEN base ELSE Step[<<Ch[s], g[s \ {Ch[s]}]>>]
      BY <3>1
    <3>3. g = [s \in Small(n + 1) |-> g[s]]
      OBVIOUS
    <3> HIDE DEF g
    <3> QED
      BY <3>2, <3>3
  <2> HIDE DEF g
  <2>6. FoldRun(g, S, n + 1, base, Ch, Step)
    BY <2>5 DEF FoldRun
  <2>7. \E h : h \in [Small(n + 1) -> T] /\ FoldRun(h, S, n + 1, base, Ch, Step)
    <3> HIDE DEF Small
    <3> QED
      BY <2>3, <2>6
  <2>8. n + 1 \in Nat
    OBVIOUS
  <2> HIDE DEF Small
  <2> QED
    BY <2>7, <2>8, Zenon
<1>3. Cardinality(S) \in Nat /\ Cardinality(S) \in P
  <2>1. Nat \subseteq P
    <3> HIDE DEF P
    <3> QED
      BY <1>1, <1>2, SetInduction
  <2> QED
    BY <2>1, FS_CardinalityType
<1>4. \A s \in SUBSET S : Cardinality(s) <= Cardinality(S)
  BY FS_Subset
<1>5. Small(Cardinality(S)) = SUBSET S
  BY <1>4
<1>6. PICK f : f \in [Small(Cardinality(S)) -> T] /\ FoldRun(f, S, Cardinality(S), base, Ch, Step)
  BY <1>3
<1>7. FoldOf(f, S, T, base, Ch, Step)
  BY <1>5, <1>6 DEF FoldRun, FoldOf
<1> QED
  BY <1>7

\* What holds of nothing, and of a set when it holds of the set without one of
\* its elements.
LEMMA FoldStays ==
  ASSUME NEW S, IsFiniteSet(S), NEW P, {} \in P,
         \A s \in SUBSET S : s # {} => \E x \in s : s \ {x} \in P => s \in P
  PROVE  SUBSET S \subseteq P
<1> DEFINE Q == {n \in Nat : \A s \in SUBSET S : Cardinality(s) <= n => s \in P}
<1>0. \A s \in SUBSET S : IsFiniteSet(s) /\ Cardinality(s) \in Nat /\ (Cardinality(s) = 0 <=> s = {})
  BY FS_Subset, FS_CardinalityType, FS_EmptySet
<1>1. 0 \in Q
  <2> SUFFICES ASSUME NEW s \in SUBSET S, Cardinality(s) <= 0
               PROVE  s \in P
    OBVIOUS
  <2>1. Cardinality(s) \in Nat /\ Cardinality(s) = 0
    BY <1>0
  <2>2. s = {}
    BY <1>0, <2>1
  <2> QED
    BY <2>2
<1>2. ASSUME NEW n \in Nat, n \in Q
      PROVE  n + 1 \in Q
  <2> SUFFICES ASSUME NEW s \in SUBSET S, Cardinality(s) <= n + 1, s # {}
               PROVE  s \in P
    OBVIOUS
  <2>1. PICK x \in s : s \ {x} \in P => s \in P
    OBVIOUS
  <2>2. Cardinality(s \ {x}) <= n /\ s \ {x} \in SUBSET S
    <3>1. s \ {x} \in SUBSET S /\ Cardinality(s) \in Nat /\ Cardinality(s \ {x}) = Cardinality(s) - 1
      BY OneLess
    <3> QED
      BY <3>1
  <2> QED
    BY <1>2, <2>1, <2>2
<1>3. Nat \subseteq Q
  <2> HIDE DEF Q
  <2> QED
    BY <1>1, <1>2, SetInduction
<1> QED
  BY <1>0, <1>3

\* Induction up to n.
LEMMA IntervalInduction ==
  ASSUME NEW n \in Nat, NEW P, 0 \in P, \A s \in 1 .. n : s - 1 \in P => s \in P
  PROVE  0 .. n \subseteq P
<1> DEFINE Q == {s \in Nat : s <= n => s \in P}
<1>1. 0 \in Q
  OBVIOUS
<1>2. ASSUME NEW s \in Nat, s \in Q
      PROVE  s + 1 \in Q
  <2>1. CASE s + 1 <= n
    <3>1. s + 1 \in 1 .. n /\ (s + 1) - 1 = s /\ s \in P
      BY <1>2, <2>1
    <3> QED
      BY <3>1
  <2> QED
    BY <1>2, <2>1
<1>3. Nat \subseteq Q
  <2> HIDE DEF Q
  <2> QED
    BY <1>1, <1>2, SetInduction
<1> QED
  BY <1>3

\* The greatest and the least element of a set of indices are among it.
LEMMA Extremes ==
  ASSUME NEW n \in Nat, NEW s \in SUBSET (1 .. n), s # {}
  PROVE  Max(s) \in s /\ Min(s) \in s
<1> DEFINE P == {m \in 0 .. n : \A t \in SUBSET (1 .. m) : t # {} =>
                    /\ \E x \in t : \A y \in t : x >= y
                    /\ \E x \in t : \A y \in t : x <= y}
<1>1. 0 \in P
  <2>1. 1 .. 0 = {}
    OBVIOUS
  <2>2. 0 \in 0 .. n /\ \A t \in SUBSET (1 .. 0) : t = {}
    BY <2>1
  <2> QED
    BY <2>2
<1>2. ASSUME NEW m \in 1 .. n, m - 1 \in P
      PROVE  m \in P
  <2> SUFFICES ASSUME NEW t \in SUBSET (1 .. m), t # {}
               PROVE  /\ \E x \in t : \A y \in t : x >= y
                      /\ \E x \in t : \A y \in t : x <= y
    OBVIOUS
  <2> DEFINE u == t \ {m}
  <2>1. u \in SUBSET (1 .. m - 1)
    OBVIOUS
  <2>2. CASE u = {}
    <3>1. t = {m}
      BY <2>2
    <3> QED
      BY <3>1
  <2>3. CASE u # {}
    <3>1. PICK a \in u : \A y \in u : a >= y
      BY <1>2, <2>1, <2>3
    <3>2. PICK b \in u : \A y \in u : b <= y
      BY <1>2, <2>1, <2>3
    <3>3. b <= m /\ \A y \in t : y <= m
      OBVIOUS
    <3>4. CASE m \in t
      BY <3>1, <3>2, <3>3, <3>4
    <3>5. CASE m \notin t
      <4>1. u = t
        BY <3>5
      <4> QED
        BY <3>1, <3>2, <4>1
    <3> QED
      BY <3>4, <3>5
  <2> QED
    BY <2>2, <2>3
<1>3. n \in P
  <2>1. 0 .. n \subseteq P
    <3> HIDE DEF P
    <3> QED
      BY <1>1, <1>2, IntervalInduction
  <2> QED
    BY <2>1
<1>4. \E x \in s : \A y \in s : x >= y
  BY <1>3
<1>5. \E x \in s : \A y \in s : x <= y
  BY <1>3
<1> QED
  BY <1>4, <1>5 DEF Max, Min

\* An interval without its greatest, or its least, is an interval.
LEMMA Intervals ==
  ASSUME NEW n \in Nat, NEW i \in 1 .. n
  PROVE  /\ Max(1 .. i) = i /\ (1 .. i) \ {i} = 1 .. (i - 1) /\ 1 .. i # {}
         /\ Min(i .. n) = i /\ (i .. n) \ {i} = (i + 1) .. n /\ i .. n # {}
         /\ 1 .. i \in SUBSET (1 .. n) /\ 1 .. (i - 1) \in SUBSET (1 .. n)
         /\ i .. n \in SUBSET (1 .. n) /\ (i + 1) .. n \in SUBSET (1 .. n)
<1>1. i \in 1 .. i /\ \A y \in 1 .. i : i >= y
  OBVIOUS
<1>2. i \in i .. n /\ \A y \in i .. n : i <= y
  OBVIOUS
<1>3. \A x \in 1 .. i : (\A y \in 1 .. i : x >= y) => x = i
  BY <1>1
<1>4. \A x \in i .. n : (\A y \in i .. n : x <= y) => x = i
  BY <1>2
<1>5. Max(1 .. i) = i
  BY <1>1, <1>3 DEF Max
<1>6. Min(i .. n) = i
  BY <1>2, <1>4 DEF Min
<1> QED
  BY <1>1, <1>2, <1>5, <1>6

\* The functions of a fold from the left, of one from the right, and of one
\* over a set, with values in T.
LeftFold(f, n, T, base, Step) ==
    /\ f \in [SUBSET (1 .. n) -> T]
    /\ f = [s \in SUBSET (1 .. n) |-> IF s = {} THEN base ELSE Step[<<Max(s), f[s \ {Max(s)}]>>]]

RightFold(f, n, T, base, Step) ==
    /\ f \in [SUBSET (1 .. n) -> T]
    /\ f = [s \in SUBSET (1 .. n) |-> IF s = {} THEN base ELSE Step[<<Min(s), f[s \ {Min(s)}]>>]]

SetFold(f, S, T, base, Step) ==
    /\ f \in [SUBSET S -> T]
    /\ f = [s \in SUBSET S |->
               IF s = {} THEN base
               ELSE Step[<<CHOOSE x \in s : TRUE, f[s \ {CHOOSE x \in s : TRUE}]>>]]

\* Each of the three has a function.
LEMMA LeftExists ==
  ASSUME NEW n \in Nat, NEW T, NEW base \in T, NEW Step, \A i \in 1 .. n, t \in T : Step[<<i, t>>] \in T
  PROVE  \E f : LeftFold(f, n, T, base, Step)
<1> DEFINE S == 1 .. n
<1> DEFINE Ch == [s \in SUBSET S |-> Max(s)]
<1>1. IsFiniteSet(S)
  BY FS_Interval
<1>2. \A s \in SUBSET S : s # {} => Ch[s] \in s
  BY Extremes
<1>3. \A x \in S, t \in T : Step[<<x, t>>] \in T
  OBVIOUS
<1>4. \A s \in SUBSET S : Ch[s] = Max(s)
  OBVIOUS
<1> HIDE DEF S, Ch
<1>5. PICK f : FoldOf(f, S, T, base, Ch, Step)
  BY <1>1, <1>2, <1>3, FoldExists
<1>6. [s \in SUBSET S |-> IF s = {} THEN base ELSE Step[<<Ch[s], f[s \ {Ch[s]}]>>]]
      = [s \in SUBSET S |-> IF s = {} THEN base ELSE Step[<<Max(s), f[s \ {Max(s)}]>>]]
  BY <1>4
<1> QED
  BY <1>5, <1>6 DEF FoldOf, LeftFold, S

LEMMA RightExists ==
  ASSUME NEW n \in Nat, NEW T, NEW base \in T, NEW Step, \A i \in 1 .. n, t \in T : Step[<<i, t>>] \in T
  PROVE  \E f : RightFold(f, n, T, base, Step)
<1> DEFINE S == 1 .. n
<1> DEFINE Ch == [s \in SUBSET S |-> Min(s)]
<1>1. IsFiniteSet(S)
  BY FS_Interval
<1>2. \A s \in SUBSET S : s # {} => Ch[s] \in s
  BY Extremes
<1>3. \A x \in S, t \in T : Step[<<x, t>>] \in T
  OBVIOUS
<1>4. \A s \in SUBSET S : Ch[s] = Min(s)
  OBVIOUS
<1> HIDE DEF S, Ch
<1>5. PICK f : FoldOf(f, S, T, base, Ch, Step)
  BY <1>1, <1>2, <1>3, FoldExists
<1>6. [s \in SUBSET S |-> IF s = {} THEN base ELSE Step[<<Ch[s], f[s \ {Ch[s]}]>>]]
      = [s \in SUBSET S |-> IF s = {} THEN base ELSE Step[<<Min(s), f[s \ {Min(s)}]>>]]
  BY <1>4
<1> QED
  BY <1>5, <1>6 DEF FoldOf, RightFold, S

LEMMA AnyExists ==
  ASSUME NEW S, IsFiniteSet(S), NEW T, NEW base \in T, NEW Step, \A x \in S, t \in T : Step[<<x, t>>] \in T
  PROVE  \E f : SetFold(f, S, T, base, Step)
<1> DEFINE Ch == [s \in SUBSET S |-> CHOOSE x \in s : TRUE]
<1>2. \A s \in SUBSET S : s # {} => Ch[s] \in s
  OBVIOUS
<1>4. \A s \in SUBSET S : Ch[s] = CHOOSE x \in s : TRUE
  OBVIOUS
<1> HIDE DEF Ch
<1>5. PICK f : FoldOf(f, S, T, base, Ch, Step)
  BY <1>2, FoldExists
<1>6. [s \in SUBSET S |-> IF s = {} THEN base ELSE Step[<<Ch[s], f[s \ {Ch[s]}]>>]]
      = [s \in SUBSET S |->
            IF s = {} THEN base
            ELSE Step[<<CHOOSE x \in s : TRUE, f[s \ {CHOOSE x \in s : TRUE}]>>]]
  BY <1>4
<1> QED
  BY <1>5, <1>6 DEF FoldOf, SetFold

-----------------------------------------------------------------------------
(* Engines of the first generation                                          *)

\* The engines, as a set.
Engines ==
    {m \in [rows : SUBSET Nodes, text : UNION {[r -> Texts] : r \in SUBSET Nodes},
            records : UNION {[r -> Records] : r \in SUBSET Nodes},
            graph : Graphs, tree : SUBSET (Texts \X Nodes)] : DOMAIN m.text = m.rows}

\* IsMemory, which TLC evaluates, says membership in that set.
LEMMA EnginesAre == \A m : m \in Engines <=> IsMemory(m)
<1>1. ASSUME NEW m, m \in Engines PROVE IsMemory(m)
  <2>1. /\ m.rows \in SUBSET Nodes /\ m.graph \in Graphs /\ m.tree \in SUBSET (Texts \X Nodes)
        /\ DOMAIN m.text = m.rows
        /\ m.text \in UNION {[r -> Texts] : r \in SUBSET Nodes}
        /\ m.records \in UNION {[r -> Records] : r \in SUBSET Nodes}
        /\ m = [rows |-> m.rows, text |-> m.text, records |-> m.records, graph |-> m.graph, tree |-> m.tree]
    BY <1>1 DEF Engines
  <2>2. PICK a \in SUBSET Nodes : m.text \in [a -> Texts]
    BY <2>1
  <2>3. PICK b \in SUBSET Nodes : m.records \in [b -> Records]
    BY <2>1
  <2>4. m.text = [id \in m.rows |-> m.text[id]] /\ \A id \in m.rows : m.text[id] \in Texts
    BY <2>1, <2>2
  <2>5. m.records = [id \in DOMAIN m.records |-> m.records[id]] /\ DOMAIN m.records = b
        /\ \A id \in b : m.records[id] \in Records
    BY <2>3
  <2>6. m = [rows |-> m.rows, text |-> [id \in m.rows |-> m.text[id]],
             records |-> [id \in DOMAIN m.records |-> m.records[id]], graph |-> m.graph, tree |-> m.tree]
    BY <2>1, <2>4, <2>5
  <2> QED
    BY <2>1, <2>4, <2>5, <2>6 DEF IsMemory
<1>2. ASSUME NEW m, IsMemory(m) PROVE m \in Engines
  <2> DEFINE t == [id \in m.rows |-> m.text[id]]
  <2> DEFINE r == [id \in DOMAIN m.records |-> m.records[id]]
  <2>1. /\ m = [rows |-> m.rows, text |-> t, records |-> r, graph |-> m.graph, tree |-> m.tree]
        /\ m.rows \in SUBSET Nodes /\ m.graph \in Graphs /\ m.tree \in SUBSET (Texts \X Nodes)
        /\ \A id \in m.rows : m.text[id] \in Texts
        /\ DOMAIN m.records \in SUBSET Nodes /\ \A id \in DOMAIN m.records : m.records[id] \in Records
    BY <1>2 DEF IsMemory
  <2>2. t \in [m.rows -> Texts] /\ r \in [DOMAIN m.records -> Records]
    BY <2>1
  <2>3. t \in UNION {[d -> Texts] : d \in SUBSET Nodes} /\ r \in UNION {[d -> Records] : d \in SUBSET Nodes}
    BY <2>1, <2>2
  <2>4. DOMAIN t = m.rows
    OBVIOUS
  <2> HIDE DEF t, r
  <2>5. m.text = t
    BY <2>1
  <2> QED
    BY <2>1, <2>3, <2>4, <2>5 DEF Engines
<1> QED
  BY <1>1, <1>2

\* What is known of the fields of an engine, and how one is recognised.
LEMMA EngineFields ==
  ASSUME NEW m \in Engines
  PROVE  /\ m = [rows |-> m.rows, text |-> m.text, records |-> m.records, graph |-> m.graph, tree |-> m.tree]
         /\ m.rows \subseteq Nodes /\ m.text \in [m.rows -> Texts] /\ DOMAIN m.text = m.rows
         /\ DOMAIN m.records \subseteq Nodes /\ m.records \in [DOMAIN m.records -> Records]
         /\ m.graph \in Graphs /\ m.tree \subseteq Texts \X Nodes
<1>1. /\ m.rows \in SUBSET Nodes /\ m.graph \in Graphs /\ m.tree \in SUBSET (Texts \X Nodes)
      /\ DOMAIN m.text = m.rows
      /\ m.text \in UNION {[r -> Texts] : r \in SUBSET Nodes}
      /\ m.records \in UNION {[r -> Records] : r \in SUBSET Nodes}
      /\ m = [rows |-> m.rows, text |-> m.text, records |-> m.records, graph |-> m.graph, tree |-> m.tree]
  BY DEF Engines
<1>2. PICK a \in SUBSET Nodes : m.text \in [a -> Texts]
  BY <1>1
<1>3. PICK b \in SUBSET Nodes : m.records \in [b -> Records]
  BY <1>1
<1>4. m.text \in [m.rows -> Texts]
  BY <1>1, <1>2
<1>5. m.records \in [DOMAIN m.records -> Records] /\ DOMAIN m.records = b
  BY <1>3
<1> QED
  BY <1>1, <1>4, <1>5

LEMMA IsEngine ==
  ASSUME NEW rows \in SUBSET Nodes, NEW text \in [rows -> Texts], NEW ids \in SUBSET Nodes,
         NEW records \in [ids -> Records], NEW graph \in Graphs, NEW tree \in SUBSET (Texts \X Nodes)
  PROVE  [rows |-> rows, text |-> text, records |-> records, graph |-> graph, tree |-> tree] \in Engines
<1>1. DOMAIN text = rows
  OBVIOUS
<1>2. text \in UNION {[d -> Texts] : d \in SUBSET Nodes} /\ records \in UNION {[d -> Records] : d \in SUBSET Nodes}
  OBVIOUS
<1> QED
  BY <1>1, <1>2 DEF Engines

-----------------------------------------------------------------------------
(* Graphs                                                                   *)

\* The fields of a graph, and what the operations on graphs make of them.
LEMMA GraphFields ==
  ASSUME NEW g \in Graphs
  PROVE  /\ g = [edges |-> g.edges, adjacency |-> g.adjacency, causal_predecessors |-> g.causal_predecessors]
         /\ g.edges \in SUBSET Edges
         /\ g.adjacency \in [Nodes -> SUBSET Nodes] /\ g.causal_predecessors \in [Nodes -> SUBSET Nodes]
BY DEF Graphs

LEMMA ConnectedGraph ==
  ASSUME NEW g \in Graphs, NEW e \in Edges
  PROVE  /\ Connected(g, e) \in Graphs
         /\ Connected(g, e).edges = {f \in g.edges : Pair(f) # Pair(e)} \union {e}
<1>1. \A n \in Nodes : Forward(e, n) \subseteq Nodes /\ Backward(e, n) \subseteq Nodes
  BY DEF Forward, Backward, Pair, Edges
<1>2. [n \in Nodes |-> g.adjacency[n] \union Forward(e, n)] \in [Nodes -> SUBSET Nodes]
  BY <1>1, GraphFields
<1>3. [n \in Nodes |-> g.causal_predecessors[n] \union Backward(e, n)] \in [Nodes -> SUBSET Nodes]
  BY <1>1, GraphFields
<1>4. {f \in g.edges : Pair(f) # Pair(e)} \union {e} \in SUBSET Edges
  BY GraphFields
<1> QED
  BY <1>2, <1>3, <1>4 DEF Connected, Graphs

LEMMA CutGraph ==
  ASSUME NEW g \in Graphs, NEW gone
  PROVE  Cut(g, gone) \in Graphs /\ Cut(g, gone).edges = g.edges \ gone
<1>1. [n \in Nodes |-> g.adjacency[n] \ UNION {Forward(e, n) : e \in gone}] \in [Nodes -> SUBSET Nodes]
  BY GraphFields
<1>2. [n \in Nodes |-> g.causal_predecessors[n] \ UNION {Backward(e, n) : e \in gone}]
      \in [Nodes -> SUBSET Nodes]
  BY GraphFields
<1>3. g.edges \ gone \in SUBSET Edges
  BY GraphFields
<1> QED
  BY <1>1, <1>2, <1>3 DEF Cut, Graphs

LEMMA RemovedGraph ==
  ASSUME NEW g \in Graphs, NEW id \in Nodes
  PROVE  /\ Removed(g, id) \in Graphs
         /\ Removed(g, id).edges = {e \in g.edges : id \notin Pair(e)}
<1> DEFINE c == Cut(g, {e \in g.edges : id \in Pair(e)})
<1>1. c \in Graphs /\ c.edges = {e \in g.edges : id \notin Pair(e)}
  BY CutGraph
<1> HIDE DEF c
<1>2. Removed(g, id) = [edges |-> c.edges, adjacency |-> [c.adjacency EXCEPT ![id] = {}],
                        causal_predecessors |-> [c.causal_predecessors EXCEPT ![id] = {}]]
  <2> DEFINE p == [c EXCEPT !.adjacency[id] = {}]
  <2>1. c = [edges |-> c.edges, adjacency |-> c.adjacency, causal_predecessors |-> c.causal_predecessors]
    BY <1>1, GraphFields
  <2>2. p = [edges |-> c.edges, adjacency |-> [c.adjacency EXCEPT ![id] = {}],
             causal_predecessors |-> c.causal_predecessors]
    BY <2>1
  <2> HIDE DEF p
  <2>3. [p EXCEPT !.causal_predecessors[id] = {}]
        = [edges |-> c.edges, adjacency |-> [c.adjacency EXCEPT ![id] = {}],
           causal_predecessors |-> [c.causal_predecessors EXCEPT ![id] = {}]]
    <3>1. p.causal_predecessors = c.causal_predecessors
      BY <2>2
    <3> QED
      BY <2>2, <3>1
  <2> QED
    BY <2>3 DEF Removed, c, p
<1>3. [c.adjacency EXCEPT ![id] = {}] \in [Nodes -> SUBSET Nodes]
      /\ [c.causal_predecessors EXCEPT ![id] = {}] \in [Nodes -> SUBSET Nodes]
  BY <1>1, GraphFields
<1> QED
  BY <1>1, <1>2, <1>3, GraphFields DEF Graphs

LEMMA RebuiltGraph ==
  ASSUME NEW edges \in SUBSET Edges
  PROVE  Rebuilt(edges) \in Graphs /\ Rebuilt(edges).edges = edges
<1>1. \A n \in Nodes, e \in edges : Forward(e, n) \subseteq Nodes /\ Backward(e, n) \subseteq Nodes
  BY DEF Forward, Backward, Pair, Edges
<1>2. [n \in Nodes |-> UNION {Forward(e, n) : e \in edges}] \in [Nodes -> SUBSET Nodes]
  BY <1>1
<1>3. [n \in Nodes |-> UNION {Backward(e, n) : e \in edges}] \in [Nodes -> SUBSET Nodes]
  BY <1>1
<1> QED
  BY <1>2, <1>3 DEF Rebuilt, Graphs

LEMMA NoGraphIsOne == NoGraph \in Graphs
BY DEF NoGraph, Graphs

-----------------------------------------------------------------------------
(* What is done to an engine                                                 *)

\* The engine keeps what was told: row, record, text and term.
Holds(m, t) ==
    /\ m \in Engines /\ TermsAreStored(m)
    /\ \A id \in DOMAIN t : /\ id \in m.rows /\ id \in DOMAIN m.records
                            /\ m.text[id] = t[id] /\ <<t[id], id>> \in m.tree

\* A record that is archived in d is archived in m, if m has it.
ArchivedToo(d, m) ==
    \A id \in DOMAIN d.records \intersect DOMAIN m.records :
        d.records[id].state = "Archived" => m.records[id].state = "Archived"

Lost(t, id) == [i \in DOMAIN t \ {id} |-> t[i]]

\* A new record is sound and active.
LEMMA NewRecords ==
  \A k \in BOOLEAN : /\ [NewRecord EXCEPT !.keystone = k] \in Records
                     /\ [NewRecord EXCEPT !.keystone = k].state = "Active"
BY LevelsAssumption DEF NewRecord, Records, AboveGate

\* What each entry makes of an engine, and of what it holds.
LEMMA PutRowIs ==
  ASSUME NEW m \in Engines, NEW id \in Nodes, NEW text \in Texts
  PROVE  /\ PutRow(m, id, text) \in Engines
         /\ PutRow(m, id, text) = [rows |-> m.rows \union {id}, text |-> Entered(m.text, id, text),
                                   records |-> m.records, graph |-> m.graph, tree |-> m.tree]
         /\ \A t : Holds(m, t) => Holds(PutRow(m, id, text), Lost(t, id))
<1> DEFINE n == [rows |-> m.rows \union {id}, text |-> Entered(m.text, id, text),
                 records |-> m.records, graph |-> m.graph, tree |-> m.tree]
<1>0. /\ m = [rows |-> m.rows, text |-> m.text, records |-> m.records, graph |-> m.graph, tree |-> m.tree]
      /\ m.rows \subseteq Nodes /\ m.text \in [m.rows -> Texts]
      /\ DOMAIN m.records \subseteq Nodes /\ m.records \in [DOMAIN m.records -> Records]
      /\ m.graph \in Graphs /\ m.tree \subseteq Texts \X Nodes
  BY EngineFields
<1>1. Entered(m.text, id, text) \in [m.rows \union {id} -> Texts]
  BY <1>0 DEF Entered
<1>2. n \in Engines
  BY <1>0, <1>1, IsEngine
<1>3. PutRow(m, id, text) = n
  <2> DEFINE a == m.rows \union {id}
  <2> DEFINE p == [m EXCEPT !.rows = a]
  <2> HIDE DEF a
  <2>1. p = [rows |-> a, text |-> m.text, records |-> m.records, graph |-> m.graph, tree |-> m.tree]
    BY <1>0
  <2> HIDE DEF p
  <2>2. [p EXCEPT !.text = Entered(m.text, id, text)] = n
    BY <2>1 DEF a
  <2>3. PutRow(m, id, text) = [p EXCEPT !.text = Entered(m.text, id, text)]
    BY DEF PutRow, p, a
  <2> QED
    BY <2>2, <2>3
<1>4. ASSUME NEW t, Holds(m, t)
      PROVE  Holds(n, Lost(t, id))
  <2>1. \A i \in DOMAIN Lost(t, id) : i \in DOMAIN t /\ i # id /\ Lost(t, id)[i] = t[i]
    BY DEF Lost
  <2>2. \A i \in m.rows : i # id => n.text[i] = m.text[i]
    BY <1>0 DEF Entered
  <2>3. TermsAreStored(n)
    BY <1>4 DEF Holds, TermsAreStored
  <2> QED
    BY <1>2, <1>4, <2>1, <2>2, <2>3 DEF Holds
<1> QED
  BY <1>2, <1>3, <1>4

LEMMA RememberedIs ==
  ASSUME NEW m \in Engines, NEW id \in Nodes, NEW text \in Texts, NEW k,
         [NewRecord EXCEPT !.keystone = k] \in Records
  PROVE  LET n == Remembered(m, id, text, k)
         IN /\ n \in Engines
            /\ id \in n.rows /\ n.text[id] = text
            /\ n.records = Entered(m.records, id, [NewRecord EXCEPT !.keystone = k])
            /\ \A t : Holds(m, t) => Holds(n, Lost(t, id))
<1> DEFINE p == PutRow(m, id, text)
<1> DEFINE r == [NewRecord EXCEPT !.keystone = k]
<1> DEFINE n == [rows |-> p.rows, text |-> p.text, records |-> Entered(m.records, id, r),
                 graph |-> p.graph, tree |-> p.tree]
<1>0. /\ p \in Engines
      /\ p.rows = m.rows \union {id} /\ p.text = Entered(m.text, id, text)
      /\ p.records = m.records /\ p.graph = m.graph /\ p.tree = m.tree
      /\ \A t : Holds(m, t) => Holds(p, Lost(t, id))
  BY PutRowIs
<1>1. r \in Records
  OBVIOUS
<1> HIDE DEF p, r
<1>2. /\ p = [rows |-> p.rows, text |-> p.text, records |-> p.records, graph |-> p.graph, tree |-> p.tree]
      /\ p.rows \subseteq Nodes /\ p.text \in [p.rows -> Texts]
      /\ DOMAIN m.records \subseteq Nodes /\ m.records \in [DOMAIN m.records -> Records]
      /\ p.graph \in Graphs /\ p.tree \subseteq Texts \X Nodes
  BY <1>0, EngineFields
<1>3. Entered(m.records, id, r) \in [DOMAIN m.records \union {id} -> Records]
  BY <1>1, <1>2 DEF Entered
<1>4. n \in Engines
  BY <1>2, <1>3, IsEngine
<1>5. Remembered(m, id, text, k) = n
  <2>1. Remembered(m, id, text, k) = [p EXCEPT !.records = Entered(@, id, r)]
    BY DEF Remembered, p, r
  <2>2. [p EXCEPT !.records = Entered(@, id, r)] = n
    BY <1>0, <1>2
  <2> QED
    BY <2>1, <2>2
<1>6. p.text[id] = text
  BY <1>0 DEF Entered
<1>7. ASSUME NEW t, Holds(m, t)
      PROVE  Holds(n, Lost(t, id))
  <2>1. DOMAIN n.records = DOMAIN m.records \union {id}
    BY <1>3
  <2> QED
    BY <1>0, <1>4, <1>7, <2>1 DEF Holds, TermsAreStored
<1> QED
  BY <1>0, <1>4, <1>5, <1>6, <1>7 DEF r

LEMMA TermedIs ==
  ASSUME NEW m \in Engines, NEW id \in Nodes, NEW text \in Texts
  PROVE  LET n == Termed(m, id, text)
         IN /\ n \in Engines
            /\ n.rows = m.rows /\ n.text = m.text /\ n.records = m.records
            /\ \A t : /\ Holds(m, Lost(t, id)) /\ id \in m.rows /\ m.text[id] = text
                      /\ id \in DOMAIN m.records
                      => Holds(n, Entered(t, id, text))
<1> DEFINE n == [rows |-> m.rows, text |-> m.text, records |-> m.records, graph |-> m.graph,
                 tree |-> m.tree \union {<<text, id>>}]
<1>0. /\ m = [rows |-> m.rows, text |-> m.text, records |-> m.records, graph |-> m.graph, tree |-> m.tree]
      /\ m.rows \subseteq Nodes /\ m.text \in [m.rows -> Texts]
      /\ DOMAIN m.records \subseteq Nodes /\ m.records \in [DOMAIN m.records -> Records]
      /\ m.graph \in Graphs /\ m.tree \subseteq Texts \X Nodes
  BY EngineFields
<1>1. n \in Engines
  BY <1>0, IsEngine
<1>2. Termed(m, id, text) = n
  BY <1>0 DEF Termed
<1>3. ASSUME NEW t, Holds(m, Lost(t, id)), id \in m.rows, m.text[id] = text, id \in DOMAIN m.records
      PROVE  Holds(n, Entered(t, id, text))
  <2>1. TermsAreStored(n)
    BY <1>3 DEF Holds, TermsAreStored
  <2>2. \A i \in DOMAIN Entered(t, id, text) :
           i # id => i \in DOMAIN Lost(t, id) /\ Entered(t, id, text)[i] = Lost(t, id)[i]
    BY DEF Entered, Lost
  <2>3. Entered(t, id, text)[id] = text
    BY DEF Entered
  <2> QED
    BY <1>1, <1>3, <2>1, <2>2, <2>3 DEF Holds
<1>4. n.rows = m.rows /\ n.text = m.text /\ n.records = m.records
  OBVIOUS
<1> HIDE DEF n
<1> QED
  BY <1>1, <1>2, <1>3, <1>4

LEMMA RowDeletedIs ==
  ASSUME NEW m \in Engines, NEW id \in Nodes
  PROVE  LET n == RowDeleted(m, id)
         IN /\ n \in Engines
            /\ n = [rows |-> m.rows \ {id}, text |-> Lost(m.text, id),
                    records |-> m.records, graph |-> m.graph, tree |-> m.tree]
            /\ \A t : Holds(m, t) => Holds(n, Lost(t, id))
<1> DEFINE n == [rows |-> m.rows \ {id}, text |-> Lost(m.text, id),
                 records |-> m.records, graph |-> m.graph, tree |-> m.tree]
<1>0. /\ m = [rows |-> m.rows, text |-> m.text, records |-> m.records, graph |-> m.graph, tree |-> m.tree]
      /\ m.rows \subseteq Nodes /\ m.text \in [m.rows -> Texts]
      /\ DOMAIN m.records \subseteq Nodes /\ m.records \in [DOMAIN m.records -> Records]
      /\ m.graph \in Graphs /\ m.tree \subseteq Texts \X Nodes
  BY EngineFields
<1>1. Lost(m.text, id) \in [m.rows \ {id} -> Texts]
  BY <1>0 DEF Lost
<1>2. n \in Engines
  BY <1>0, <1>1, IsEngine
<1>3. RowDeleted(m, id) = n
  <2> DEFINE p == [m EXCEPT !.rows = @ \ {id}]
  <2>1. p = [rows |-> m.rows \ {id}, text |-> m.text, records |-> m.records, graph |-> m.graph,
             tree |-> m.tree]
    BY <1>0
  <2> HIDE DEF p
  <2>2. [p EXCEPT !.text = Lost(m.text, id)] = n
    BY <2>1
  <2>3. RowDeleted(m, id) = [p EXCEPT !.text = Lost(m.text, id)]
    BY DEF RowDeleted, p, Lost
  <2> QED
    BY <2>2, <2>3
<1>4. ASSUME NEW t, Holds(m, t)
      PROVE  Holds(n, Lost(t, id))
  <2>1. \A i \in DOMAIN Lost(t, id) : i \in DOMAIN t /\ i # id /\ Lost(t, id)[i] = t[i]
    BY DEF Lost
  <2>2. \A i \in m.rows : i # id => n.text[i] = m.text[i]
    BY <1>0 DEF Lost
  <2>3. TermsAreStored(n)
    BY <1>4 DEF Holds, TermsAreStored
  <2> QED
    BY <1>2, <1>4, <2>1, <2>2, <2>3 DEF Holds
<1> QED
  BY <1>2, <1>3, <1>4

LEMMA DroppedIs ==
  ASSUME NEW m \in Engines, NEW id \in Nodes
  PROVE  LET n == Dropped(m, id)
         IN /\ n \in Engines
            /\ n.records = Lost(m.records, id)
            /\ \A t : Holds(m, t) => Holds(n, Lost(t, id))
<1> DEFINE p == RowDeleted(m, id)
<1> DEFINE n == [rows |-> p.rows, text |-> p.text, records |-> Lost(p.records, id),
                 graph |-> Removed(p.graph, id), tree |-> {t \in p.tree : t[2] # id}]
<1>0. /\ p \in Engines
      /\ p.rows = m.rows \ {id}
      /\ p.records = m.records /\ p.graph = m.graph /\ p.tree = m.tree
      /\ \A t : Holds(m, t) => Holds(p, Lost(t, id))
  BY RowDeletedIs
<1> HIDE DEF p
<1>1. /\ p = [rows |-> p.rows, text |-> p.text, records |-> p.records, graph |-> p.graph, tree |-> p.tree]
      /\ p.rows \subseteq Nodes /\ p.text \in [p.rows -> Texts]
      /\ DOMAIN p.records \subseteq Nodes /\ p.records \in [DOMAIN p.records -> Records]
      /\ p.graph \in Graphs /\ p.tree \subseteq Texts \X Nodes
  BY <1>0, EngineFields
<1>2. Lost(p.records, id) \in [DOMAIN p.records \ {id} -> Records]
  BY <1>1 DEF Lost
<1>3. Removed(p.graph, id) \in Graphs
  BY <1>1, RemovedGraph
<1>4. n \in Engines
  BY <1>1, <1>2, <1>3, IsEngine
<1>5. Dropped(m, id) = n
  <2> DEFINE q == [p EXCEPT !.records = Lost(p.records, id)]
  <2> DEFINE o == [q EXCEPT !.graph = Removed(p.graph, id)]
  <2>1. q = [rows |-> p.rows, text |-> p.text, records |-> Lost(p.records, id), graph |-> p.graph,
             tree |-> p.tree]
    BY <1>1
  <2> HIDE DEF q
  <2>2. o = [rows |-> p.rows, text |-> p.text, records |-> Lost(p.records, id),
             graph |-> Removed(p.graph, id), tree |-> p.tree]
    BY <2>1
  <2> HIDE DEF o
  <2>3. [o EXCEPT !.tree = {t \in p.tree : t[2] # id}] = n
    BY <2>2
  <2>4. Dropped(m, id) = [o EXCEPT !.tree = {t \in p.tree : t[2] # id}]
    BY DEF Dropped, p, o, q, Lost
  <2> QED
    BY <2>3, <2>4
<1>6. ASSUME NEW t, Holds(m, t)
      PROVE  Holds(n, Lost(t, id))
  <2>1. Holds(p, Lost(t, id))
    BY <1>0, <1>6
  <2>2. \A i \in DOMAIN Lost(t, id) : i # id
    BY DEF Lost
  <2>3. DOMAIN n.records = DOMAIN p.records \ {id}
    BY DEF Lost
  <2>4. TermsAreStored(n)
    BY <2>1, <2>3 DEF Holds, TermsAreStored
  <2> QED
    BY <1>4, <2>1, <2>2, <2>3, <2>4 DEF Holds
<1> QED
  BY <1>0, <1>4, <1>5, <1>6

\* An engine with another graph, and with other records.
LEMMA Regraphed ==
  ASSUME NEW m \in Engines, NEW g \in Graphs
  PROVE  LET n == [m EXCEPT !.graph = g]
         IN /\ n \in Engines
            /\ n = [rows |-> m.rows, text |-> m.text, records |-> m.records, graph |-> g, tree |-> m.tree]
            /\ \A t : Holds(m, t) => Holds(n, t)
<1> DEFINE n == [rows |-> m.rows, text |-> m.text, records |-> m.records, graph |-> g, tree |-> m.tree]
<1>0. /\ m = [rows |-> m.rows, text |-> m.text, records |-> m.records, graph |-> m.graph, tree |-> m.tree]
      /\ m.rows \subseteq Nodes /\ m.text \in [m.rows -> Texts]
      /\ DOMAIN m.records \subseteq Nodes /\ m.records \in [DOMAIN m.records -> Records]
      /\ m.tree \subseteq Texts \X Nodes
  BY EngineFields
<1>1. n \in Engines
  BY <1>0, IsEngine
<1>2. [m EXCEPT !.graph = g] = n
  BY <1>0
<1>3. \A t : Holds(m, t) => Holds(n, t)
  BY <1>1 DEF Holds, TermsAreStored
<1> QED
  BY <1>1, <1>2, <1>3

LEMMA Rerecorded ==
  ASSUME NEW m \in Engines, NEW r \in [DOMAIN m.records -> Records]
  PROVE  LET n == [m EXCEPT !.records = r]
         IN /\ n \in Engines
            /\ n = [rows |-> m.rows, text |-> m.text, records |-> r, graph |-> m.graph, tree |-> m.tree]
            /\ \A t : Holds(m, t) => Holds(n, t)
<1> DEFINE n == [rows |-> m.rows, text |-> m.text, records |-> r, graph |-> m.graph, tree |-> m.tree]
<1>0. /\ m = [rows |-> m.rows, text |-> m.text, records |-> m.records, graph |-> m.graph, tree |-> m.tree]
      /\ m.rows \subseteq Nodes /\ m.text \in [m.rows -> Texts]
      /\ DOMAIN m.records \subseteq Nodes /\ m.graph \in Graphs
      /\ m.tree \subseteq Texts \X Nodes
  BY EngineFields
<1>1. n \in Engines
  BY <1>0, IsEngine
<1>2. [m EXCEPT !.records = r] = n
  BY <1>0
<1>3. \A t : Holds(m, t) => Holds(n, t)
  BY <1>1 DEF Holds, TermsAreStored
<1> QED
  BY <1>1, <1>2, <1>3

\* What the log may hold.
LogEntries ==
    {e \in [op : {"Remember", "Upsert", "Delete", "RemoveMemory", "InsertTerm", "Connect", "Disconnect"},
            id : Nodes, to : Nodes \union {0}, ids : SUBSET Nodes, text : Texts \union {""},
            kind : EdgeKinds \union {""}, n : Nat, flag : BOOLEAN, req : Nat] :
        /\ e.op \in {"Remember", "Upsert", "InsertTerm"} => e.text \in Texts
        /\ e.op \in {"Connect", "Disconnect"} => e.to \in Nodes
        /\ e.op = "Connect" => e.kind \in EdgeKinds}

\* Redoing an entry gives an engine.
LEMMA RedoneEngine ==
  ASSUME NEW m \in Engines, NEW e \in LogEntries
  PROVE  Redone(m, e) \in Engines
<1>1. /\ e.id \in Nodes /\ e.flag \in BOOLEAN
      /\ e.op \in {"Remember", "Upsert", "InsertTerm"} => e.text \in Texts
      /\ e.op \in {"Connect", "Disconnect"} => e.to \in Nodes
      /\ e.op = "Connect" => e.kind \in EdgeKinds
  BY DEF LogEntries
<1>2. CASE e.op = "Remember"
  <2>1. Redone(m, e) = Remembered(m, e.id, e.text, e.flag)
    BY <1>2 DEF Redone
  <2>2. [NewRecord EXCEPT !.keystone = e.flag] \in Records
    BY <1>1, NewRecords
  <2> QED
    BY <1>1, <1>2, <2>1, <2>2, RememberedIs
<1>3. CASE e.op = "Upsert"
  <2>1. Redone(m, e) = PutRow(m, e.id, e.text)
    BY <1>3 DEF Redone
  <2> QED
    BY <1>1, <1>3, <2>1, PutRowIs
<1>4. CASE e.op = "Delete"
  <2>1. Redone(m, e) = RowDeleted(m, e.id)
    BY <1>4 DEF Redone
  <2> QED
    BY <1>1, <2>1, RowDeletedIs
<1>5. CASE e.op = "RemoveMemory"
  <2>1. Redone(m, e) = Dropped(m, e.id)
    BY <1>5 DEF Redone
  <2> QED
    BY <1>1, <2>1, DroppedIs
<1>6. CASE e.op = "InsertTerm"
  <2>1. Redone(m, e) = Termed(m, e.id, e.text)
    BY <1>6 DEF Redone
  <2> QED
    BY <1>1, <1>6, <2>1, TermedIs
<1>7. CASE e.op = "Connect"
  <2> DEFINE g == Connected(m.graph, [from |-> e.id, to |-> e.to, kind |-> e.kind])
  <2>1. Redone(m, e) = [m EXCEPT !.graph = g]
    BY <1>7 DEF Redone
  <2>2. [from |-> e.id, to |-> e.to, kind |-> e.kind] \in Edges
    BY <1>1, <1>7 DEF Edges
  <2>3. g \in Graphs
    BY <2>2, EngineFields, ConnectedGraph
  <2> QED
    BY <2>1, <2>3, Regraphed
<1>8. CASE e.op = "Disconnect"
  <2> DEFINE g == Disconnected(m.graph, {e.id, e.to})
  <2>1. Redone(m, e) = [m EXCEPT !.graph = g]
    BY <1>8 DEF Redone
  <2>2. g \in Graphs
    BY EngineFields, CutGraph DEF Disconnected
  <2> QED
    BY <2>1, <2>2, Regraphed
<1>9. e.op \in {"Remember", "Upsert", "Delete", "RemoveMemory", "InsertTerm", "Connect", "Disconnect"}
  BY DEF LogEntries
<1> QED
  BY <1>2, <1>3, <1>4, <1>5, <1>6, <1>7, <1>8, <1>9

\* An entry of the log keeps what was told, but for the memory it is about,
\* and treats the records of two engines alike.
LEMMA RedoneHolds ==
  ASSUME NEW m \in Engines, NEW e \in LogEntries, NEW t, Holds(m, t)
  PROVE  /\ e.op \in {"Remember", "Upsert", "Delete", "RemoveMemory"} => Holds(Redone(m, e), Lost(t, e.id))
         /\ e.op \in {"Connect", "Disconnect"} => Holds(Redone(m, e), t)
         /\ e.op = "Remember" => /\ e.id \in Redone(m, e).rows /\ Redone(m, e).text[e.id] = e.text
                                 /\ e.id \in DOMAIN Redone(m, e).records
<1>1. /\ e.id \in Nodes /\ e.flag \in BOOLEAN
      /\ e.op \in {"Remember", "Upsert", "InsertTerm"} => e.text \in Texts
      /\ e.op \in {"Connect", "Disconnect"} => e.to \in Nodes
      /\ e.op = "Connect" => e.kind \in EdgeKinds
  BY DEF LogEntries
<1>2. CASE e.op = "Remember"
  <2>1. Redone(m, e) = Remembered(m, e.id, e.text, e.flag)
    BY <1>2 DEF Redone
  <2> DEFINE n == Remembered(m, e.id, e.text, e.flag)
  <2> DEFINE r == [NewRecord EXCEPT !.keystone = e.flag]
  <2>0. e.id \in Nodes /\ e.text \in Texts /\ [NewRecord EXCEPT !.keystone = e.flag] \in Records
    BY <1>1, <1>2, NewRecords
  <2>9. /\ e.id \in n.rows /\ n.text[e.id] = e.text /\ n.records = Entered(m.records, e.id, r)
        /\ \A u : Holds(m, u) => Holds(n, Lost(u, e.id))
    BY <2>0, RememberedIs
  <2> HIDE DEF n, r
  <2>2. Holds(Redone(m, e), Lost(t, e.id))
    BY <2>1, <2>9 DEF n
  <2>3. e.id \in Redone(m, e).rows /\ Redone(m, e).text[e.id] = e.text
    BY <2>1, <2>9 DEF n
  <2>4. e.id \in DOMAIN Redone(m, e).records
    BY <2>1, <2>9 DEF n, Entered
  <2> QED
    BY <1>2, <2>2, <2>3, <2>4
<1>3. CASE e.op = "Upsert"
  <2>1. Redone(m, e) = PutRow(m, e.id, e.text)
    BY <1>3 DEF Redone
  <2> QED
    BY <1>1, <1>3, <2>1, PutRowIs
<1>4. CASE e.op = "Delete"
  <2>1. Redone(m, e) = RowDeleted(m, e.id)
    BY <1>4 DEF Redone
  <2> QED
    BY <1>1, <1>4, <2>1, RowDeletedIs
<1>5. CASE e.op = "RemoveMemory"
  <2>1. Redone(m, e) = Dropped(m, e.id)
    BY <1>5 DEF Redone
  <2> QED
    BY <1>1, <1>5, <2>1, DroppedIs
<1>7. CASE e.op = "Connect"
  <2> DEFINE g == Connected(m.graph, [from |-> e.id, to |-> e.to, kind |-> e.kind])
  <2>1. Redone(m, e) = [m EXCEPT !.graph = g]
    BY <1>7 DEF Redone
  <2>2. [from |-> e.id, to |-> e.to, kind |-> e.kind] \in Edges
    BY <1>1, <1>7 DEF Edges
  <2>3. g \in Graphs
    BY <2>2, EngineFields, ConnectedGraph
  <2> QED
    BY <1>7, <2>1, <2>3, Regraphed
<1>8. CASE e.op = "Disconnect"
  <2> DEFINE g == Disconnected(m.graph, {e.id, e.to})
  <2>1. Redone(m, e) = [m EXCEPT !.graph = g]
    BY <1>8 DEF Redone
  <2>2. g \in Graphs
    BY EngineFields, CutGraph DEF Disconnected
  <2> QED
    BY <1>8, <2>1, <2>2, Regraphed
<1> QED
  BY <1>2, <1>3, <1>4, <1>5, <1>7, <1>8

\* Remembering: the record and the row, then the term.
LEMMA RememberingHolds ==
  ASSUME NEW m \in Engines, NEW e \in LogEntries, NEW f \in LogEntries, NEW t, Holds(m, t),
         e.op = "Remember", f.op = "InsertTerm", e.id = f.id, e.text = f.text
  PROVE  Holds(Redone(Redone(m, e), f), Entered(t, e.id, e.text))
<1> DEFINE n == Redone(m, e)
<1>1. /\ n \in Engines /\ Holds(n, Lost(t, e.id)) /\ e.id \in n.rows /\ n.text[e.id] = e.text
      /\ e.id \in DOMAIN n.records
  BY RedoneEngine, RedoneHolds
<1>2. e.id \in Nodes /\ e.text \in Texts
  BY DEF LogEntries
<1> HIDE DEF n
<1>3. Redone(n, f) = Termed(n, e.id, e.text)
  BY DEF Redone
<1>4. Holds(Termed(n, e.id, e.text), Entered(t, e.id, e.text))
  BY <1>1, <1>2, TermedIs
<1> QED
  BY <1>3, <1>4 DEF n

\* What an entry does to the records is the same for every engine: a new one
\* is entered, one is lost, or all stay.
LEMMA RedoneRecords ==
  ASSUME NEW e \in LogEntries
  PROVE  \/ \E r \in Records : /\ r.state = "Active"
                               /\ \A x \in Engines : Redone(x, e).records = Entered(x.records, e.id, r)
         \/ \A x \in Engines : Redone(x, e).records = Lost(x.records, e.id)
         \/ \A x \in Engines : Redone(x, e).records = x.records
<1>1. /\ e.id \in Nodes /\ e.flag \in BOOLEAN
      /\ e.op \in {"Remember", "Upsert", "InsertTerm"} => e.text \in Texts
      /\ e.op \in {"Connect", "Disconnect"} => e.to \in Nodes
      /\ e.op = "Connect" => e.kind \in EdgeKinds
      /\ e.op \in {"Remember", "Upsert", "Delete", "RemoveMemory", "InsertTerm", "Connect", "Disconnect"}
  BY DEF LogEntries
<1>2. CASE e.op = "Remember"
  <2> DEFINE r == [NewRecord EXCEPT !.keystone = e.flag]
  <2>1. \A x \in Engines : Redone(x, e) = Remembered(x, e.id, e.text, e.flag)
    BY <1>2 DEF Redone
  <2>2. \A x \in Engines : Redone(x, e).records = Entered(x.records, e.id, r)
    BY <1>1, <1>2, <2>1, NewRecords, RememberedIs
  <2>3. r.state = "Active"
    BY <1>1, NewRecords
  <2>4. r \in Records
    BY <1>1, NewRecords
  <2> HIDE DEF r
  <2> QED
    BY <2>2, <2>3, <2>4
<1>3. CASE e.op = "RemoveMemory"
  <2>1. \A x \in Engines : Redone(x, e) = Dropped(x, e.id)
    BY <1>3 DEF Redone
  <2>2. \A x \in Engines : Redone(x, e).records = Lost(x.records, e.id)
    BY <1>1, <2>1, DroppedIs
  <2> QED
    BY <2>2
<1>4. CASE e.op \notin {"Remember", "RemoveMemory"}
  <2>1. ASSUME NEW x \in Engines PROVE Redone(x, e).records = x.records
    <3>1. CASE e.op = "Upsert"
      <4>1. Redone(x, e) = PutRow(x, e.id, e.text)
        BY <3>1 DEF Redone
      <4> QED
        BY <1>1, <3>1, <4>1, PutRowIs
    <3>2. CASE e.op = "Delete"
      <4>1. Redone(x, e) = RowDeleted(x, e.id)
        BY <3>2 DEF Redone
      <4> QED
        BY <1>1, <4>1, RowDeletedIs
    <3>3. CASE e.op = "InsertTerm"
      <4>1. Redone(x, e) = Termed(x, e.id, e.text)
        BY <3>3 DEF Redone
      <4> QED
        BY <1>1, <3>3, <4>1, TermedIs
    <3>4. CASE e.op = "Connect"
      <4> DEFINE g == Connected(x.graph, [from |-> e.id, to |-> e.to, kind |-> e.kind])
      <4>1. Redone(x, e) = [x EXCEPT !.graph = g]
        BY <3>4 DEF Redone
      <4>2. [from |-> e.id, to |-> e.to, kind |-> e.kind] \in Edges
        BY <1>1, <3>4 DEF Edges
      <4>3. g \in Graphs
        BY <4>2, EngineFields, ConnectedGraph
      <4> HIDE DEF g
      <4> QED
        BY <4>1, <4>3, Regraphed
    <3>5. CASE e.op = "Disconnect"
      <4> DEFINE g == Disconnected(x.graph, {e.id, e.to})
      <4>1. Redone(x, e) = [x EXCEPT !.graph = g]
        BY <3>5 DEF Redone
      <4>2. g \in Graphs
        BY EngineFields, CutGraph DEF Disconnected
      <4> HIDE DEF g
      <4> QED
        BY <4>1, <4>2, Regraphed
    <3> QED
      BY <1>1, <1>4, <3>1, <3>2, <3>3, <3>4, <3>5
  <2> QED
    BY <2>1
<1> QED
  BY <1>2, <1>3, <1>4

\* Entries archive alike on two engines: what the files archive stays archived in
\* the engine.
LEMMA RedoneArchives ==
  ASSUME NEW d \in Engines, NEW m \in Engines, NEW e \in LogEntries, ArchivedToo(d, m)
  PROVE  ArchivedToo(Redone(d, e), Redone(m, e))
<1>1. CASE \E r \in Records : /\ r.state = "Active"
                             /\ \A x \in Engines : Redone(x, e).records = Entered(x.records, e.id, r)
  <2>1. PICK r \in Records : /\ r.state = "Active"
                             /\ \A x \in Engines : Redone(x, e).records = Entered(x.records, e.id, r)
    BY <1>1
  <2>2. Redone(d, e).records = Entered(d.records, e.id, r) /\ Redone(m, e).records = Entered(m.records, e.id, r)
    BY <2>1
  <2> SUFFICES ASSUME NEW id \in DOMAIN Redone(d, e).records \intersect DOMAIN Redone(m, e).records,
                      Redone(d, e).records[id].state = "Archived"
               PROVE  Redone(m, e).records[id].state = "Archived"
    BY DEF ArchivedToo
  <2>3. id # e.id /\ id \in DOMAIN d.records /\ d.records[id].state = "Archived"
    BY <2>1, <2>2 DEF Entered
  <2>4. id \in DOMAIN m.records /\ Redone(m, e).records[id] = m.records[id]
    BY <2>2, <2>3 DEF Entered
  <2> QED
    BY <2>3, <2>4 DEF ArchivedToo
<1>2. CASE \A x \in Engines : Redone(x, e).records = Lost(x.records, e.id)
  <2>1. Redone(d, e).records = Lost(d.records, e.id) /\ Redone(m, e).records = Lost(m.records, e.id)
    BY <1>2
  <2> QED
    BY <2>1 DEF ArchivedToo, Lost
<1>3. CASE \A x \in Engines : Redone(x, e).records = x.records
  BY <1>3 DEF ArchivedToo
<1> QED
  BY <1>1, <1>2, <1>3, RedoneRecords

\* No entry of the log archives anything.
LEMMA RedoneOutlives ==
  ASSUME NEW m \in Engines, NEW e \in LogEntries
  PROVE  ArchivedToo(Redone(m, e), m)
<1>1. CASE \E r \in Records : /\ r.state = "Active"
                             /\ \A x \in Engines : Redone(x, e).records = Entered(x.records, e.id, r)
  <2>1. PICK r \in Records : /\ r.state = "Active"
                             /\ Redone(m, e).records = Entered(m.records, e.id, r)
    BY <1>1
  <2> QED
    BY <2>1 DEF ArchivedToo, Entered
<1>2. CASE \A x \in Engines : Redone(x, e).records = Lost(x.records, e.id)
  <2>1. Redone(m, e).records = Lost(m.records, e.id)
    BY <1>2
  <2> QED
    BY <2>1 DEF ArchivedToo, Lost
<1>3. CASE \A x \in Engines : Redone(x, e).records = x.records
  BY <1>3 DEF ArchivedToo
<1> QED
  BY <1>1, <1>2, <1>3, RedoneRecords

-----------------------------------------------------------------------------
(* The log                                                                  *)

\* Redoing a log is a run of engines.
LEMMA RedoneRun ==
  ASSUME NEW m \in Engines, NEW l \in Seq(LogEntries)
  PROVE  \E h \in [0 .. Len(l) -> Engines] :
            /\ h[0] = m /\ FoldLeft(Redone, m, l) = h[Len(l)]
            /\ \A i \in 1 .. Len(l) : h[i] = Redone(h[i - 1], l[i])
<1> DEFINE n == Len(l)
<1> DEFINE Step == [p \in (1 .. n) \X Engines |-> Redone(p[2], l[p[1]])]
<1>1. n \in Nat /\ DOMAIN l = 1 .. n /\ \A i \in 1 .. n : l[i] \in LogEntries
  OBVIOUS
<1>2. \A i \in 1 .. n, t \in Engines : Step[<<i, t>>] = Redone(t, l[i]) /\ Step[<<i, t>>] \in Engines
  <2> SUFFICES ASSUME NEW i \in 1 .. n, NEW t \in Engines
               PROVE  Step[<<i, t>>] = Redone(t, l[i]) /\ Step[<<i, t>>] \in Engines
    OBVIOUS
  <2>1. <<i, t>> \in (1 .. n) \X Engines
    OBVIOUS
  <2>2. Step[<<i, t>>] = Redone(t, l[i])
    BY <2>1
  <2>3. Redone(t, l[i]) \in Engines
    BY <1>1, RedoneEngine
  <2> HIDE DEF Step
  <2> QED
    BY <2>2, <2>3
<1> HIDE DEF n, Step
<1>0. PICK f : LeftFold(f, n, Engines, m, Step)
  <2>1. n \in Nat
    BY <1>1
  <2>2. \A i \in 1 .. n, t \in Engines : Step[<<i, t>>] \in Engines
    BY <1>2
  <2> QED
    BY <2>1, <2>2, LeftExists
<1>3. /\ f \in [SUBSET (1 .. n) -> Engines]
      /\ f = [s \in SUBSET (1 .. n) |-> IF s = {} THEN m ELSE Step[<<Max(s), f[s \ {Max(s)}]>>]]
  BY <1>0 DEF LeftFold
<1> DEFINE F(g) == [s \in SUBSET (1 .. n) |-> IF s = {} THEN m ELSE Redone(g[s \ {Max(s)}], l[Max(s)])]
<1>4. f = F(f)
  <2>1. ASSUME NEW s \in SUBSET (1 .. n), s # {}
        PROVE  Step[<<Max(s), f[s \ {Max(s)}]>>] = Redone(f[s \ {Max(s)}], l[Max(s)])
    BY <1>1, <1>2, <1>3, <2>1, Extremes
  <2>2. f = [s \in SUBSET (1 .. n) |-> f[s]]
    BY <1>3
  <2>3. \A s \in SUBSET (1 .. n) : f[s] = IF s = {} THEN m ELSE Redone(f[s \ {Max(s)}], l[Max(s)])
    BY <1>3, <2>1
  <2> QED
    BY <2>2, <2>3
<1> DEFINE c == CHOOSE g : g = F(g)
<1>5. c = F(c)
  BY <1>4
<1>6. FoldLeft(Redone, m, l) = c[1 .. n]
  BY <1>1 DEF FoldLeft, MapThenFoldSet
<1>7. c[{}] = m
  <2>1. {} \in SUBSET (1 .. n)
    OBVIOUS
  <2> HIDE DEF c
  <2> QED
    BY <1>5, <2>1
<1>8. \A i \in 1 .. n : c[1 .. i] = Redone(c[1 .. (i - 1)], l[i])
  <2> SUFFICES ASSUME NEW i \in 1 .. n PROVE c[1 .. i] = Redone(c[1 .. (i - 1)], l[i])
    OBVIOUS
  <2>1. 1 .. i \in SUBSET (1 .. n) /\ 1 .. i # {} /\ Max(1 .. i) = i /\ (1 .. i) \ {i} = 1 .. (i - 1)
    BY <1>1, Intervals
  <2>2. \A s \in SUBSET (1 .. n) : s # {} => c[s] = Redone(c[s \ {Max(s)}], l[Max(s)])
    <3> HIDE DEF c
    <3> QED
      BY <1>5
  <2> HIDE DEF c
  <2> QED
    BY <2>1, <2>2
<1> HIDE DEF c, F
<1> DEFINE h == [i \in 0 .. n |-> c[1 .. i]]
<1>9. h[0] = m
  <2>1. 1 .. 0 = {} /\ 0 \in 0 .. n
    BY <1>1
  <2> QED
    BY <1>7, <2>1
<1>10. \A i \in 1 .. n : h[i] = Redone(h[i - 1], l[i])
  BY <1>1, <1>8
<1>11. h[n] = FoldLeft(Redone, m, l)
  BY <1>1, <1>6
<1>12. \A i \in 0 .. n : h[i] \in Engines
  <2> DEFINE P == {i \in 0 .. n : h[i] \in Engines}
  <2>1. 0 \in P
    BY <1>1, <1>9
  <2>2. \A i \in 1 .. n : i - 1 \in P => i \in P
    <3> SUFFICES ASSUME NEW i \in 1 .. n, h[i - 1] \in Engines PROVE i \in P
      OBVIOUS
    <3>1. h[i] = Redone(h[i - 1], l[i]) /\ l[i] \in LogEntries
      BY <1>1, <1>10
    <3> HIDE DEF h
    <3> QED
      BY <3>1, RedoneEngine
  <2>3. 0 .. n \subseteq P
    <3> HIDE DEF P
    <3> QED
      BY <1>1, <2>1, <2>2, IntervalInduction
  <2> QED
    BY <2>3
<1>13. h \in [0 .. n -> Engines]
  BY <1>12
<1> HIDE DEF h
<1> QED
  BY <1>9, <1>10, <1>11, <1>13 DEF n

\* Redoing nothing, and one entry more.
LEMMA RedoneEmpty ==
  ASSUME NEW m \in Engines
  PROVE  FoldLeft(Redone, m, <<>>) = m
<1> DEFINE l == <<>>
<1>1. l \in Seq(LogEntries) /\ Len(l) = 0
  OBVIOUS
<1> HIDE DEF l
<1>2. PICK h \in [0 .. Len(l) -> Engines] : h[0] = m /\ FoldLeft(Redone, m, l) = h[Len(l)]
  BY <1>1, RedoneRun
<1> QED
  BY <1>1, <1>2 DEF l

LEMMA RedoneAppend ==
  ASSUME NEW m \in Engines, NEW l \in Seq(LogEntries), NEW e \in LogEntries
  PROVE  /\ FoldLeft(Redone, m, l) \in Engines
         /\ FoldLeft(Redone, m, Append(l, e)) = Redone(FoldLeft(Redone, m, l), e)
<1> DEFINE n == Len(l)
<1> DEFINE k == Append(l, e)
<1>1. n \in Nat /\ k \in Seq(LogEntries) /\ Len(k) = n + 1 /\ k[n + 1] = e /\ \A i \in 1 .. n : k[i] = l[i]
  OBVIOUS
<1> HIDE DEF k
<1>2. PICK h \in [0 .. n -> Engines] :
            /\ h[0] = m /\ FoldLeft(Redone, m, l) = h[n]
            /\ \A i \in 1 .. n : h[i] = Redone(h[i - 1], l[i])
  BY RedoneRun
<1>3. PICK g \in [0 .. (n + 1) -> Engines] :
            /\ g[0] = m /\ FoldLeft(Redone, m, k) = g[n + 1]
            /\ \A i \in 1 .. (n + 1) : g[i] = Redone(g[i - 1], k[i])
  <2>1. PICK g \in [0 .. Len(k) -> Engines] :
            /\ g[0] = m /\ FoldLeft(Redone, m, k) = g[Len(k)]
            /\ \A i \in 1 .. Len(k) : g[i] = Redone(g[i - 1], k[i])
    BY <1>1, RedoneRun
  <2>2. Len(k) = n + 1
    BY <1>1
  <2> QED
    BY <2>1, <2>2
<1> HIDE DEF n
<1> DEFINE P == {i \in 0 .. n : g[i] = h[i]}
<1>4. 0 \in P
  BY <1>1, <1>2, <1>3
<1>5. \A i \in 1 .. n : i - 1 \in P => i \in P
  <2> SUFFICES ASSUME NEW i \in 1 .. n, g[i - 1] = h[i - 1] PROVE g[i] = h[i]
    BY <1>1
  <2>1. i \in 1 .. (n + 1) /\ k[i] = l[i]
    BY <1>1
  <2>2. g[i] = Redone(g[i - 1], k[i])
    BY <1>3, <2>1
  <2>3. h[i] = Redone(h[i - 1], l[i])
    BY <1>2
  <2> QED
    BY <2>1, <2>2, <2>3
<1>6. n \in P
  <2>1. 0 .. n \subseteq P
    <3> HIDE DEF P
    <3> QED
      BY <1>1, <1>4, <1>5, IntervalInduction
  <2> QED
    BY <1>1, <2>1
<1>7. n + 1 \in 1 .. (n + 1) /\ (n + 1) - 1 = n
  BY <1>1
<1>8. g[n + 1] = Redone(g[n], e)
  BY <1>1, <1>3, <1>7
<1> QED
  BY <1>1, <1>2, <1>3, <1>6, <1>8 DEF k

-----------------------------------------------------------------------------
(* Dreams: groups                                                           *)

\* A choice from a sequence keeps its elements and those of the set.
LEMMA ChosenIs ==
  ASSUME NEW A, NEW l \in Seq(A), NEW S
  PROVE  Chosen(l, S) \in Seq(A \intersect S)
<1> DEFINE n == Len(l)
<1> DEFINE T == Seq(A \intersect S)
<1> DEFINE Op(t, x) == IF x \in S THEN Append(t, x) ELSE t
<1> DEFINE Step == [p \in (1 .. n) \X T |-> Op(p[2], l[p[1]])]
<1>1. n \in Nat /\ DOMAIN l = 1 .. n /\ \A i \in 1 .. n : l[i] \in A
  OBVIOUS
<1>2. <<>> \in T
  OBVIOUS
<1>3. \A t \in T : \A x \in A : Op(t, x) \in T
  OBVIOUS
<1>4. \A i \in 1 .. n : \A t \in T : Step[<<i, t>>] = Op(t, l[i])
  <2> HIDE DEF Op, T
  <2> SUFFICES ASSUME NEW i \in 1 .. n, NEW t \in T PROVE Step[<<i, t>>] = Op(t, l[i])
    OBVIOUS
  <2>1. <<i, t>> \in (1 .. n) \X T
    OBVIOUS
  <2> QED
    BY <2>1
<1> HIDE DEF n, T, Op, Step
<1>5. \A i \in 1 .. n : \A t \in T : Step[<<i, t>>] \in T
  BY <1>1, <1>3, <1>4
<1>6. PICK f : LeftFold(f, n, T, <<>>, Step)
  BY <1>1, <1>2, <1>5, LeftExists
<1> DEFINE F(g) == [s \in SUBSET (1 .. n) |-> IF s = {} THEN <<>> ELSE Op(g[s \ {Max(s)}], l[Max(s)])]
<1>7. f = F(f)
  <2>1. \A s \in SUBSET (1 .. n) : s # {} => Max(s) \in 1 .. n /\ f[s \ {Max(s)}] \in T
    BY <1>1, <1>6, Extremes DEF LeftFold
  <2>2. f = [s \in SUBSET (1 .. n) |-> f[s]]
    BY <1>6 DEF LeftFold
  <2>3. \A s \in SUBSET (1 .. n) : f[s] = IF s = {} THEN <<>> ELSE Op(f[s \ {Max(s)}], l[Max(s)])
    BY <1>4, <1>6, <2>1 DEF LeftFold
  <2> QED
    BY <2>2, <2>3
<1> DEFINE c == CHOOSE g : g = F(g)
<1>8. c = F(c)
  BY <1>7
<1>9. Chosen(l, S) = c[1 .. n]
  BY <1>1 DEF Chosen, FoldLeft, MapThenFoldSet, Op
<1>10. \A s \in SUBSET (1 .. n) : c[s] = IF s = {} THEN <<>> ELSE Op(c[s \ {Max(s)}], l[Max(s)])
  <2> HIDE DEF c
  <2> QED
    BY <1>8
<1> HIDE DEF c, F
<1> DEFINE P == {i \in 0 .. n : c[1 .. i] \in T}
<1>11. 0 \in P
  <2>1. 1 .. 0 = {} /\ 0 \in 0 .. n
    BY <1>1
  <2> QED
    BY <1>2, <1>10, <2>1
<1>12. \A i \in 1 .. n : i - 1 \in P => i \in P
  <2> SUFFICES ASSUME NEW i \in 1 .. n, c[1 .. (i - 1)] \in T PROVE c[1 .. i] \in T
    BY <1>1
  <2>1. 1 .. i \in SUBSET (1 .. n) /\ 1 .. i # {} /\ Max(1 .. i) = i /\ (1 .. i) \ {i} = 1 .. (i - 1)
    BY <1>1, Intervals
  <2>2. c[1 .. i] = Op(c[1 .. (i - 1)], l[i])
    BY <1>10, <2>1
  <2> QED
    BY <1>1, <1>3, <2>2
<1>13. n \in P
  <2>1. 0 .. n \subseteq P
    <3> HIDE DEF P
    <3> QED
      BY <1>1, <1>11, <1>12, IntervalInduction
  <2> QED
    BY <1>1, <2>1
<1> QED
  BY <1>9, <1>13 DEF T

\* What Groups has gathered: groups of different memories of A.
Gathered(A) ==
    {acc \in [groups : Seq(Seq(A)), assigned : SUBSET A] :
        /\ \A i \in DOMAIN acc.groups : ToSet(acc.groups[i]) \subseteq acc.assigned
        /\ \A i, j \in DOMAIN acc.groups : i # j => ToSet(acc.groups[i]) \intersect ToSet(acc.groups[j]) = {}}

\* One memory more.
LEMMA Gathers ==
  ASSUME NEW A, NEW acc \in Gathered(A), NEW group \in Seq(A \ acc.assigned)
  PROVE  /\ [groups |-> Append(acc.groups, group), assigned |-> acc.assigned \union ToSet(group)] \in Gathered(A)
         /\ [groups |-> acc.groups, assigned |-> acc.assigned \union ToSet(group)] \in Gathered(A)
<1> DEFINE k == Len(acc.groups)
<1> DEFINE s == acc.assigned \union ToSet(group)
<1> DEFINE gs == Append(acc.groups, group)
<1>1. /\ acc.groups \in Seq(Seq(A)) /\ acc.assigned \in SUBSET A
      /\ \A i \in DOMAIN acc.groups : ToSet(acc.groups[i]) \subseteq acc.assigned
      /\ \A i, j \in DOMAIN acc.groups : i # j => ToSet(acc.groups[i]) \intersect ToSet(acc.groups[j]) = {}
  BY DEF Gathered
<1>2. ToSet(group) \subseteq A \ acc.assigned
  BY DEF ToSet
<1>3. group \in Seq(A)
  BY SeqMonotonic, A \ acc.assigned \subseteq A
<1>4. gs \in Seq(Seq(A)) /\ s \in SUBSET A
  BY <1>1, <1>2, <1>3
<1>5. /\ k \in Nat /\ DOMAIN acc.groups = 1 .. k /\ DOMAIN gs = 1 .. (k + 1)
      /\ gs[k + 1] = group /\ \A i \in 1 .. k : gs[i] = acc.groups[i]
  BY <1>1
<1> HIDE DEF gs, k
<1>6. \A i \in DOMAIN gs : i = k + 1 \/ i \in 1 .. k
  BY <1>5
<1>7. \A i \in 1 .. k : ToSet(gs[i]) \subseteq acc.assigned
  BY <1>1, <1>5
<1>8. \A i \in DOMAIN gs : ToSet(gs[i]) \subseteq s
  BY <1>5, <1>6, <1>7
<1>9. ASSUME NEW i \in DOMAIN gs, NEW j \in DOMAIN gs, i # j
      PROVE  ToSet(gs[i]) \intersect ToSet(gs[j]) = {}
  <2>1. CASE i \in 1 .. k /\ j \in 1 .. k
    BY <1>1, <1>5, <1>9, <2>1
  <2>2. CASE i = k + 1 /\ j \in 1 .. k
    BY <1>2, <1>5, <1>7, <2>2
  <2>3. CASE i \in 1 .. k /\ j = k + 1
    BY <1>2, <1>5, <1>7, <2>3
  <2> QED
    BY <1>6, <1>9, <2>1, <2>2, <2>3
<1>10. [groups |-> gs, assigned |-> s] \in Gathered(A)
  BY <1>4, <1>8, <1>9 DEF Gathered
<1>11. [groups |-> acc.groups, assigned |-> s] \in Gathered(A)
  BY <1>1, <1>4 DEF Gathered
<1> QED
  BY <1>10, <1>11 DEF gs

\* The groups of a dream are of memories of the order, and share none.
LEMMA GroupsAre ==
  ASSUME NEW m, NEW A, NEW order \in Seq(A)
  PROVE  /\ Groups(m, order) \in Seq(Seq(A))
         /\ \A i, j \in DOMAIN Groups(m, order) :
               i # j => ToSet(Groups(m, order)[i]) \intersect ToSet(Groups(m, order)[j]) = {}
<1> DEFINE n == Len(order)
<1> DEFINE T == Gathered(A)
<1> DEFINE base == [groups |-> <<>>, assigned |-> {}]
<1> DEFINE Free(acc, id) == {o \in m.rows \ acc.assigned : o = id \/ Similar(id, o)}
<1> DEFINE Op(acc, id) ==
             LET group == Chosen(order, {o \in m.rows \ acc.assigned : o = id \/ Similar(id, o)})
             IN IF id \in acc.assigned \/ id \notin m.rows THEN acc
                ELSE [groups |-> IF Len(group) >= 2 THEN Append(acc.groups, group) ELSE acc.groups,
                      assigned |-> acc.assigned \union ToSet(group)]
<1> DEFINE Step == [p \in (1 .. n) \X T |-> Op(p[2], order[p[1]])]
<1>1. n \in Nat /\ DOMAIN order = 1 .. n /\ \A i \in 1 .. n : order[i] \in A
  OBVIOUS
<1>2. base \in T
  <2>1. <<>> \in Seq(Seq(A)) /\ DOMAIN <<>> = {}
    OBVIOUS
  <2> QED
    BY <2>1 DEF Gathered
<1>3. ASSUME NEW acc \in T, NEW id
      PROVE  Op(acc, id) \in T
  <2> DEFINE group == Chosen(order, Free(acc, id))
  <2>1. group \in Seq(A \ acc.assigned)
    <3>1. group \in Seq(A \intersect Free(acc, id))
      BY ChosenIs
    <3>2. A \intersect Free(acc, id) \subseteq A \ acc.assigned
      OBVIOUS
    <3> QED
      BY <3>1, <3>2, SeqMonotonic
  <2>2. Op(acc, id) = IF id \in acc.assigned \/ id \notin m.rows THEN acc
                      ELSE [groups |-> IF Len(group) >= 2 THEN Append(acc.groups, group) ELSE acc.groups,
                            assigned |-> acc.assigned \union ToSet(group)]
    OBVIOUS
  <2> HIDE DEF Op, group
  <2>3. /\ [groups |-> Append(acc.groups, group), assigned |-> acc.assigned \union ToSet(group)] \in T
        /\ [groups |-> acc.groups, assigned |-> acc.assigned \union ToSet(group)] \in T
    BY <2>1, Gathers
  <2> HIDE DEF T
  <2> QED
    BY <2>2, <2>3
<1>4. \A i \in 1 .. n : \A t \in T : Step[<<i, t>>] = Op(t, order[i])
  <2> HIDE DEF Op, T
  <2> SUFFICES ASSUME NEW i \in 1 .. n, NEW t \in T PROVE Step[<<i, t>>] = Op(t, order[i])
    OBVIOUS
  <2>1. <<i, t>> \in (1 .. n) \X T
    OBVIOUS
  <2> QED
    BY <2>1
<1> HIDE DEF n, T, Op, Step, base
<1>5. \A i \in 1 .. n : \A t \in T : Step[<<i, t>>] \in T
  BY <1>1, <1>3, <1>4
<1>6. PICK f : LeftFold(f, n, T, base, Step)
  BY <1>1, <1>2, <1>5, LeftExists
<1> DEFINE F(g) == [s \in SUBSET (1 .. n) |-> IF s = {} THEN base ELSE Op(g[s \ {Max(s)}], order[Max(s)])]
<1>7. f = F(f)
  <2>1. \A s \in SUBSET (1 .. n) : s # {} => Max(s) \in 1 .. n /\ f[s \ {Max(s)}] \in T
    BY <1>1, <1>6, Extremes DEF LeftFold
  <2>2. f = [s \in SUBSET (1 .. n) |-> f[s]]
    BY <1>6 DEF LeftFold
  <2>3. \A s \in SUBSET (1 .. n) : f[s] = IF s = {} THEN base ELSE Op(f[s \ {Max(s)}], order[Max(s)])
    BY <1>4, <1>6, <2>1 DEF LeftFold
  <2> QED
    BY <2>2, <2>3
<1> DEFINE c == CHOOSE g : g = F(g)
<1>8. c = F(c)
  BY <1>7
<1>9. Groups(m, order) = c[1 .. n].groups
  BY <1>1 DEF Groups, FoldLeft, MapThenFoldSet, Op, base
<1>10. \A s \in SUBSET (1 .. n) : c[s] = IF s = {} THEN base ELSE Op(c[s \ {Max(s)}], order[Max(s)])
  <2> HIDE DEF c
  <2> QED
    BY <1>8
<1> HIDE DEF c, F
<1> DEFINE P == {i \in 0 .. n : c[1 .. i] \in T}
<1>11. 0 \in P
  <2>1. 1 .. 0 = {} /\ 0 \in 0 .. n
    BY <1>1
  <2> QED
    BY <1>2, <1>10, <2>1
<1>12. \A i \in 1 .. n : i - 1 \in P => i \in P
  <2> SUFFICES ASSUME NEW i \in 1 .. n, c[1 .. (i - 1)] \in T PROVE c[1 .. i] \in T
    BY <1>1
  <2>1. 1 .. i \in SUBSET (1 .. n) /\ 1 .. i # {} /\ Max(1 .. i) = i /\ (1 .. i) \ {i} = 1 .. (i - 1)
    BY <1>1, Intervals
  <2>2. c[1 .. i] = Op(c[1 .. (i - 1)], order[i])
    BY <1>10, <2>1
  <2> QED
    BY <1>1, <1>3, <2>2
<1>13. n \in P
  <2>1. 0 .. n \subseteq P
    <3> HIDE DEF P
    <3> QED
      BY <1>1, <1>11, <1>12, IntervalInduction
  <2> QED
    BY <1>1, <2>1
<1>14. c[1 .. n] \in Gathered(A)
  BY <1>13 DEF T
<1> QED
  BY <1>9, <1>14 DEF Gathered

-----------------------------------------------------------------------------
(* Dreams: absorption                                                       *)

\* An edge that is not one of a document's order leads from a to x.
Leads(g, a, x) == \E e \in g.edges : e.from = a /\ e.to = x /\ e.kind # "Structural"

\* Connecting the survivor breaks no path to another memory than the survivor.
LEMMA ConnectedLeads ==
  ASSUME NEW g \in Graphs, NEW s \in Nodes, NEW n \in Nodes, NEW kind \in EdgeKinds, kind # "Structural",
         NEW a, NEW x, x # s, Leads(g, a, x), n # s
  PROVE  Leads(Connected(g, [from |-> s, to |-> n, kind |-> kind]), a, x)
<1> DEFINE e == [from |-> s, to |-> n, kind |-> kind]
<1> DEFINE r == Connected(g, e)
<1>1. e \in Edges
  BY DEF Edges
<1>2. r.edges = {f \in g.edges : Pair(f) # Pair(e)} \union {e}
  BY <1>1, ConnectedGraph
<1>3. PICK f \in g.edges : f.from = a /\ f.to = x /\ f.kind # "Structural"
  BY DEF Leads
<1>4. CASE Pair(f) # Pair(e)
  BY <1>2, <1>3, <1>4 DEF Leads
<1>5. CASE Pair(f) = Pair(e)
  <2>1. {a, x} = {s, n}
    BY <1>3, <1>5 DEF Pair
  <2>2. x = n /\ a = s
    BY <2>1
  <2>3. e.from = a /\ e.to = x /\ e.kind # "Structural" /\ e \in r.edges
    BY <1>2, <2>2
  <2> QED
    BY <2>3 DEF Leads
<1> QED
  BY <1>4, <1>5

\* What a survivor takes over from the memory it absorbs.
LEMMA MovedIs ==
  ASSUME NEW m \in Engines, NEW survivor \in Nodes, NEW id \in Nodes
  PROVE  LET structural(g, n) == \E e \in g.edges : Pair(e) = {survivor, n} /\ e.kind = "Structural"
             moved == FoldSet(LAMBDA n, g : IF structural(g, n) THEN g
                                            ELSE Connected(g, [from |-> survivor, to |-> n, kind |-> "Semantic"]),
                              m.graph, Neighbors(m.graph, id) \ {survivor})
         IN /\ moved \in Graphs
            /\ \A a, x : x # survivor /\ Leads(m.graph, a, x) => Leads(moved, a, x)
<1> DEFINE S == Neighbors(m.graph, id) \ {survivor}
<1> DEFINE T == Graphs
<1> DEFINE base == m.graph
<1> DEFINE Op(n, g) == IF \E e \in g.edges : Pair(e) = {survivor, n} /\ e.kind = "Structural" THEN g
                       ELSE Connected(g, [from |-> survivor, to |-> n, kind |-> "Semantic"])
<1> DEFINE Step == [p \in S \X T |-> Op(p[1], p[2])]
<1>1. S \in SUBSET Nodes /\ IsFiniteSet(S)
  <2>1. m.graph \in Graphs
    BY EngineFields
  <2>2. S \in SUBSET Nodes
    BY <2>1, GraphFields DEF Neighbors
  <2> QED
    BY <2>2, FS_Subset, LevelsAssumption
<1>2. base \in T
  BY EngineFields
<1>3. ASSUME NEW n \in S, NEW g \in T
      PROVE  /\ Op(n, g) \in T
             /\ \A a, x : x # survivor /\ Leads(g, a, x) => Leads(Op(n, g), a, x)
  <2> DEFINE e == [from |-> survivor, to |-> n, kind |-> "Semantic"]
  <2>1. n \in Nodes /\ n # survivor
    BY <1>1
  <2>2. e \in Edges
    BY <2>1 DEF Edges, EdgeKinds
  <2>3. Connected(g, e) \in Graphs
    BY <2>2, ConnectedGraph
  <2>4. \A a, x : x # survivor /\ Leads(g, a, x) => Leads(Connected(g, e), a, x)
    <3>1. "Semantic" \in EdgeKinds
      BY DEF EdgeKinds
    <3> QED
      BY <2>1, <3>1, ConnectedLeads
  <2>5. CASE \E f \in g.edges : Pair(f) = {survivor, n} /\ f.kind = "Structural"
    <3>1. Op(n, g) = g
      BY <2>5
    <3> HIDE DEF Op
    <3> QED
      BY <3>1
  <2>6. CASE ~ \E f \in g.edges : Pair(f) = {survivor, n} /\ f.kind = "Structural"
    <3>1. Op(n, g) = Connected(g, e)
      BY <2>6
    <3> HIDE DEF Op, e
    <3> QED
      BY <2>3, <2>4, <3>1
  <2> QED
    BY <2>5, <2>6
<1>4. \A n \in S : \A g \in T : Step[<<n, g>>] = Op(n, g)
  <2> HIDE DEF Op, T, S
  <2> SUFFICES ASSUME NEW n \in S, NEW g \in T PROVE Step[<<n, g>>] = Op(n, g)
    OBVIOUS
  <2>1. <<n, g>> \in S \X T
    OBVIOUS
  <2> QED
    BY <2>1
<1> HIDE DEF S, T, Op, Step, base
<1>5. \A n \in S : \A g \in T : Step[<<n, g>>] \in T
  BY <1>3, <1>4
<1>6. PICK f : SetFold(f, S, T, base, Step)
  BY <1>1, <1>2, <1>5, AnyExists
<1> DEFINE F(h) == [s \in SUBSET S |-> IF s = {} THEN base
                                      ELSE Op(CHOOSE x \in s : TRUE, h[s \ {CHOOSE x \in s : TRUE}])]
<1>7. f = F(f)
  <2>1. \A s \in SUBSET S : s # {} => (CHOOSE x \in s : TRUE) \in S /\ f[s \ {CHOOSE x \in s : TRUE}] \in T
    BY <1>6 DEF SetFold
  <2>2. f = [s \in SUBSET S |-> f[s]]
    BY <1>6 DEF SetFold
  <2>3. \A s \in SUBSET S : f[s] = IF s = {} THEN base
                                   ELSE Op(CHOOSE x \in s : TRUE, f[s \ {CHOOSE x \in s : TRUE}])
    BY <1>4, <1>6, <2>1 DEF SetFold
  <2> QED
    BY <2>2, <2>3
<1> DEFINE c == CHOOSE h : h = F(h)
<1>8. c = F(c)
  BY <1>7
<1> DEFINE moved == FoldSet(LAMBDA n, g : IF \E e \in g.edges : Pair(e) = {survivor, n} /\ e.kind = "Structural"
                                           THEN g
                                           ELSE Connected(g, [from |-> survivor, to |-> n, kind |-> "Semantic"]),
                              m.graph, Neighbors(m.graph, id) \ {survivor})
<1>9. moved = c[S]
  BY DEF FoldSet, MapThenFoldSet, Op, base, S
<1>10. \A s \in SUBSET S : c[s] = IF s = {} THEN base
                                  ELSE Op(CHOOSE x \in s : TRUE, c[s \ {CHOOSE x \in s : TRUE}])
  <2> HIDE DEF c
  <2> QED
    BY <1>8
<1> HIDE DEF c, F, moved
<1> DEFINE P == {s \in SUBSET S : /\ c[s] \in T
                                  /\ \A a, x : x # survivor /\ Leads(base, a, x) => Leads(c[s], a, x)}
<1>11. {} \in P
  <2>1. c[{}] = base
    BY <1>10
  <2> QED
    BY <1>2, <2>1
<1>12. ASSUME NEW s \in SUBSET S, s # {}
       PROVE  \E x \in s : s \ {x} \in P => s \in P
  <2> DEFINE y == CHOOSE x \in s : TRUE
  <2>1. y \in s /\ y \in S
    BY <1>12
  <2>2. c[s] = Op(y, c[s \ {y}])
    BY <1>10, <1>12
  <2> HIDE DEF y
  <2>3. ASSUME s \ {y} \in P PROVE s \in P
    <3>1. c[s \ {y}] \in T /\ \A a, x : x # survivor /\ Leads(base, a, x) => Leads(c[s \ {y}], a, x)
      BY <2>3
    <3>2. Op(y, c[s \ {y}]) \in T
      BY <1>3, <2>1, <3>1
    <3>3. \A a, x : x # survivor /\ Leads(c[s \ {y}], a, x) => Leads(Op(y, c[s \ {y}]), a, x)
      BY <1>3, <2>1, <3>1
    <3> QED
      BY <2>2, <3>1, <3>2, <3>3
  <2> QED
    BY <2>1, <2>3
<1>13. S \in P
  <2>1. SUBSET S \subseteq P
    <3> HIDE DEF P
    <3> QED
      BY <1>1, <1>11, <1>12, FoldStays
  <2> QED
    BY <2>1
<1>14. c[S] \in T /\ \A a, x : x # survivor /\ Leads(base, a, x) => Leads(c[S], a, x)
  BY <1>13
<1>15. moved \in Graphs /\ \A a, x : x # survivor /\ Leads(m.graph, a, x) => Leads(moved, a, x)
  BY <1>9, <1>14 DEF T, base
<1> QED
  BY <1>15 DEF moved

\* What one absorption makes of an engine.
LEMMA AbsorbedIs ==
  ASSUME NEW m \in Engines, NEW survivor \in Nodes, NEW id \in Nodes, survivor # id
  PROVE  LET n == Absorbed(m, survivor, id)
         IN /\ n \in Engines
            /\ n.rows = m.rows /\ n.text = m.text /\ n.tree = m.tree
            /\ n.records = [x \in DOMAIN m.records |->
                               IF x = id THEN [m.records[x] EXCEPT !.state = "Archived"] ELSE m.records[x]]
            /\ Leads(n.graph, survivor, id)
            /\ \A a, x : a # id /\ x \notin {id, survivor} /\ Leads(m.graph, a, x) => Leads(n.graph, a, x)
<1> DEFINE moved == FoldSet(LAMBDA n, g : IF \E e \in g.edges : Pair(e) = {survivor, n} /\ e.kind = "Structural"
                                           THEN g
                                           ELSE Connected(g, [from |-> survivor, to |-> n, kind |-> "Semantic"]),
                              m.graph, Neighbors(m.graph, id) \ {survivor})
<1> DEFINE kept == Removed(moved, id)
<1> DEFINE e == [from |-> survivor, to |-> id, kind |-> "Causal"]
<1> DEFINE audit == Connected(kept, e)
<1> DEFINE r == [x \in DOMAIN m.records |->
                    IF x = id THEN [m.records[x] EXCEPT !.state = "Archived"] ELSE m.records[x]]
<1>1. moved \in Graphs /\ \A a, x : x # survivor /\ Leads(m.graph, a, x) => Leads(moved, a, x)
  BY MovedIs
<1>2. Absorbed(m, survivor, id) = [With(m, {id}, LAMBDA o : [o EXCEPT !.state = "Archived"]) EXCEPT !.graph = audit]
  BY DEF Absorbed
<1> HIDE DEF moved
<1>3. kept \in Graphs /\ kept.edges = {f \in moved.edges : id \notin Pair(f)}
  BY <1>1, RemovedGraph
<1> HIDE DEF kept
<1>4. e \in Edges
  BY DEF Edges, EdgeKinds
<1>5. audit \in Graphs /\ audit.edges = {f \in kept.edges : Pair(f) # Pair(e)} \union {e}
  BY <1>3, <1>4, ConnectedGraph
<1>6. Leads(audit, survivor, id)
  BY <1>5 DEF Leads
<1>7. ASSUME NEW a, NEW x, a # id, x \notin {id, survivor}, Leads(m.graph, a, x)
      PROVE  Leads(audit, a, x)
  <2>1. PICK f \in moved.edges : f.from = a /\ f.to = x /\ f.kind # "Structural"
    BY <1>1, <1>7 DEF Leads
  <2>2. id \notin Pair(f) /\ Pair(f) # Pair(e)
    BY <1>7, <2>1 DEF Pair
  <2> QED
    BY <1>3, <1>5, <2>1, <2>2 DEF Leads
<1> HIDE DEF audit
<1>8. m.records \in [DOMAIN m.records -> Records]
  BY EngineFields
<1>9. \A o \in Records : [o EXCEPT !.state = "Archived"] \in Records
  BY DEF Records
<1>10. r \in [DOMAIN m.records -> Records]
  BY <1>8, <1>9
<1> DEFINE w == With(m, {id}, LAMBDA o : [o EXCEPT !.state = "Archived"])
<1>11. w = [m EXCEPT !.records = r]
  BY DEF With
<1> HIDE DEF r
<1>12. w \in Engines /\ w.rows = m.rows /\ w.text = m.text /\ w.tree = m.tree /\ w.records = r
  <2>1. m = [rows |-> m.rows, text |-> m.text, records |-> m.records, graph |-> m.graph, tree |-> m.tree]
    BY EngineFields
  <2>2. w = [rows |-> m.rows, text |-> m.text, records |-> r, graph |-> m.graph, tree |-> m.tree]
    BY <1>11, <2>1
  <2>3. w \in Engines
    BY <1>10, <2>2, EngineFields, IsEngine
  <2> QED
    BY <2>2, <2>3
<1> HIDE DEF w
<1> DEFINE n == [w EXCEPT !.graph = audit]
<1>13. n \in Engines /\ n.rows = m.rows /\ n.text = m.text /\ n.tree = m.tree /\ n.records = r /\ n.graph = audit
  <2>1. w = [rows |-> w.rows, text |-> w.text, records |-> w.records, graph |-> w.graph, tree |-> w.tree]
    BY <1>12, EngineFields
  <2>2. n = [rows |-> w.rows, text |-> w.text, records |-> w.records, graph |-> audit, tree |-> w.tree]
    BY <2>1
  <2> HIDE DEF n
  <2>3. n \in Engines
    BY <1>5, <1>12, <2>2, EngineFields, IsEngine
  <2> QED
    BY <1>12, <2>2, <2>3
<1>14. Absorbed(m, survivor, id) = n
  BY <1>2 DEF w
<1> HIDE DEF n
<1> QED
  BY <1>6, <1>7, <1>13, <1>14 DEF r

\* A survivor absorbs the others of its group one after the other.
AbsorbRun(world, s, group, h) ==
    /\ h \in [0 .. Len(group) -> Engines] /\ h[0] = world
    /\ \A i \in 1 .. Len(group) : h[i] = IF group[i] = s THEN h[i - 1] ELSE Absorbed(h[i - 1], s, group[i])

\* It ends in what the fold of the model gives.
LEMMA AbsorbRuns ==
  ASSUME NEW world \in Engines, NEW s \in Nodes, NEW group \in Seq(Nodes)
  PROVE  \E h : /\ AbsorbRun(world, s, group, h)
                /\ FoldLeft(LAMBDA w, id : IF id = s THEN w ELSE Absorbed(w, s, id), world, group) = h[Len(group)]
<1> DEFINE n == Len(group)
<1> DEFINE T == Engines
<1> DEFINE Op(w, id) == IF id = s THEN w ELSE Absorbed(w, s, id)
<1> DEFINE Step == [p \in (1 .. n) \X T |-> Op(p[2], group[p[1]])]
<1>1. n \in Nat /\ DOMAIN group = 1 .. n /\ \A i \in 1 .. n : group[i] \in Nodes
  OBVIOUS
<1>3. \A t \in T : \A x \in Nodes : Op(t, x) \in T
  BY AbsorbedIs
<1>4. \A i \in 1 .. n : \A t \in T : Step[<<i, t>>] = Op(t, group[i])
  <2> HIDE DEF Op, T
  <2> SUFFICES ASSUME NEW i \in 1 .. n, NEW t \in T PROVE Step[<<i, t>>] = Op(t, group[i])
    OBVIOUS
  <2>1. <<i, t>> \in (1 .. n) \X T
    OBVIOUS
  <2> QED
    BY <2>1
<1>2. world \in T
  OBVIOUS
<1> HIDE DEF n, T, Op, Step
<1>5. \A i \in 1 .. n : \A t \in T : Step[<<i, t>>] \in T
  BY <1>1, <1>3, <1>4
<1>6. PICK f : LeftFold(f, n, T, world, Step)
  BY <1>1, <1>2, <1>5, LeftExists
<1> DEFINE F(g) == [v \in SUBSET (1 .. n) |-> IF v = {} THEN world ELSE Op(g[v \ {Max(v)}], group[Max(v)])]
<1>7. f = F(f)
  <2>1. \A v \in SUBSET (1 .. n) : v # {} => Max(v) \in 1 .. n /\ f[v \ {Max(v)}] \in T
    BY <1>1, <1>6, Extremes DEF LeftFold
  <2>2. f = [v \in SUBSET (1 .. n) |-> f[v]]
    BY <1>6 DEF LeftFold
  <2>3. \A v \in SUBSET (1 .. n) : f[v] = IF v = {} THEN world ELSE Op(f[v \ {Max(v)}], group[Max(v)])
    BY <1>4, <1>6, <2>1 DEF LeftFold
  <2> QED
    BY <2>2, <2>3
<1> DEFINE c == CHOOSE g : g = F(g)
<1>8. c = F(c)
  BY <1>7
<1> DEFINE made == FoldLeft(LAMBDA w, id : IF id = s THEN w ELSE Absorbed(w, s, id), world, group)
<1>9. made = c[1 .. n]
  BY <1>1 DEF FoldLeft, MapThenFoldSet, Op
<1>10. \A v \in SUBSET (1 .. n) : c[v] = IF v = {} THEN world ELSE Op(c[v \ {Max(v)}], group[Max(v)])
  <2> HIDE DEF c
  <2> QED
    BY <1>8
<1> HIDE DEF c, F, made
<1> DEFINE h == [i \in 0 .. n |-> c[1 .. i]]
<1>11. h[0] = world
  <2>1. 1 .. 0 = {} /\ 0 \in 0 .. n
    BY <1>1
  <2> QED
    BY <1>10, <2>1
<1>12. \A i \in 1 .. n : h[i] = Op(h[i - 1], group[i])
  <2> SUFFICES ASSUME NEW i \in 1 .. n PROVE c[1 .. i] = Op(c[1 .. (i - 1)], group[i])
    BY <1>1
  <2>1. 1 .. i \in SUBSET (1 .. n) /\ 1 .. i # {} /\ Max(1 .. i) = i /\ (1 .. i) \ {i} = 1 .. (i - 1)
    BY <1>1, Intervals
  <2> QED
    BY <1>10, <2>1
<1>13. h[n] = made
  BY <1>1, <1>9
<1>14. h = [i \in 0 .. n |-> h[i]]
  OBVIOUS
<1> HIDE DEF h
<1> DEFINE P == {i \in 0 .. n : h[i] \in T}
<1>15. 0 \in P
  BY <1>1, <1>2, <1>11
<1>16. \A i \in 1 .. n : i - 1 \in P => i \in P
  BY <1>1, <1>3, <1>12
<1>17. 0 .. n \subseteq P
  <2> HIDE DEF P
  <2> QED
    BY <1>1, <1>15, <1>16, IntervalInduction
<1>18. h \in [0 .. n -> T]
  BY <1>14, <1>17
<1>19. AbsorbRun(world, s, group, h)
  BY <1>11, <1>12, <1>18 DEF AbsorbRun, T, n, Op
<1> QED
  BY <1>13, <1>19 DEF made, n

-----------------------------------------------------------------------------
(* Dreams: worlds                                                           *)

\* What consolidation has made of w once it has been through the memories of
\* D: those that changed are archived, and one of F that has not changed
\* leads to each of them.
World(w, D, F, v) ==
    /\ v \in Engines /\ v.rows = w.rows /\ v.text = w.text /\ v.tree = w.tree
    /\ DOMAIN v.records = DOMAIN w.records
    /\ \A x \in DOMAIN w.records :
          v.records[x] # w.records[x] =>
             /\ x \in D /\ v.records[x].state = "Archived"
             /\ \E a \in F : Leads(v.graph, a, x) /\ v.records[a] = w.records[a]

\* More has been gone through.
LEMMA WorldGrows ==
  ASSUME NEW w, NEW D, NEW F, NEW D2, NEW F2, NEW v, World(w, D, F, v), D \subseteq D2, F \subseteq F2
  PROVE  World(w, D2, F2, v)
<1>1. \A x \in DOMAIN w.records :
          v.records[x] # w.records[x] =>
             /\ x \in D2 /\ v.records[x].state = "Archived"
             /\ \E a \in F2 : Leads(v.graph, a, x) /\ v.records[a] = w.records[a]
  BY DEF World
<1> QED
  BY <1>1 DEF World

\* The same while the survivor s of the memories of G absorbs.
Absorbing(w, D, G, s, v) ==
    /\ D \in SUBSET DOMAIN w.records /\ G \in SUBSET DOMAIN w.records /\ D \intersect G = {} /\ s \in G
    /\ World(w, D \union G, D \union {s}, v) /\ v.records[s] = w.records[s]

\* One of the group is absorbed, and then the group has been gone through.
LEMMA AbsorbsOne ==
  ASSUME NEW w \in Engines, NEW D, NEW G, NEW s, NEW id \in G, id # s, NEW v, Absorbing(w, D, G, s, v)
  PROVE  Absorbing(w, D, G, s, Absorbed(v, s, id))
<1> DEFINE n == Absorbed(v, s, id)
<1>0. /\ D \in SUBSET DOMAIN w.records /\ G \in SUBSET DOMAIN w.records /\ D \intersect G = {} /\ s \in G
      /\ World(w, D \union G, D \union {s}, v) /\ v.records[s] = w.records[s]
  BY DEF Absorbing
<1>1. /\ v \in Engines /\ v.rows = w.rows /\ v.text = w.text /\ v.tree = w.tree
      /\ DOMAIN v.records = DOMAIN w.records
      /\ s \in DOMAIN w.records /\ id \in DOMAIN w.records
  BY <1>0 DEF World
<1>2. s \in Nodes /\ id \in Nodes /\ s # id
  BY <1>1, EngineFields
<1>3. /\ n \in Engines /\ n.rows = v.rows /\ n.text = v.text /\ n.tree = v.tree
      /\ n.records = [x \in DOMAIN v.records |->
                         IF x = id THEN [v.records[x] EXCEPT !.state = "Archived"] ELSE v.records[x]]
      /\ Leads(n.graph, s, id)
      /\ \A a, x : a # id /\ x \notin {id, s} /\ Leads(v.graph, a, x) => Leads(n.graph, a, x)
  BY <1>1, <1>2, AbsorbedIs
<1> HIDE DEF n
<1>4. v.records[id] \in Records
  BY <1>1, EngineFields
<1>5. n.records[id].state = "Archived"
  <2>1. n.records[id] = [v.records[id] EXCEPT !.state = "Archived"]
    BY <1>1, <1>3
  <2> QED
    BY <1>4, <2>1 DEF Records
<1>6. \A x \in DOMAIN w.records : x # id => n.records[x] = v.records[x]
  BY <1>1, <1>3
<1>7. DOMAIN n.records = DOMAIN w.records /\ n.records[s] = w.records[s]
  BY <1>0, <1>1, <1>2, <1>3, <1>6
<1>8. ASSUME NEW x \in DOMAIN w.records, n.records[x] # w.records[x]
      PROVE  /\ x \in D \union G /\ n.records[x].state = "Archived"
             /\ \E a \in D \union {s} : Leads(n.graph, a, x) /\ n.records[a] = w.records[a]
  <2>1. CASE x = id
    BY <1>0, <1>3, <1>5, <1>7, <2>1
  <2>2. CASE x # id
    <3>1. v.records[x] # w.records[x] /\ n.records[x] = v.records[x]
      BY <1>6, <1>8, <2>2
    <3>2. PICK a \in D \union {s} : Leads(v.graph, a, x) /\ v.records[a] = w.records[a]
      BY <1>0, <3>1 DEF World
    <3>3. x \in D \union G /\ v.records[x].state = "Archived"
      BY <1>0, <3>1 DEF World
    <3>4. a # id /\ x # s /\ a \in DOMAIN w.records
      BY <1>0, <1>1, <3>1, <3>2
    <3>5. Leads(n.graph, a, x) /\ n.records[a] = w.records[a]
      BY <1>3, <1>6, <2>2, <3>2, <3>4
    <3> QED
      BY <3>1, <3>2, <3>3, <3>5
  <2> QED
    BY <2>1, <2>2
<1>9. World(w, D \union G, D \union {s}, n)
  BY <1>1, <1>3, <1>7, <1>8 DEF World
<1> QED
  BY <1>0, <1>7, <1>9 DEF n, Absorbing

\* A group is absorbed by the survivor that was chosen.
LEMMA GroupAbsorbed ==
  ASSUME NEW w \in Engines, NEW D \in SUBSET DOMAIN w.records, NEW group \in Seq(DOMAIN w.records),
         D \intersect ToSet(group) = {}, NEW s \in ToSet(group), NEW world, World(w, D, D, world)
  PROVE  World(w, D \union ToSet(group), D \union ToSet(group),
               FoldLeft(LAMBDA o, id : IF id = s THEN o ELSE Absorbed(o, s, id), world, group))
<1> DEFINE n == Len(group)
<1> DEFINE G == ToSet(group)
<1> DEFINE made == FoldLeft(LAMBDA o, id : IF id = s THEN o ELSE Absorbed(o, s, id), world, group)
<1>1. /\ n \in Nat /\ DOMAIN group = 1 .. n /\ G \in SUBSET DOMAIN w.records /\ s \in G
      /\ \A i \in 1 .. n : group[i] \in G
  BY DEF ToSet
<1>2. world \in Engines
  BY DEF World
<1>3. DOMAIN w.records \subseteq Nodes
  BY EngineFields
<1>4. s \in Nodes /\ group \in Seq(Nodes)
  BY <1>1, <1>3, SeqMonotonic
<1>5. PICK h : AbsorbRun(world, s, group, h) /\ made = h[n]
  BY <1>2, <1>4, AbsorbRuns
<1> HIDE DEF n, G, made
<1>6. /\ h[0] = world
      /\ \A i \in 1 .. n : h[i] = IF group[i] = s THEN h[i - 1] ELSE Absorbed(h[i - 1], s, group[i])
  BY <1>5 DEF AbsorbRun, n
<1> DEFINE P == {i \in 0 .. n : Absorbing(w, D, G, s, h[i])}
<1>7. 0 \in P
  <2>1. World(w, D \union G, D \union {s}, world)
    BY WorldGrows
  <2>2. world.records[s] = w.records[s]
    BY <1>1 DEF World, G
  <2>3. Absorbing(w, D, G, s, world)
    BY <1>1, <2>1, <2>2 DEF Absorbing, G
  <2> QED
    BY <1>1, <1>6, <2>3
<1>8. ASSUME NEW i \in 1 .. n, i - 1 \in P
      PROVE  i \in P
  <2>1. Absorbing(w, D, G, s, h[i - 1])
    BY <1>8
  <2>2. CASE group[i] = s
    <3>1. h[i] = h[i - 1]
      BY <1>6, <2>2
    <3> QED
      BY <2>1, <3>1
  <2>3. CASE group[i] # s
    <3>1. h[i] = Absorbed(h[i - 1], s, group[i])
      BY <1>6, <2>3
    <3>2. Absorbing(w, D, G, s, Absorbed(h[i - 1], s, group[i]))
      BY <1>1, <2>1, <2>3, AbsorbsOne
    <3> QED
      BY <3>1, <3>2
  <2> QED
    BY <2>2, <2>3
<1>9. n \in P
  <2>1. 0 .. n \subseteq P
    <3> HIDE DEF P
    <3> QED
      BY <1>1, <1>7, <1>8, IntervalInduction
  <2>2. n \in 0 .. n
    BY <1>1
  <2> HIDE DEF P
  <2> QED
    BY <2>1, <2>2
<1>10. World(w, D \union G, D \union {s}, made)
  BY <1>5, <1>9 DEF Absorbing
<1>11. World(w, D \union G, D \union G, made)
  BY <1>1, <1>10, WorldGrows
<1> QED
  BY <1>11 DEF made, G

\* The worlds that a group makes of one.
Merged(world, group) ==
    {FoldLeft(LAMBDA w, id : IF id = s THEN w ELSE Absorbed(w, s, id), world, group) : s \in Survivors(world, group)}

\* They are engines, and the worlds of what the group adds.
LEMMA MergedEngines ==
  ASSUME NEW world \in Engines, NEW group \in Seq(Nodes)
  PROVE  Merged(world, group) \subseteq Engines
<1> SUFFICES ASSUME NEW s \in Survivors(world, group)
             PROVE  FoldLeft(LAMBDA w, id : IF id = s THEN w ELSE Absorbed(w, s, id), world, group) \in Engines
  BY DEF Merged
<1> DEFINE made == FoldLeft(LAMBDA w, id : IF id = s THEN w ELSE Absorbed(w, s, id), world, group)
<1>1. s \in Nodes
  BY DEF Survivors, ToSet
<1>2. PICK h : AbsorbRun(world, s, group, h) /\ made = h[Len(group)]
  BY <1>1, AbsorbRuns
<1> HIDE DEF made
<1>3. Len(group) \in 0 .. Len(group)
  OBVIOUS
<1>4. made \in Engines
  BY <1>2, <1>3 DEF AbsorbRun
<1> QED
  BY <1>4 DEF made

LEMMA MergedWorlds ==
  ASSUME NEW w \in Engines, NEW D \in SUBSET DOMAIN w.records, NEW group \in Seq(DOMAIN w.records),
         D \intersect ToSet(group) = {}, NEW world, World(w, D, D, world), NEW v \in Merged(world, group)
  PROVE  World(w, D \union ToSet(group), D \union ToSet(group), v)
<1>1. PICK s \in Survivors(world, group) :
         v = FoldLeft(LAMBDA o, id : IF id = s THEN o ELSE Absorbed(o, s, id), world, group)
  BY DEF Merged
<1>2. s \in ToSet(group)
  BY DEF Survivors
<1>3. World(w, D \union ToSet(group), D \union ToSet(group),
            FoldLeft(LAMBDA o, id : IF id = s THEN o ELSE Absorbed(o, s, id), world, group))
  BY <1>2, GroupAbsorbed
<1> QED
  BY <1>1, <1>3

\* What consolidation archives, one that stays leads to.
LEMMA ConsolidatedAre ==
  ASSUME NEW w \in Engines, NEW A \in SUBSET DOMAIN w.records, NEW order \in Seq(A),
         NEW v \in Consolidated(w, order)
  PROVE  World(w, A, A, v)
<1> DEFINE gs == Groups(w, order)
<1> DEFINE n == Len(gs)
<1> DEFINE T == SUBSET Engines
<1> DEFINE base == {w}
<1> DEFINE Op(worlds, group) ==
             UNION {{FoldLeft(LAMBDA o, id : IF id = s THEN o ELSE Absorbed(o, s, id), world, group) :
                         s \in Survivors(world, group)} : world \in worlds}
<1> DEFINE Step == [p \in (1 .. n) \X T |-> Op(p[2], gs[p[1]])]
<1>0. A \subseteq Nodes /\ DOMAIN w.records \subseteq Nodes
  BY EngineFields
<1>1. gs \in Seq(Seq(A)) /\ \A i, j \in DOMAIN gs : i # j => ToSet(gs[i]) \intersect ToSet(gs[j]) = {}
  BY GroupsAre
<1> HIDE DEF gs
<1>2. n \in Nat /\ DOMAIN gs = 1 .. n /\ \A i \in 1 .. n : gs[i] \in Seq(A)
  BY <1>1
<1>20. \A i \in 1 .. n : gs[i] \in Seq(Nodes) /\ gs[i] \in Seq(DOMAIN w.records) /\ ToSet(gs[i]) \subseteq A
  <2> SUFFICES ASSUME NEW i \in 1 .. n
               PROVE  gs[i] \in Seq(Nodes) /\ gs[i] \in Seq(DOMAIN w.records) /\ ToSet(gs[i]) \subseteq A
    OBVIOUS
  <2>1. gs[i] \in Seq(A)
    BY <1>2
  <2>2. ToSet(gs[i]) \subseteq A
    BY <2>1 DEF ToSet
  <2> QED
    BY <1>0, <2>1, <2>2, SeqMonotonic
<1>3. \A worlds, group : Op(worlds, group) = UNION {Merged(world, group) : world \in worlds}
  BY DEF Merged
<1>30. base \in T
  OBVIOUS
<1>4. \A i \in 1 .. n : \A t \in T : Step[<<i, t>>] = Op(t, gs[i])
  <2> HIDE DEF Op, T
  <2> SUFFICES ASSUME NEW i \in 1 .. n, NEW t \in T PROVE Step[<<i, t>>] = Op(t, gs[i])
    OBVIOUS
  <2>1. <<i, t>> \in (1 .. n) \X T
    OBVIOUS
  <2> QED
    BY <2>1
<1>31. base = {w}
  OBVIOUS
<1> HIDE DEF n, Op, Step, base
<1>5. \A i \in 1 .. n : \A t \in T : Op(t, gs[i]) \in T
  BY <1>20, <1>3, MergedEngines
<1> HIDE DEF T
<1>50. \A i \in 1 .. n : \A t \in T : Step[<<i, t>>] \in T
  BY <1>4, <1>5
<1>6. PICK f : LeftFold(f, n, T, base, Step)
  BY <1>2, <1>30, <1>50, LeftExists
<1> DEFINE F(g) == [s \in SUBSET (1 .. n) |-> IF s = {} THEN base ELSE Op(g[s \ {Max(s)}], gs[Max(s)])]
<1>7. f = F(f)
  <2>1. \A s \in SUBSET (1 .. n) : s # {} => Max(s) \in 1 .. n /\ f[s \ {Max(s)}] \in T
    BY <1>2, <1>6, Extremes DEF LeftFold
  <2>2. f = [s \in SUBSET (1 .. n) |-> f[s]]
    BY <1>6 DEF LeftFold
  <2>3. \A s \in SUBSET (1 .. n) : f[s] = IF s = {} THEN base ELSE Op(f[s \ {Max(s)}], gs[Max(s)])
    BY <1>4, <1>6, <2>1 DEF LeftFold
  <2> QED
    BY <2>2, <2>3
<1> DEFINE c == CHOOSE g : g = F(g)
<1>8. c = F(c)
  BY <1>7
<1>9. Consolidated(w, order) = c[1 .. n]
  BY <1>2 DEF Consolidated, FoldLeft, MapThenFoldSet, Op, base, gs
<1>10. \A s \in SUBSET (1 .. n) : c[s] = IF s = {} THEN base ELSE Op(c[s \ {Max(s)}], gs[Max(s)])
  <2> HIDE DEF c
  <2> QED
    BY <1>8
<1> HIDE DEF c, F
<1> DEFINE D(i) == UNION {ToSet(gs[j]) : j \in 1 .. i}
<1> DEFINE P == {i \in 0 .. n : \A o \in c[1 .. i] : World(w, D(i), D(i), o)}
<1>11. 0 \in P
  <2>1. 1 .. 0 = {} /\ 0 \in 0 .. n
    BY <1>2
  <2>2. c[1 .. 0] = {w}
    BY <1>10, <1>31, <2>1
  <2>3. World(w, D(0), D(0), w)
    BY DEF World
  <2> QED
    BY <2>1, <2>2, <2>3
<1>12. ASSUME NEW i \in 1 .. n, i - 1 \in P
       PROVE  i \in P
  <2>1. 1 .. i \in SUBSET (1 .. n) /\ 1 .. i # {} /\ Max(1 .. i) = i /\ (1 .. i) \ {i} = 1 .. (i - 1)
    BY <1>2, Intervals
  <2>2. c[1 .. i] = UNION {Merged(world, gs[i]) : world \in c[1 .. (i - 1)]}
    <3>1. c[1 .. i] = Op(c[1 .. (i - 1)], gs[i])
      BY <1>10, <2>1
    <3>2. Op(c[1 .. (i - 1)], gs[i]) = UNION {Merged(world, gs[i]) : world \in c[1 .. (i - 1)]}
      BY <1>3
    <3> QED
      BY <3>1, <3>2
  <2>3. D(i) = D(i - 1) \union ToSet(gs[i])
    BY <2>1
  <2>4. D(i - 1) \in SUBSET DOMAIN w.records
    <3>1. \A j \in 1 .. (i - 1) : j \in 1 .. n
      BY <1>2
    <3>2. \A j \in 1 .. (i - 1) : ToSet(gs[j]) \subseteq A
      BY <1>20, <3>1
    <3> QED
      BY <3>2
  <2>5. D(i - 1) \intersect ToSet(gs[i]) = {}
    <3>0. \A j \in 1 .. (i - 1) : j \in DOMAIN gs /\ i \in DOMAIN gs /\ i # j
      BY <1>2
    <3>1. \A j \in 1 .. (i - 1) : ToSet(gs[j]) \intersect ToSet(gs[i]) = {}
      BY <1>1, <3>0
    <3> QED
      BY <3>1
  <2>6. ASSUME NEW o \in c[1 .. i]
        PROVE  World(w, D(i), D(i), o)
    <3>1. PICK world \in c[1 .. (i - 1)] : o \in Merged(world, gs[i])
      BY <2>2
    <3>2. World(w, D(i - 1), D(i - 1), world)
      BY <1>12
    <3> DEFINE E == D(i - 1)
    <3> DEFINE G == gs[i]
    <3>3. /\ E \in SUBSET DOMAIN w.records /\ G \in Seq(DOMAIN w.records) /\ E \intersect ToSet(G) = {}
          /\ World(w, E, E, world) /\ o \in Merged(world, G) /\ D(i) = E \union ToSet(G)
      BY <1>20, <2>3, <2>4, <2>5, <3>1, <3>2
    <3> HIDE DEF E, G, D
    <3>4. World(w, E \union ToSet(G), E \union ToSet(G), o)
      BY <3>3, MergedWorlds
    <3> QED
      BY <3>3, <3>4
  <2> HIDE DEF D
  <2> QED
    BY <2>6
<1>13. n \in P
  <2>1. 0 .. n \subseteq P
    <3> HIDE DEF P
    <3> QED
      BY <1>2, <1>11, <1>12, IntervalInduction
  <2>2. n \in 0 .. n
    BY <1>2
  <2> HIDE DEF P
  <2> QED
    BY <2>1, <2>2
<1>14. World(w, D(n), D(n), v)
  BY <1>9, <1>13
<1>15. D(n) \subseteq A
  BY <1>20
<1> HIDE DEF D
<1> QED
  BY <1>14, <1>15, WorldGrows

-----------------------------------------------------------------------------
(* Dreams: new edges                                                        *)

PairEdge(p) == CHOOSE e \in [from : p, to : p, kind : {"Semantic"}] : e.from # e.to

\* The edge of a pair of memories.
LEMMA PairEdgeIs ==
  ASSUME NEW p \in SUBSET Nodes, Cardinality(p) = 2, \E a, b \in p : a # b
  PROVE  PairEdge(p) \in Edges /\ Pair(PairEdge(p)) = p
<1> DEFINE e == PairEdge(p)
<1>1. PICK a \in p, b \in p : a # b
  OBVIOUS
<1>2. [from |-> a, to |-> b, kind |-> "Semantic"] \in [from : p, to : p, kind : {"Semantic"}]
      /\ [from |-> a, to |-> b, kind |-> "Semantic"].from # [from |-> a, to |-> b, kind |-> "Semantic"].to
  BY <1>1
<1>3. e \in [from : p, to : p, kind : {"Semantic"}] /\ e.from # e.to
  <2>1. \E f \in [from : p, to : p, kind : {"Semantic"}] : f.from # f.to
    BY <1>2
  <2> QED
    BY <2>1 DEF PairEdge
<1> HIDE DEF e
<1>4. e \in Edges
  BY <1>3 DEF Edges, EdgeKinds
<1>5. IsFiniteSet(p)
  BY FS_Subset, LevelsAssumption
<1>6. Pair(e) \subseteq p /\ e.from \in p /\ e.to \in p
  BY <1>3 DEF Pair
<1>7. IsFiniteSet({e.from}) /\ Cardinality({e.from}) = 1
  BY FS_Singleton
<1>8. Cardinality({e.from} \union {e.to}) = 2
  <2> DEFINE one == {e.from}
  <2>0. e.to \notin one
    BY <1>3
  <2>1. IsFiniteSet(one) /\ Cardinality(one) = 1
    BY FS_Singleton, Zenon
  <2> HIDE DEF one
  <2>2. Cardinality(one \union {e.to}) = 2
    <3>1. Cardinality(one \union {e.to}) = IF e.to \in one THEN Cardinality(one) ELSE Cardinality(one) + 1
      BY <2>1, FS_AddElement, Zenon
    <3> QED
      BY <2>0, <2>1, <3>1
  <2> QED
    BY <2>2 DEF one
<1>9. Pair(e) = {e.from} \union {e.to}
  BY DEF Pair
<1>10. Pair(e) = p
  BY <1>5, <1>6, <1>8, <1>9, FS_Subset
<1> QED
  BY <1>4, <1>10 DEF e

\* New edges break no path.
LEMMA DiscoveredIs ==
  ASSUME NEW m \in Engines
  PROVE  LET n == Discovered(m)
         IN /\ n \in Engines
            /\ n.rows = m.rows /\ n.text = m.text /\ n.tree = m.tree /\ n.records = m.records
            /\ \A a, x : Leads(m.graph, a, x) => Leads(n.graph, a, x)
<1> DEFINE S == {p \in SUBSET InState(m, "Active") :
                    /\ Cardinality(p) = 2 /\ p \subseteq m.rows
                    /\ \E a, b \in p : a # b /\ Related(a, b)
                    /\ ~ \E e \in m.graph.edges : Pair(e) = p}
<1> DEFINE T == Graphs
<1> DEFINE base == m.graph
<1> DEFINE Op(p, g) == Connected(g, PairEdge(p))
<1> DEFINE Step == [p \in S \X T |-> Op(p[1], p[2])]
<1>0. m.graph \in Graphs /\ DOMAIN m.records \subseteq Nodes
  BY EngineFields
<1>1. IsFiniteSet(S)
  <2>1. InState(m, "Active") \subseteq Nodes
    BY <1>0 DEF InState
  <2>2. IsFiniteSet(SUBSET Nodes)
    BY FS_SUBSET, LevelsAssumption
  <2>3. S \subseteq SUBSET Nodes
    BY <2>1
  <2> QED
    BY <2>2, <2>3, FS_Subset
<1>2. base \in T
  BY <1>0
<1>20. ASSUME NEW p \in S
       PROVE  PairEdge(p) \in Edges /\ Pair(PairEdge(p)) = p /\ \A e \in m.graph.edges : Pair(e) # p
  <2>1. p \in SUBSET Nodes
    BY <1>0 DEF InState
  <2>2. Cardinality(p) = 2 /\ \E a, b \in p : a # b
    OBVIOUS
  <2>3. \A e \in m.graph.edges : Pair(e) # p
    OBVIOUS
  <2> QED
    BY <2>1, <2>2, <2>3, PairEdgeIs
<1> HIDE DEF S
<1>3. ASSUME NEW p \in S, NEW g \in T
      PROVE  Op(p, g) \in T /\ (m.graph.edges \subseteq g.edges => m.graph.edges \subseteq Op(p, g).edges)
  <2>1. Op(p, g) \in Graphs /\ Op(p, g).edges = {f \in g.edges : Pair(f) # Pair(PairEdge(p))} \union {PairEdge(p)}
    BY <1>20, ConnectedGraph
  <2> HIDE DEF Op
  <2> QED
    BY <1>20, <2>1
<1>4. \A n \in S : \A g \in T : Step[<<n, g>>] = Op(n, g)
  <2> HIDE DEF Op, T
  <2> SUFFICES ASSUME NEW n \in S, NEW g \in T PROVE Step[<<n, g>>] = Op(n, g)
    OBVIOUS
  <2>1. <<n, g>> \in S \X T
    OBVIOUS
  <2> QED
    BY <2>1
<1> HIDE DEF T, Op, Step, base
<1>5. \A n \in S : \A g \in T : Step[<<n, g>>] \in T
  BY <1>3, <1>4
<1>6. PICK f : SetFold(f, S, T, base, Step)
  BY <1>1, <1>2, <1>5, AnyExists
<1> DEFINE F(h) == [s \in SUBSET S |-> IF s = {} THEN base
                                      ELSE Op(CHOOSE x \in s : TRUE, h[s \ {CHOOSE x \in s : TRUE}])]
<1>7. f = F(f)
  <2>1. \A s \in SUBSET S : s # {} => (CHOOSE x \in s : TRUE) \in S /\ f[s \ {CHOOSE x \in s : TRUE}] \in T
    BY <1>6 DEF SetFold
  <2>2. f = [s \in SUBSET S |-> f[s]]
    BY <1>6 DEF SetFold
  <2>3. \A s \in SUBSET S : f[s] = IF s = {} THEN base
                                   ELSE Op(CHOOSE x \in s : TRUE, f[s \ {CHOOSE x \in s : TRUE}])
    BY <1>4, <1>6, <2>1 DEF SetFold
  <2> QED
    BY <2>2, <2>3
<1> DEFINE c == CHOOSE h : h = F(h)
<1>8. c = F(c)
  BY <1>7
<1>9. Discovered(m) = [m EXCEPT !.graph = c[S]]
  BY DEF Discovered, FoldSet, MapThenFoldSet, Op, base, S, PairEdge
<1>10. \A s \in SUBSET S : c[s] = IF s = {} THEN base
                                  ELSE Op(CHOOSE x \in s : TRUE, c[s \ {CHOOSE x \in s : TRUE}])
  <2> HIDE DEF c
  <2> QED
    BY <1>8
<1> HIDE DEF c, F
<1> DEFINE P == {s \in SUBSET S : c[s] \in T /\ m.graph.edges \subseteq c[s].edges}
<1>11. {} \in P
  <2>1. c[{}] = base
    BY <1>10
  <2> QED
    BY <1>2, <2>1 DEF base
<1>12. ASSUME NEW s \in SUBSET S, s # {}
       PROVE  \E x \in s : s \ {x} \in P => s \in P
  <2> DEFINE y == CHOOSE x \in s : TRUE
  <2>1. y \in s /\ y \in S
    BY <1>12
  <2>2. c[s] = Op(y, c[s \ {y}])
    BY <1>10, <1>12
  <2> HIDE DEF y
  <2>3. ASSUME s \ {y} \in P PROVE s \in P
    BY <1>3, <2>1, <2>2, <2>3
  <2> QED
    BY <2>1, <2>3
<1>13. S \in P
  <2>1. SUBSET S \subseteq P
    <3> HIDE DEF P
    <3> QED
      BY <1>1, <1>11, <1>12, FoldStays
  <2> QED
    BY <2>1
<1> DEFINE g == c[S]
<1>14. g \in Graphs /\ m.graph.edges \subseteq g.edges
  BY <1>13 DEF T
<1> HIDE DEF g
<1>15. Discovered(m) = [m EXCEPT !.graph = g]
  BY <1>9 DEF g
<1> DEFINE n == Discovered(m)
<1>16. n \in Engines /\ n.rows = m.rows /\ n.text = m.text /\ n.tree = m.tree /\ n.records = m.records /\ n.graph = g
  <2>1. m = [rows |-> m.rows, text |-> m.text, records |-> m.records, graph |-> m.graph, tree |-> m.tree]
    BY EngineFields
  <2> HIDE DEF n
  <2>2. n = [rows |-> m.rows, text |-> m.text, records |-> m.records, graph |-> g, tree |-> m.tree]
    BY <1>15, <2>1 DEF n
  <2>3. n \in Engines
    BY <1>14, <2>2, EngineFields, IsEngine
  <2> QED
    BY <2>2, <2>3
<1>17. \A a, x : Leads(m.graph, a, x) => Leads(g, a, x)
  BY <1>14 DEF Leads
<1> HIDE DEF n
<1> QED
  BY <1>16, <1>17 DEF n

-----------------------------------------------------------------------------
(* Dreams: records                                                          *)

\* The same engine but for the records of the same memories, and the graph.
Like(m, n) ==
    /\ n \in Engines /\ n.rows = m.rows /\ n.text = m.text /\ n.tree = m.tree
    /\ DOMAIN n.records = DOMAIN m.records

\* Such an engine holds what the other did.
LEMMA LikeHolds ==
  ASSUME NEW m, NEW n, Like(m, n), NEW t, Holds(m, t)
  PROVE  Holds(n, t)
BY DEF Like, Holds, TermsAreStored

\* An engine whose records have been changed.
LEMMA WithRecords ==
  ASSUME NEW m \in Engines, NEW r \in [DOMAIN m.records -> Records], NEW n, n = [m EXCEPT !.records = r]
  PROVE  Like(m, n) /\ n.records = r /\ n.graph = m.graph
<1>2. n \in Engines /\ n = [rows |-> m.rows, text |-> m.text, records |-> r, graph |-> m.graph, tree |-> m.tree]
  BY Rerecorded
<1>4. DOMAIN n.records = DOMAIN m.records
  BY <1>2
<1> QED
  BY <1>2, <1>4 DEF Like

\* Decay and forgiving: an active memory stays active or is forgiven, the
\* others are left alone.
LEMMA DecayedIs ==
  ASSUME NEW m \in Engines, NEW lowered \in SUBSET Decaying(m)
  PROVE  LET w == Forgiven(Ticked(m, lowered))
         IN /\ Like(m, w)
            /\ \A x \in DOMAIN m.records :
                  /\ m.records[x].state = "Active" => w.records[x].state \in {"Active", "Forgiven"}
                  /\ m.records[x].state # "Active" => w.records[x] = m.records[x]
<1> DEFINE t == Ticked(m, lowered)
<1> DEFINE rt == [x \in DOMAIN m.records |->
                     IF x \in lowered
                     THEN [m.records[x] EXCEPT !.fid = IF @ > 0 THEN @ - 1 ELSE 0] ELSE m.records[x]]
<1> DEFINE low == {x \in InState(t, "Active") : ~AboveGate(t.records[x])}
<1> DEFINE w == Forgiven(t)
<1> DEFINE rw == [x \in DOMAIN t.records |->
                     IF x \in low THEN [t.records[x] EXCEPT !.state = "Forgiven"] ELSE t.records[x]]
<1>1. t = [m EXCEPT !.records = rt]
  BY DEF Ticked, With
<1>2. w = [t EXCEPT !.records = rw]
  BY DEF Forgiven, With
<1>3. m = [rows |-> m.rows, text |-> m.text, records |-> m.records, graph |-> m.graph, tree |-> m.tree]
      /\ m.records \in [DOMAIN m.records -> Records]
  BY EngineFields
<1> HIDE DEF t, w
<1>40. DOMAIN rt = DOMAIN m.records
  OBVIOUS
<1>41. \A x \in DOMAIN m.records : rt[x] = IF x \in lowered
                     THEN [m.records[x] EXCEPT !.fid = IF @ > 0 THEN @ - 1 ELSE 0] ELSE m.records[x]
  OBVIOUS
<1> HIDE DEF rt
<1>4. t = [rows |-> m.rows, text |-> m.text, records |-> rt, graph |-> m.graph, tree |-> m.tree]
  BY <1>1, <1>3
<1>5. t.records = rt /\ DOMAIN t.records = DOMAIN m.records
  BY <1>4, <1>40
<1>6. low = {x \in DOMAIN m.records : rt[x].state = "Active" /\ ~(rt[x].fid >= Gate)}
  BY <1>5 DEF InState, AboveGate
<1>7. DOMAIN rw = DOMAIN m.records
      /\ \A x \in DOMAIN m.records : rw[x] = IF x \in low THEN [rt[x] EXCEPT !.state = "Forgiven"] ELSE rt[x]
  BY <1>5
<1>70. rw = [x \in DOMAIN m.records |-> rw[x]]
  BY <1>5
<1> HIDE DEF low, rw
<1>8. \A x \in lowered : x \in DOMAIN m.records /\ m.records[x].state = "Active"
  BY DEF Decaying, InState
<1>9. ASSUME NEW x \in DOMAIN m.records
      PROVE  /\ rw[x] \in Records
             /\ m.records[x].state = "Active" => rw[x].state \in {"Active", "Forgiven"}
             /\ m.records[x].state # "Active" => rw[x] = m.records[x]
  <2> DEFINE o == m.records[x]
  <2>1. o \in Records
    BY <1>3
  <2>2. /\ o = [state |-> o.state, fid |-> o.fid, keystone |-> o.keystone, recalls |-> o.recalls, stale |-> o.stale]
        /\ o.state \in {"Active", "Forgiven", "Archived"} /\ o.fid \in 0 .. Top
        /\ o.keystone \in BOOLEAN /\ o.recalls \in 0 .. PromoteAfter /\ o.stale \in 0 .. 2
        /\ o.fid >= Gate - 1 /\ (o.state = "Active" => o.fid >= Gate)
    BY <2>1 DEF Records, AboveGate
  <2> HIDE DEF o
  <2>3. CASE x \in lowered
    <3> DEFINE p == [o EXCEPT !.fid = o.fid - 1]
    <3>1. o.state = "Active" /\ o.fid >= Gate /\ o.fid > 0
      BY <1>8, <2>2, <2>3, LevelsAssumption DEF o
    <3>2. rt[x] = p
      <4>1. rt[x] = [o EXCEPT !.fid = IF o.fid > 0 THEN o.fid - 1 ELSE 0]
        BY <1>41, <2>3 DEF o
      <4> QED
        BY <3>1, <4>1
    <3>3. p = [state |-> o.state, fid |-> o.fid - 1, keystone |-> o.keystone, recalls |-> o.recalls,
               stale |-> o.stale]
      BY <2>2
    <3> HIDE DEF p
    <3>4. p.fid >= Gate - 1 /\ p.fid \in 0 .. Top
      BY <2>2, <3>1, <3>3, LevelsAssumption
    <3>5. CASE p.fid >= Gate
      <4>1. rw[x] = p
        BY <1>6, <1>7, <3>2, <3>5
      <4>2. p \in Records
        BY <2>2, <3>3, <3>4, <3>5 DEF Records, AboveGate
      <4> QED
        BY <3>1, <3>3, <4>1, <4>2 DEF o
    <3>6. CASE ~(p.fid >= Gate)
      <4>1. rw[x] = [p EXCEPT !.state = "Forgiven"]
        BY <1>6, <1>7, <3>1, <3>2, <3>3, <3>6
      <4>2. rw[x] = [state |-> "Forgiven", fid |-> p.fid, keystone |-> o.keystone, recalls |-> o.recalls,
                     stale |-> o.stale]
        BY <3>3, <4>1
      <4>3. rw[x] \in Records
        BY <2>2, <3>4, <4>2 DEF Records, AboveGate
      <4> QED
        BY <3>1, <4>2, <4>3 DEF o
    <3> QED
      BY <3>5, <3>6
  <2>4. CASE x \notin lowered
    <3>1. rt[x] = o
      BY <1>41, <2>4 DEF o
    <3>2. x \notin low
      BY <1>6, <2>2, <3>1
    <3>3. rw[x] = o
      BY <1>7, <3>1, <3>2
    <3> QED
      BY <2>1, <3>3 DEF o
  <2> QED
    BY <2>3, <2>4
<1>10. rw \in [DOMAIN m.records -> Records]
  BY <1>70, <1>9
<1>11. w = [rows |-> m.rows, text |-> m.text, records |-> rw, graph |-> m.graph, tree |-> m.tree]
  BY <1>2, <1>4
<1>12. w \in Engines
  BY <1>10, <1>11, EngineFields, IsEngine
<1>13. Like(m, w) /\ w.records = rw
  BY <1>7, <1>11, <1>12 DEF Like
<1> QED
  BY <1>9, <1>13 DEF w, t

\* Likeness, and the fields of a record.
LEMMA LikeIsTransitive ==
  ASSUME NEW m, NEW n, NEW o, Like(m, n), Like(n, o)
  PROVE  Like(m, o)
BY DEF Like

LEMMA RecordFields ==
  ASSUME NEW r \in Records
  PROVE  /\ r = [state |-> r.state, fid |-> r.fid, keystone |-> r.keystone, recalls |-> r.recalls, stale |-> r.stale]
         /\ r.state \in {"Active", "Forgiven", "Archived"} /\ r.fid \in 0 .. Top
         /\ r.keystone \in BOOLEAN /\ r.recalls \in 0 .. PromoteAfter /\ r.stale \in 0 .. 2
         /\ r.fid >= Gate - 1 /\ (r.state = "Active" => r.fid >= Gate)
BY DEF Records, AboveGate

\* Review promotes: no state changes.
LEMMA ReviewedIs ==
  ASSUME NEW m \in Engines, NEW n \in Reviewed(m)
  PROVE  /\ Like(m, n) /\ n.graph = m.graph
         /\ \A x \in DOMAIN m.records : n.records[x].state = m.records[x].state
<1> DEFINE worthy == {x \in InState(m, "Active") \ Keystones(m) :
                         m.records[x].recalls >= PromoteAfter /\ m.records[x].fid = Top}
<1>0. m.records \in [DOMAIN m.records -> Records]
  BY EngineFields
<1>1. CASE worthy = {}
  <2>1. n = m
    BY <1>1 DEF Reviewed
  <2> QED
    BY <2>1 DEF Like
<1>2. CASE worthy # {}
  <2>1. PICK id \in worthy : n = With(m, {id}, LAMBDA r : [r EXCEPT !.keystone = TRUE])
    BY <1>2 DEF Reviewed
  <2> DEFINE r == [x \in DOMAIN m.records |->
                      IF x \in {id} THEN [m.records[x] EXCEPT !.keystone = TRUE] ELSE m.records[x]]
  <2>2. n = [m EXCEPT !.records = r]
    BY <2>1 DEF With
  <2>3. ASSUME NEW x \in DOMAIN m.records
        PROVE  r[x] \in Records /\ r[x].state = m.records[x].state
    <3> DEFINE o == m.records[x]
    <3>1. r[x] = o \/ r[x] = [o EXCEPT !.keystone = TRUE]
      OBVIOUS
    <3>2. o \in Records
      BY <1>0
    <3> HIDE DEF o
    <3>3. [o EXCEPT !.keystone = TRUE] \in Records /\ [o EXCEPT !.keystone = TRUE].state = o.state
      BY <3>2, RecordFields DEF Records, AboveGate
    <3> HIDE DEF r
    <3> QED
      BY <3>1, <3>2, <3>3 DEF o
  <2>4. r \in [DOMAIN m.records -> Records]
    BY <2>3
  <2> HIDE DEF r
  <2>5. Like(m, n) /\ n.records = r /\ n.graph = m.graph
    BY <2>2, <2>4, WithRecords
  <2> QED
    BY <2>3, <2>5
<1> QED
  BY <1>1, <1>2

\* Only what was forgiven is archived for its age.
LEMMA ArchivedIs ==
  ASSUME NEW m \in Engines, NEW candidates
  PROVE  LET n == Archived(m, candidates)
         IN /\ Like(m, n) /\ n.graph = m.graph
            /\ \A x \in DOMAIN m.records :
                  \/ n.records[x] = m.records[x]
                  \/ /\ x \in candidates /\ m.records[x].state = "Forgiven"
                     /\ n.records[x].state = "Archived"
<1> DEFINE n == Archived(m, candidates)
<1> DEFINE old == {x \in candidates \intersect InState(m, "Forgiven") : m.records[x].stale >= 1}
<1> DEFINE r == [x \in DOMAIN m.records |->
                    IF x \in old THEN [m.records[x] EXCEPT !.state = "Archived"] ELSE m.records[x]]
<1>0. m.records \in [DOMAIN m.records -> Records]
  BY EngineFields
<1>1. n = [m EXCEPT !.records = r]
  BY DEF Archived, With
<1>2. \A x \in old : x \in candidates /\ m.records[x].state = "Forgiven"
  BY DEF InState
<1> HIDE DEF n, old
<1>3. ASSUME NEW x \in DOMAIN m.records
      PROVE  /\ r[x] \in Records
             /\ \/ r[x] = m.records[x]
                \/ /\ x \in candidates /\ m.records[x].state = "Forgiven"
                   /\ r[x].state = "Archived"
  <2> DEFINE o == m.records[x]
  <2>1. r[x] = IF x \in old THEN [o EXCEPT !.state = "Archived"] ELSE o
    OBVIOUS
  <2>2. o \in Records
    BY <1>0
  <2> HIDE DEF o
  <2>3. [o EXCEPT !.state = "Archived"] \in Records /\ [o EXCEPT !.state = "Archived"].state = "Archived"
    BY <2>2, RecordFields DEF Records, AboveGate
  <2> HIDE DEF r
  <2> QED
    BY <1>2, <2>1, <2>2, <2>3 DEF o
<1>4. r \in [DOMAIN m.records -> Records]
  BY <1>3
<1> HIDE DEF r
<1>5. Like(m, n) /\ n.records = r /\ n.graph = m.graph
  BY <1>1, <1>4, WithRecords
<1> QED
  BY <1>3, <1>5 DEF n

\* Nothing is there to prune: forgiving stops the decay before zero.
LEMMA PrunedIs ==
  ASSUME NEW m \in Engines
  PROVE  Pruned(m) = m
<1> DEFINE dead == {x \in InState(m, "Archived") : m.records[x].fid = 0}
<1> DEFINE T == Graphs
<1> DEFINE base == m.graph
<1> DEFINE Op(id, g) == Removed(g, id)
<1>0. /\ m = [rows |-> m.rows, text |-> m.text, records |-> m.records, graph |-> m.graph, tree |-> m.tree]
      /\ m.records \in [DOMAIN m.records -> Records] /\ m.graph \in Graphs
  BY EngineFields
<1>1. \A x \in DOMAIN m.records : m.records[x].fid # 0
  <2> SUFFICES ASSUME NEW x \in DOMAIN m.records PROVE m.records[x].fid # 0
    OBVIOUS
  <2>1. m.records[x] \in Records
    BY <1>0
  <2> QED
    BY <2>1, RecordFields, LevelsAssumption
<1>2. dead = {}
  BY <1>1 DEF InState
<1> HIDE DEF dead
<1> DEFINE F(h) == [s \in SUBSET dead |-> IF s = {} THEN base
                                         ELSE Op(CHOOSE x \in s : TRUE, h[s \ {CHOOSE x \in s : TRUE}])]
<1> DEFINE c == CHOOSE h : h = F(h)
<1>3. \E f : f = F(f)
  <2> DEFINE f == [s \in SUBSET dead |-> base]
  <2>1. f = F(f)
    BY <1>2
  <2> QED
    BY <2>1
<1>4. c = F(c)
  BY <1>3
<1>5. Pruned(m) = [m EXCEPT !.records = [id \in DOMAIN @ \ dead |-> @[id]], !.graph = c[dead]]
  BY DEF Pruned, FoldSet, MapThenFoldSet, dead, Op, base
<1>6. c[dead] = m.graph
  <2> HIDE DEF c
  <2> QED
    BY <1>2, <1>4
<1> HIDE DEF c, F
<1> DEFINE r == [id \in DOMAIN m.records \ dead |-> m.records[id]]
<1>7. r = m.records
  BY <1>0, <1>2
<1> DEFINE p == [m EXCEPT !.records = r]
<1>8. Pruned(m) = [p EXCEPT !.graph = m.graph]
  BY <1>5, <1>6
<1> HIDE DEF r
<1>9. p = m
  BY <1>0, <1>7
<1> HIDE DEF p
<1>10. [p EXCEPT !.graph = m.graph] = m
  BY <1>0, <1>9
<1> QED
  BY <1>8, <1>10

\* The orders of a finite set are sequences over it.
LEMMA OrdersAre ==
  ASSUME NEW S, IsFiniteSet(S), NEW order \in SetToSeqs(S)
  PROVE  order \in Seq(S)
<1>1. Cardinality(S) \in Nat
  BY FS_CardinalityType
<1>2. order \in [1 .. Cardinality(S) -> S]
  BY DEF SetToSeqs
<1> QED
  BY <1>1, <1>2

-----------------------------------------------------------------------------
(* Dreams                                                                   *)

\* What may have become of the records of m in n: what was archived stays so,
\* and what was active and is archived has an active one that leads to it.
Survived(m, n) ==
    /\ Like(m, n)
    /\ \A x \in DOMAIN m.records :
          /\ m.records[x].state = "Archived" => n.records[x].state = "Archived"
          /\ m.records[x].state = "Active" /\ n.records[x].state = "Archived" =>
                \E a \in DOMAIN m.records : Leads(n.graph, a, x) /\ n.records[a].state = "Active"

\* A dream, from the stages it goes through.
LEMMA StagesAre ==
  ASSUME NEW m \in Engines, NEW w, NEW c, NEW d, NEW r, NEW n,
         Like(m, w),
         \A x \in DOMAIN m.records :
            /\ m.records[x].state = "Active" => w.records[x].state \in {"Active", "Forgiven"}
            /\ m.records[x].state # "Active" => w.records[x] = m.records[x],
         World(w, InState(w, "Active"), InState(w, "Active"), c),
         Like(c, d), d.records = c.records, \A a, x : Leads(c.graph, a, x) => Leads(d.graph, a, x),
         Like(d, r), r.graph = d.graph, \A x \in DOMAIN d.records : r.records[x].state = d.records[x].state,
         Like(r, n), n.graph = r.graph,
         \A x \in DOMAIN r.records :
            \/ n.records[x] = r.records[x]
            \/ /\ x \in InState(m, "Forgiven") /\ r.records[x].state = "Forgiven"
               /\ n.records[x].state = "Archived"
  PROVE  Survived(m, n)
<1> DEFINE S == DOMAIN m.records
<1>1. S = DOMAIN w.records /\ S = DOMAIN c.records /\ S = DOMAIN d.records /\ S = DOMAIN r.records
  BY DEF Like, World
<1>2. Like(m, c)
  BY DEF Like, World
<1>3. Like(m, n)
  BY <1>2, LikeIsTransitive
<1>4. ASSUME NEW x \in S, m.records[x].state = "Archived" PROVE n.records[x].state = "Archived"
  <2>1. w.records[x].state = "Archived" /\ x \notin InState(w, "Active")
    BY <1>4 DEF InState
  <2>2. c.records[x] = w.records[x]
    BY <1>1, <2>1 DEF World
  <2>3. r.records[x].state = "Archived"
    BY <1>1, <2>1, <2>2
  <2> QED
    BY <1>1, <2>3
<1>5. ASSUME NEW x \in S, m.records[x].state = "Active", n.records[x].state = "Archived"
      PROVE  \E a \in S : Leads(n.graph, a, x) /\ n.records[a].state = "Active"
  <2>1. x \notin InState(m, "Forgiven")
    BY <1>5 DEF InState
  <2>2. n.records[x] = r.records[x]
    BY <1>1, <2>1
  <2>3. c.records[x].state = "Archived"
    BY <1>1, <1>5, <2>2
  <2>4. c.records[x] # w.records[x]
    BY <1>5, <2>3
  <2>5. PICK a \in InState(w, "Active") : Leads(c.graph, a, x) /\ c.records[a] = w.records[a]
    BY <1>1, <2>4 DEF World
  <2>6. a \in S /\ w.records[a].state = "Active"
    BY <1>1, <2>5 DEF InState
  <2>7. r.records[a].state = "Active"
    BY <1>1, <2>5, <2>6
  <2>8. n.records[a].state = "Active"
    BY <1>1, <2>6, <2>7
  <2>9. Leads(n.graph, a, x)
    BY <2>5
  <2> QED
    BY <2>6, <2>8, <2>9
<1> QED
  BY <1>3, <1>4, <1>5 DEF Survived

\* Every dream is one of those.
LEMMA DreamsAre ==
  ASSUME NEW m \in Engines, NEW intensity, NEW n \in Dreams(m, intensity)
  PROVE  Survived(m, n)
<1> DEFINE decayed == {Forgiven(Ticked(m, lowered)) : lowered \in Lowered(m, intensity)}
<1> DEFINE merged == UNION {UNION {Consolidated(w, order) : order \in SetToSeqs(InState(w, "Active"))} :
                               w \in decayed}
<1> DEFINE woven == IF Tier(intensity) = "Minimal" THEN merged ELSE {Discovered(c) : c \in merged}
<1> DEFINE reviewed == IF Tier(intensity) = "Full" THEN UNION {Reviewed(d) : d \in woven} ELSE woven
<1>1. PICK r \in reviewed : n = Pruned(Archived(r, ForgivenBefore(m, r)))
  BY DEF Dreams
<1>2. PICK d \in woven : r = d \/ r \in Reviewed(d)
  BY <1>1
<1>3. PICK c \in merged : d = c \/ d = Discovered(c)
  BY <1>2
<1>4. PICK w \in decayed : \E order \in SetToSeqs(InState(w, "Active")) : c \in Consolidated(w, order)
  BY <1>3
<1>5. PICK order \in SetToSeqs(InState(w, "Active")) : c \in Consolidated(w, order)
  BY <1>4
<1>6. PICK lowered \in SUBSET Decaying(m) : w = Forgiven(Ticked(m, lowered))
  BY <1>4 DEF Lowered
<1> HIDE DEF decayed, merged, woven, reviewed
<1>7. /\ Like(m, w)
      /\ \A x \in DOMAIN m.records :
            /\ m.records[x].state = "Active" => w.records[x].state \in {"Active", "Forgiven"}
            /\ m.records[x].state # "Active" => w.records[x] = m.records[x]
  BY <1>6, DecayedIs
<1> DEFINE A == InState(w, "Active")
<1>8. w \in Engines
  BY <1>7 DEF Like
<1>9. A \in SUBSET DOMAIN w.records /\ IsFiniteSet(A)
  <2>1. DOMAIN w.records \subseteq Nodes
    BY <1>8, EngineFields
  <2>2. A \subseteq DOMAIN w.records
    BY DEF InState
  <2> QED
    BY <2>1, <2>2, FS_Subset, LevelsAssumption
<1>10. order \in Seq(A)
  <2> HIDE DEF A
  <2>1. order \in SetToSeqs(A)
    BY <1>5 DEF A
  <2> QED
    BY <1>9, <2>1, OrdersAre
<1>11. World(w, A, A, c)
  BY <1>5, <1>8, <1>9, <1>10, ConsolidatedAre
<1>12. c \in Engines
  BY <1>11 DEF World
<1>13. /\ Like(c, d) /\ d.records = c.records
       /\ \A a, x : Leads(c.graph, a, x) => Leads(d.graph, a, x)
  <2>1. CASE d = c
    BY <1>12, <2>1 DEF Like
  <2>2. CASE d = Discovered(c)
    BY <1>12, <2>2, DiscoveredIs DEF Like
  <2> QED
    BY <1>3, <2>1, <2>2
<1>14. d \in Engines
  BY <1>13 DEF Like
<1>15. Like(d, r) /\ r.graph = d.graph /\ \A x \in DOMAIN d.records : r.records[x].state = d.records[x].state
  <2>1. CASE r = d
    BY <1>14, <2>1 DEF Like
  <2>2. CASE r \in Reviewed(d)
    BY <1>14, <2>2, ReviewedIs
  <2> QED
    BY <1>2, <2>1, <2>2
<1>16. r \in Engines
  BY <1>15 DEF Like
<1> DEFINE o == Archived(r, InState(m, "Forgiven"))
<1>17. /\ Like(r, o) /\ o.graph = r.graph
       /\ \A x \in DOMAIN r.records :
             \/ o.records[x] = r.records[x]
             \/ /\ x \in InState(m, "Forgiven") /\ r.records[x].state = "Forgiven"
                /\ o.records[x].state = "Archived"
  BY <1>16, ArchivedIs
<1> HIDE DEF o
<1>18. o \in Engines
  BY <1>17 DEF Like
<1>19. n = o
  BY <1>1, <1>18, PrunedIs DEF ForgivenBefore, o
<1> HIDE DEF A
<1>20. World(w, InState(w, "Active"), InState(w, "Active"), c)
  BY <1>11 DEF A
<1> QED
  BY <1>7, <1>13, <1>15, <1>17, <1>19, <1>20, StagesAre

\* The same engine, but for what a record says beside its state.
Kept(m, n) ==
    /\ Like(m, n) /\ n.graph = m.graph
    /\ \A x \in DOMAIN m.records : n.records[x].state = m.records[x].state

\* What is kept stays kept, and a change of records that leaves the states alone
\* keeps.
LEMMA KeptIsTransitive ==
  ASSUME NEW m, NEW n, NEW o, Kept(m, n), Kept(n, o)
  PROVE  Kept(m, o)
BY DEF Kept, Like

LEMMA KeepsItself ==
  ASSUME NEW m \in Engines
  PROVE  Kept(m, m)
BY DEF Kept, Like

LEMMA KeptRecords ==
  ASSUME NEW m \in Engines, NEW r, r = [x \in DOMAIN m.records |-> r[x]],
         \A x \in DOMAIN m.records : r[x] \in Records /\ r[x].state = m.records[x].state,
         NEW n, n = [m EXCEPT !.records = r]
  PROVE  Kept(m, n)
<1>1. r \in [DOMAIN m.records -> Records]
  OBVIOUS
<1>2. Like(m, n) /\ n.records = r /\ n.graph = m.graph
  BY <1>1, WithRecords
<1> QED
  BY <1>2 DEF Kept

\* A keystone, a recall and an hour without one change no state.
LEMMA KeystoneKeeps ==
  ASSUME NEW m \in Engines, NEW ids
  PROVE  Kept(m, With(m, ids, LAMBDA r : [r EXCEPT !.keystone = ~@]))
<1> DEFINE n == With(m, ids, LAMBDA r : [r EXCEPT !.keystone = ~@])
<1> DEFINE r == [x \in DOMAIN m.records |->
                    IF x \in ids THEN [m.records[x] EXCEPT !.keystone = ~@] ELSE m.records[x]]
<1>0. m.records \in [DOMAIN m.records -> Records]
  BY EngineFields
<1>1. n = [m EXCEPT !.records = r]
  BY DEF With
<1>2. ASSUME NEW x \in DOMAIN m.records PROVE r[x] \in Records /\ r[x].state = m.records[x].state
  <2> DEFINE o == m.records[x]
  <2>1. r[x] = o \/ r[x] = [o EXCEPT !.keystone = ~@]
    OBVIOUS
  <2>2. o \in Records
    BY <1>0
  <2> HIDE DEF o, r
  <2> DEFINE k == ~ o.keystone
  <2>3. k \in BOOLEAN
    OBVIOUS
  <2> HIDE DEF k
  <2> DEFINE p == [o EXCEPT !.keystone = k]
  <2>4. p = [state |-> o.state, fid |-> o.fid, keystone |-> k, recalls |-> o.recalls, stale |-> o.stale]
    BY <2>2, RecordFields
  <2>40. [o EXCEPT !.keystone = ~@] = p
    BY DEF k
  <2> HIDE DEF p
  <2>5. p \in Records /\ p.state = o.state
    BY <2>2, <2>3, <2>4, RecordFields DEF Records, AboveGate
  <2> QED
    BY <2>1, <2>2, <2>40, <2>5 DEF o
<1>3. r = [x \in DOMAIN m.records |-> r[x]]
  OBVIOUS
<1> HIDE DEF r, n
<1>4. Kept(m, n)
  BY <1>1, <1>2, <1>3, KeptRecords
<1> QED
  BY <1>4 DEF n

LEMMA TouchKeeps ==
  ASSUME NEW m \in Engines, NEW ids
  PROVE  Kept(m, With(m, ids, OnRecall))
<1> DEFINE n == With(m, ids, OnRecall)
<1> DEFINE r == [x \in DOMAIN m.records |-> IF x \in ids THEN OnRecall(m.records[x]) ELSE m.records[x]]
<1>0. m.records \in [DOMAIN m.records -> Records]
  BY EngineFields
<1>1. n = [m EXCEPT !.records = r]
  BY DEF With
<1>2. ASSUME NEW x \in DOMAIN m.records PROVE r[x] \in Records /\ r[x].state = m.records[x].state
  <2> DEFINE o == m.records[x]
  <2>1. r[x] = o \/ r[x] = OnRecall(o)
    OBVIOUS
  <2>2. o \in Records
    BY <1>0
  <2> HIDE DEF o, r
  <2> DEFINE k == IF o.recalls < PromoteAfter THEN o.recalls + 1 ELSE o.recalls
  <2>3. k \in 0 .. PromoteAfter
    BY <2>2, RecordFields, LevelsAssumption
  <2> DEFINE p == [o EXCEPT !.recalls = k]
  <2>4. OnRecall(o) = [p EXCEPT !.stale = 0]
    BY DEF OnRecall
  <2> HIDE DEF k
  <2>5. p = [state |-> o.state, fid |-> o.fid, keystone |-> o.keystone, recalls |-> k, stale |-> o.stale]
    BY <2>2, RecordFields
  <2> HIDE DEF p
  <2>6. OnRecall(o) = [state |-> o.state, fid |-> o.fid, keystone |-> o.keystone, recalls |-> k, stale |-> 0]
    BY <2>4, <2>5
  <2>7. OnRecall(o) \in Records /\ OnRecall(o).state = o.state
    BY <2>2, <2>3, <2>6, RecordFields DEF Records, AboveGate
  <2> QED
    BY <2>1, <2>2, <2>7 DEF o
<1>3. r = [x \in DOMAIN m.records |-> r[x]]
  OBVIOUS
<1> HIDE DEF r, n
<1>4. Kept(m, n)
  BY <1>1, <1>2, <1>3, KeptRecords
<1> QED
  BY <1>4 DEF n

LEMMA AgeKeeps ==
  ASSUME NEW m \in Engines
  PROVE  Kept(m, With(m, DOMAIN m.records, LAMBDA r : [r EXCEPT !.stale = AtMost(@ + 1, 2)]))
<1> DEFINE n == With(m, DOMAIN m.records, LAMBDA r : [r EXCEPT !.stale = AtMost(@ + 1, 2)])
<1> DEFINE r == [x \in DOMAIN m.records |->
                    IF x \in DOMAIN m.records THEN [m.records[x] EXCEPT !.stale = AtMost(@ + 1, 2)]
                    ELSE m.records[x]]
<1>0. m.records \in [DOMAIN m.records -> Records]
  BY EngineFields
<1>1. n = [m EXCEPT !.records = r]
  BY DEF With
<1>2. ASSUME NEW x \in DOMAIN m.records PROVE r[x] \in Records /\ r[x].state = m.records[x].state
  <2> DEFINE o == m.records[x]
  <2> DEFINE k == AtMost(o.stale + 1, 2)
  <2>1. r[x] = [o EXCEPT !.stale = k]
    OBVIOUS
  <2>2. o \in Records
    BY <1>0
  <2> HIDE DEF o, r
  <2>3. k \in 0 .. 2
    BY <2>2, RecordFields DEF AtMost
  <2> HIDE DEF k
  <2>4. r[x] = [state |-> o.state, fid |-> o.fid, keystone |-> o.keystone, recalls |-> o.recalls, stale |-> k]
    BY <2>1, <2>2, RecordFields
  <2>5. r[x] \in Records /\ r[x].state = o.state
    BY <2>2, <2>3, <2>4, RecordFields DEF Records, AboveGate
  <2> QED
    BY <2>5 DEF o
<1>3. r = [x \in DOMAIN m.records |-> r[x]]
  OBVIOUS
<1> HIDE DEF r, n
<1>4. Kept(m, n)
  BY <1>1, <1>2, <1>3, KeptRecords
<1> QED
  BY <1>4 DEF n

-----------------------------------------------------------------------------
(* Recalls                                                                   *)

Identities == [tier : {"Minimal", "Moderate", "Full"}, heat : 0 .. MaxHeat]

\* What recalls may make of an agent that holds m.
Selves(m) == {s \in [mind : Engines, identity : Identities] : Kept(m, s.mind)}

\* A recall.
LEMMA RecalledIs ==
  ASSUME NEW m \in Engines, NEW self \in Selves(m), NEW ids, NEW temporal
  PROVE  Recalled(self, ids, temporal) \in Selves(m)
<1> DEFINE o == self.mind
<1> DEFINE who == self.identity
<1> DEFINE resonant == {id \in ids \intersect o.rows \intersect DOMAIN o.records : Resonates(who, o.records[id], temporal)}
<1> DEFINE hot == [who EXCEPT !.heat = AtMost(@ + Cardinality(resonant), MaxHeat)]
<1>1. o \in Engines /\ who \in Identities /\ Kept(m, o)
  BY DEF Selves
<1>2. Recalled(self, ids, temporal) = [mind |-> With(o, resonant, OnRecall), identity |-> hot]
  BY DEF Recalled
<1>3. resonant \subseteq DOMAIN o.records
  OBVIOUS
<1> HIDE DEF resonant, o, who
<1>4. Cardinality(resonant) \in Nat
  <2>1. resonant \subseteq Nodes
    BY <1>1, <1>3, EngineFields
  <2> QED
    BY <2>1, FS_Subset, FS_CardinalityType, LevelsAssumption
<1>5. AtMost(who.heat + Cardinality(resonant), MaxHeat) \in 0 .. MaxHeat
  BY <1>1, <1>4, MindAssumption DEF Identities, AtMost
<1>6. hot \in Identities
  BY <1>1, <1>5 DEF Identities
<1> HIDE DEF hot
<1> DEFINE n == With(o, resonant, OnRecall)
<1>7. Kept(o, n)
  BY <1>1, TouchKeeps
<1> HIDE DEF n
<1>8. Kept(m, n) /\ n \in Engines
  BY <1>1, <1>7, KeptIsTransitive DEF Kept, Like
<1>9. [mind |-> n, identity |-> hot] \in Selves(m)
  BY <1>6, <1>8 DEF Selves
<1> QED
  BY <1>2, <1>9 DEF n

\* The recalls that are answered, one after the other.
LEMMA RecallsAre ==
  ASSUME NEW m \in Engines, NEW self \in Selves(m), NEW ids, NEW temporal, NEW A, NEW l \in Seq(A)
  PROVE  RecalledInTurn(self, ids, temporal, l) \in Selves(m)
<1> DEFINE n == Len(l)
<1> DEFINE T == Selves(m)
<1> DEFINE Op(s, i) == Recalled(s, ids[i].ids, temporal[i])
<1> DEFINE Step == [p \in (1 .. n) \X T |-> Op(p[2], l[p[1]])]
<1> DEFINE result == FoldLeft(LAMBDA s, i : Recalled(s, ids[i].ids, temporal[i]), self, l)
<1>1. n \in Nat /\ DOMAIN l = 1 .. n
  OBVIOUS
<1>2. self \in T
  OBVIOUS
<1>3. \A t \in T : \A i : Op(t, i) \in T
  BY RecalledIs
<1>4. \A i \in 1 .. n : \A t \in T : Step[<<i, t>>] = Op(t, l[i])
  <2> HIDE DEF Op, T
  <2> SUFFICES ASSUME NEW i \in 1 .. n, NEW t \in T PROVE Step[<<i, t>>] = Op(t, l[i])
    OBVIOUS
  <2>1. <<i, t>> \in (1 .. n) \X T
    OBVIOUS
  <2> QED
    BY <2>1
<1> HIDE DEF n, T, Op, Step
<1>5. \A i \in 1 .. n : \A t \in T : Step[<<i, t>>] \in T
  BY <1>3, <1>4
<1>6. PICK f : LeftFold(f, n, T, self, Step)
  BY <1>1, <1>2, <1>5, LeftExists
<1> DEFINE F(g) == [s \in SUBSET (1 .. n) |-> IF s = {} THEN self ELSE Op(g[s \ {Max(s)}], l[Max(s)])]
<1>7. f = F(f)
  <2>1. \A s \in SUBSET (1 .. n) : s # {} => Max(s) \in 1 .. n /\ f[s \ {Max(s)}] \in T
    BY <1>1, <1>6, Extremes DEF LeftFold
  <2>2. f = [s \in SUBSET (1 .. n) |-> f[s]]
    BY <1>6 DEF LeftFold
  <2>3. \A s \in SUBSET (1 .. n) : f[s] = IF s = {} THEN self ELSE Op(f[s \ {Max(s)}], l[Max(s)])
    BY <1>4, <1>6, <2>1 DEF LeftFold
  <2> QED
    BY <2>2, <2>3
<1> DEFINE c == CHOOSE g : g = F(g)
<1>8. c = F(c)
  BY <1>7
<1>9. result = c[1 .. n]
  BY <1>1 DEF FoldLeft, MapThenFoldSet, Op
<1>10. \A s \in SUBSET (1 .. n) : c[s] = IF s = {} THEN self ELSE Op(c[s \ {Max(s)}], l[Max(s)])
  <2> HIDE DEF c
  <2> QED
    BY <1>8
<1> HIDE DEF c, F, result
<1> DEFINE P == {i \in 0 .. n : c[1 .. i] \in T}
<1>11. 0 \in P
  <2>1. 1 .. 0 = {} /\ 0 \in 0 .. n
    BY <1>1
  <2> QED
    BY <1>2, <1>10, <2>1
<1>12. \A i \in 1 .. n : i - 1 \in P => i \in P
  <2> SUFFICES ASSUME NEW i \in 1 .. n, c[1 .. (i - 1)] \in T PROVE c[1 .. i] \in T
    BY <1>1
  <2>1. 1 .. i \in SUBSET (1 .. n) /\ 1 .. i # {} /\ Max(1 .. i) = i /\ (1 .. i) \ {i} = 1 .. (i - 1)
    BY <1>1, Intervals
  <2>2. c[1 .. i] = Op(c[1 .. (i - 1)], l[i])
    BY <1>10, <2>1
  <2> QED
    BY <1>3, <2>2
<1>13. n \in P
  <2>1. 0 .. n \subseteq P
    <3> HIDE DEF P
    <3> QED
      BY <1>1, <1>11, <1>12, IntervalInduction
  <2> QED
    BY <1>1, <2>1
<1>14. result \in Selves(m)
  BY <1>9, <1>13 DEF T
<1> QED
  BY <1>14 DEF result, RecalledInTurn

-----------------------------------------------------------------------------
(* Removals from the list of recalls                                        *)

\* p takes k indices, each once, to those of 1..n that are not in D; the ones
\* before i are still in their place.
Reindexes(p, k, n, D, i) ==
    /\ k \in (i - 1) .. n /\ p \in [1 .. k -> 1 .. n]
    /\ \A a, b \in 1 .. k : p[a] = p[b] => a = b
    /\ \A x \in 1 .. n : x \notin D <=> \E j \in 1 .. k : p[j] = x
    /\ \A j \in 1 .. (i - 1) : p[j] = j

\* t holds what s holds at the indices that are not in D, each once.
Spared(s, D, i, t) ==
    \E k, p : Reindexes(p, k, Len(s), D, i) /\ t = [j \in 1 .. k |-> s[p[j]]]

LEMMA SwapSpares ==
  ASSUME NEW A, NEW s \in Seq(A), NEW i \in 1 .. Len(s), NEW D, NEW t, Spared(s, D, i + 1, t), i \notin D
  PROVE  Spared(s, D \union {i}, i, SwapRemoved(t, i))
<1> DEFINE n == Len(s)
<1>1. PICK k, p : Reindexes(p, k, n, D, i + 1) /\ t = [j \in 1 .. k |-> s[p[j]]]
  BY DEF Spared
<1>2. /\ k \in i .. n /\ p \in [1 .. k -> 1 .. n]
      /\ \A a, b \in 1 .. k : p[a] = p[b] => a = b
      /\ \A x \in 1 .. n : x \notin D <=> \E j \in 1 .. k : p[j] = x
      /\ \A j \in 1 .. i : p[j] = j
  BY <1>1 DEF Reindexes
<1>3. n \in Nat /\ i \in 1 .. n /\ k \in 1 .. n /\ i <= k /\ p[i] = i
  BY <1>2
<1> HIDE DEF n
<1> DEFINE l == k - 1
<1> DEFINE q == [j \in 1 .. l |-> IF j = i THEN p[k] ELSE p[j]]
<1>4. l \in (i - 1) .. n /\ q \in [1 .. l -> 1 .. n]
  BY <1>2, <1>3
<1>5. \A j \in 1 .. l : q[j] = IF j = i THEN p[k] ELSE p[j]
  OBVIOUS
<1>50. \A j \in 1 .. l : j \in 1 .. k /\ j # k
  BY <1>3
<1>51. k \in 1 .. k /\ i \in 1 .. k
  BY <1>3
<1> HIDE DEF q
<1>6. \A a, b \in 1 .. l : q[a] = q[b] => a = b
  BY <1>2, <1>5, <1>50, <1>51
<1>7. ASSUME NEW x \in 1 .. n
      PROVE  x \notin D \union {i} <=> \E j \in 1 .. l : q[j] = x
  <2>1. ASSUME x \notin D \union {i} PROVE \E j \in 1 .. l : q[j] = x
    <3>1. PICK j \in 1 .. k : p[j] = x
      BY <1>2, <2>1
    <3>2. j # i
      BY <1>3, <2>1, <3>1
    <3>3. CASE j = k
      <4>1. i \in 1 .. l
        BY <1>3, <3>2, <3>3
      <4> QED
        BY <1>5, <3>1, <3>3, <4>1
    <3>4. CASE j # k
      <4>1. j \in 1 .. l
        BY <1>3, <3>4
      <4> QED
        BY <1>5, <3>1, <3>2, <4>1
    <3> QED
      BY <3>3, <3>4
  <2>2. ASSUME NEW j \in 1 .. l, q[j] = x PROVE x \notin D \union {i}
    <3>1. CASE j = i
      <4>1. p[k] = x /\ k # i
        BY <1>3, <1>5, <2>2, <3>1
      <4>2. x # i
        BY <1>2, <1>3, <1>51, <4>1
      <4> QED
        BY <1>2, <1>51, <4>1, <4>2
    <3>2. CASE j # i
      <4>1. p[j] = x /\ j \in 1 .. k
        BY <1>5, <1>50, <2>2, <3>2
      <4>2. x # i
        BY <1>2, <1>3, <1>51, <3>2, <4>1
      <4> QED
        BY <1>2, <4>1, <4>2
    <3> QED
      BY <3>1, <3>2
  <2> QED
    BY <2>1, <2>2
<1>8. \A j \in 1 .. (i - 1) : q[j] = j
  <2>1. \A j \in 1 .. (i - 1) : j \in 1 .. l /\ j # i /\ j \in 1 .. i
    BY <1>3
  <2> QED
    BY <1>2, <1>5, <2>1
<1>9. Reindexes(q, l, n, D \union {i}, i)
  BY <1>4, <1>6, <1>7, <1>8 DEF Reindexes
<1>10. SwapRemoved(t, i) = [j \in 1 .. l |-> s[q[j]]]
  <2>1. Len(t) = k /\ t \in Seq(A)
    <3>1. \A j \in 1 .. k : s[p[j]] \in A
      BY <1>2 DEF n
    <3>2. [j \in 1 .. k |-> s[p[j]]] \in [1 .. k -> A]
      BY <3>1
    <3>3. t \in [1 .. k -> A] /\ k \in Nat
      BY <1>1, <1>3, <3>2
    <3> QED
      BY <3>3
  <2>2. SwapRemoved(t, i) = [j \in 1 .. l |-> IF j = i THEN t[k] ELSE t[j]]
    BY <2>1 DEF SwapRemoved
  <2>3. \A j \in 1 .. l : (IF j = i THEN t[k] ELSE t[j]) = s[q[j]]
    BY <1>1, <1>5, <1>50, <1>51
  <2> QED
    BY <2>2, <2>3
<1> HIDE DEF l
<1>11. Reindexes(q, l, Len(s), D \union {i}, i)
  BY <1>9 DEF n
<1> DEFINE u == SwapRemoved(t, i)
<1> DEFINE D2 == D \union {i}
<1>12. Reindexes(q, l, Len(s), D2, i) /\ u = [j \in 1 .. l |-> s[q[j]]]
  BY <1>10, <1>11
<1> HIDE DEF u, D2
<1>13. Spared(s, D2, i, u)
  BY <1>12, Zenon DEF Spared
<1> QED
  BY <1>13 DEF u, D2

\* An index that stays, and before the first removal.
LEMMA KeptSpares ==
  ASSUME NEW s, NEW i \in Nat, NEW D, NEW t, Spared(s, D, i + 1, t), Len(s) \in Nat
  PROVE  Spared(s, D, i, t)
<1>1. PICK k, p : Reindexes(p, k, Len(s), D, i + 1) /\ t = [j \in 1 .. k |-> s[p[j]]]
  BY DEF Spared
<1>2. Reindexes(p, k, Len(s), D, i)
  BY <1>1 DEF Reindexes
<1> QED
  BY <1>1, <1>2 DEF Spared

LEMMA AllSpared ==
  ASSUME NEW A, NEW s \in Seq(A)
  PROVE  Spared(s, {}, Len(s) + 1, s)
<1> DEFINE n == Len(s)
<1> DEFINE p == [j \in 1 .. n |-> j]
<1>1. n \in Nat /\ DOMAIN s = 1 .. n
  OBVIOUS
<1>2. s = [j \in 1 .. n |-> s[p[j]]]
  BY <1>1
<1> HIDE DEF n
<1>3. Reindexes(p, n, n, {}, n + 1)
  BY <1>1 DEF Reindexes
<1> HIDE DEF p
<1> QED
  BY <1>2, <1>3 DEF Spared, n

\* From the last to the first, each removal moves only what was looked at.
LEMMA WithoutIs ==
  ASSUME NEW A, NEW s \in Seq(A), NEW done \in SUBSET DOMAIN s
  PROVE  Spared(s, done, 1, Without(s, done))
<1> DEFINE n == Len(s)
<1> DEFINE T == Seq(A)
<1> DEFINE l == [i \in DOMAIN s |-> i]
<1> DEFINE Op(i, t) == IF i \in done THEN SwapRemoved(t, i) ELSE t
<1> DEFINE Step == [p \in (1 .. n) \X T |-> Op(p[1], p[2])]
<1>1. n \in Nat /\ DOMAIN s = 1 .. n
  OBVIOUS
<1>2. s \in T
  OBVIOUS
<1>3. \A t \in T : \A i \in 1 .. n : Op(i, t) \in T
  <2> SUFFICES ASSUME NEW t \in T, NEW i \in 1 .. n PROVE SwapRemoved(t, i) \in T
    OBVIOUS
  <2>1. CASE Len(t) = 0
    <3>1. SwapRemoved(t, i) = <<>>
      BY <2>1 DEF SwapRemoved
    <3> QED
      BY <3>1
  <2>2. CASE Len(t) # 0
    <3>1. Len(t) - 1 \in Nat
      BY <2>2
    <3>2. SwapRemoved(t, i) \in [1 .. (Len(t) - 1) -> A]
      BY <2>2 DEF SwapRemoved
    <3> QED
      BY <3>1, <3>2
  <2> QED
    BY <2>1, <2>2
<1>4. \A i \in 1 .. n : \A t \in T : Step[<<i, t>>] = Op(i, t)
  <2> HIDE DEF Op, T
  <2> SUFFICES ASSUME NEW i \in 1 .. n, NEW t \in T PROVE Step[<<i, t>>] = Op(i, t)
    OBVIOUS
  <2>1. <<i, t>> \in (1 .. n) \X T
    OBVIOUS
  <2> QED
    BY <2>1
<1>40. Len(l) = n /\ DOMAIN l = 1 .. n /\ \A i \in 1 .. n : l[i] = i
  BY <1>1
<1> HIDE DEF n, T, Op, Step, l
<1>5. \A i \in 1 .. n : \A t \in T : Step[<<i, t>>] \in T
  BY <1>3, <1>4
<1>6. PICK f : RightFold(f, n, T, s, Step)
  BY <1>1, <1>2, <1>5, RightExists
<1> DEFINE F(g) == [r \in SUBSET (1 .. n) |-> IF r = {} THEN s ELSE Op(l[Min(r)], g[r \ {Min(r)}])]
<1>7. f = F(f)
  <2>1. \A r \in SUBSET (1 .. n) : r # {} => Min(r) \in 1 .. n /\ f[r \ {Min(r)}] \in T
    BY <1>1, <1>6, Extremes DEF RightFold
  <2>2. f = [r \in SUBSET (1 .. n) |-> f[r]]
    BY <1>6 DEF RightFold
  <2>3. \A r \in SUBSET (1 .. n) : f[r] = IF r = {} THEN s ELSE Op(l[Min(r)], f[r \ {Min(r)}])
    <3> SUFFICES ASSUME NEW r \in SUBSET (1 .. n), r # {}
                 PROVE  f[r] = Op(l[Min(r)], f[r \ {Min(r)}])
      BY <1>6 DEF RightFold
    <3> DEFINE x == Min(r)
    <3>1. x \in 1 .. n /\ f[r \ {x}] \in T
      BY <2>1
    <3>2. f[r] = Step[<<x, f[r \ {x}]>>]
      BY <1>6 DEF RightFold
    <3> HIDE DEF x
    <3>3. f[r] = Op(l[x], f[r \ {x}])
      BY <1>4, <1>40, <3>1, <3>2
    <3> QED
      BY <3>3 DEF x
  <2> QED
    BY <2>2, <2>3
<1> DEFINE c == CHOOSE g : g = F(g)
<1>8. c = F(c)
  BY <1>7
<1>9. Without(s, done) = c[1 .. n]
  BY <1>1, <1>40 DEF Without, FoldRight, MapThenFoldSet, Op, l
<1>10. \A r \in SUBSET (1 .. n) : c[r] = IF r = {} THEN s ELSE Op(l[Min(r)], c[r \ {Min(r)}])
  <2> HIDE DEF c
  <2> QED
    BY <1>8
<1> HIDE DEF c, F
<1> DEFINE P == {d \in 0 .. n : Spared(s, done \intersect ((n + 1 - d) .. n), n + 1 - d, c[(n + 1 - d) .. n])}
<1>11. 0 \in P
  <2>1. (n + 1) .. n = {} /\ n + 1 - 0 = n + 1 /\ done \intersect {} = {} /\ {} \in SUBSET (1 .. n) /\ 0 \in 0 .. n
    BY <1>1
  <2>2. c[{}] = s
    BY <1>10, <2>1
  <2>3. Spared(s, {}, n + 1, s)
    BY AllSpared DEF n
  <2> QED
    BY <2>1, <2>2, <2>3
<1>12. ASSUME NEW d \in 1 .. n, d - 1 \in P
       PROVE  d \in P
  <2> DEFINE i == n + 1 - d
  <2>1. i \in 1 .. n /\ n + 1 - (d - 1) = i + 1 /\ d \in 0 .. n
    BY <1>1
  <2> DEFINE t == c[(i + 1) .. n]
  <2> DEFINE D == done \intersect ((i + 1) .. n)
  <2>2. Spared(s, D, i + 1, t)
    BY <1>12, <2>1
  <2> HIDE DEF i
  <2>3. i .. n \in SUBSET (1 .. n) /\ i .. n # {} /\ Min(i .. n) = i /\ (i .. n) \ {i} = (i + 1) .. n
    BY <1>1, <2>1, Intervals
  <2>4. c[i .. n] = Op(i, t)
    <3>1. c[i .. n] = Op(l[i], t)
      BY <1>10, <2>3
    <3>2. l[i] = i
      BY <1>40, <2>1
    <3> QED
      BY <3>1, <3>2
  <2>5. CASE i \in done
    <3>1. i \notin D
      BY <1>1, <2>1
    <3>20. i \in i .. n
      BY <1>1, <2>1
    <3>2. done \intersect (i .. n) = D \union {i}
      BY <2>3, <2>5, <3>20
    <3>3. c[i .. n] = SwapRemoved(t, i)
      BY <2>4, <2>5 DEF Op
    <3> HIDE DEF D, t
    <3>4. Spared(s, D \union {i}, i, SwapRemoved(t, i))
      BY <2>1, <2>2, <3>1, SwapSpares DEF n
    <3>5. Spared(s, done \intersect (i .. n), i, c[i .. n])
      BY <3>2, <3>3, <3>4
    <3> QED
      BY <2>1, <3>5 DEF i
  <2>6. CASE i \notin done
    <3>2. done \intersect (i .. n) = D
      BY <2>3, <2>6
    <3>3. c[i .. n] = t
      BY <2>4, <2>6 DEF Op
    <3> HIDE DEF D, t
    <3>4. Spared(s, D, i, t)
      BY <1>1, <2>1, <2>2, KeptSpares DEF n
    <3>5. Spared(s, done \intersect (i .. n), i, c[i .. n])
      BY <3>2, <3>3, <3>4
    <3> QED
      BY <2>1, <3>5 DEF i
  <2> QED
    BY <2>5, <2>6
<1>13. n \in P
  <2>1. 0 .. n \subseteq P
    <3> HIDE DEF P
    <3> QED
      BY <1>1, <1>11, <1>12, IntervalInduction
  <2>2. n \in 0 .. n
    BY <1>1
  <2> HIDE DEF P
  <2> QED
    BY <2>1, <2>2
<1>14. n + 1 - n = 1 /\ done \intersect (1 .. n) = done
  BY <1>1
<1>15. Spared(s, done, 1, c[1 .. n])
  BY <1>13, <1>14
<1> QED
  BY <1>9, <1>15

-----------------------------------------------------------------------------
(* Files                                                                    *)

Disk(s, l) == FoldLeft(Redone, s, l)

\* An engine and its files: both keep what was told, and the files archive
\* nothing that the engine does not.
Written(m, s, l, t) ==
    /\ s \in Engines /\ l \in Seq(LogEntries)
    /\ Holds(m, t) /\ Holds(Disk(s, l), t) /\ ArchivedToo(Disk(s, l), m)

\* What becomes of the archived and of the active in one step.
Outlives(m, n) == ArchivedToo(n, m) \/ Survived(m, n)

\* A snapshot holds what the engine does.
LEMMA FieldsHold ==
  ASSUME NEW m \in Engines, NEW n \in Engines, n.rows = m.rows, n.text = m.text, n.tree = m.tree,
         n.records = m.records, NEW t, Holds(m, t)
  PROVE  Holds(n, t)
BY DEF Holds, TermsAreStored

LEMMA SnapshotIs ==
  ASSUME NEW m \in Engines
  PROVE  LET n == Snapshot(m)
         IN /\ n \in Engines
            /\ n.rows = m.rows /\ n.text = m.text /\ n.tree = m.tree /\ n.records = m.records
            /\ n.graph.edges = m.graph.edges
<1> DEFINE g == Rebuilt(m.graph.edges)
<1> DEFINE n == Snapshot(m)
<1>1. g \in Graphs /\ g.edges = m.graph.edges
  BY EngineFields, GraphFields, RebuiltGraph
<1>2. n = [m EXCEPT !.graph = g]
  BY DEF Snapshot
<1> HIDE DEF g, n
<1>3. /\ n \in Engines
      /\ n = [rows |-> m.rows, text |-> m.text, records |-> m.records, graph |-> g, tree |-> m.tree]
  BY <1>1, <1>2, Regraphed
<1> QED
  BY <1>1, <1>3 DEF n

LEMMA FewerHold ==
  ASSUME NEW m, NEW t, NEW id, Holds(m, t)
  PROVE  Holds(m, Lost(t, id))
BY DEF Holds, Lost

LEMMA ArchivedItself == \A m : ArchivedToo(m, m)
BY DEF ArchivedToo

\* A checkpoint.
LEMMA CheckpointWrites ==
  ASSUME NEW m, NEW t, Holds(m, t)
  PROVE  Written(m, Snapshot(m), <<>>, t)
<1> DEFINE n == Snapshot(m)
<1>1. m \in Engines
  BY DEF Holds
<1>2. /\ n \in Engines
      /\ n.rows = m.rows /\ n.text = m.text /\ n.tree = m.tree /\ n.records = m.records
  BY <1>1, SnapshotIs
<1> HIDE DEF n
<1>3. Disk(n, <<>>) = n
  BY <1>2, RedoneEmpty DEF Disk
<1>4. Holds(n, t)
  BY <1>1, <1>2, FieldsHold
<1>5. ArchivedToo(n, m)
  BY <1>2 DEF ArchivedToo
<1>6. <<>> \in Seq(LogEntries)
  OBVIOUS
<1>7. Written(m, n, <<>>, t)
  BY <1>2, <1>3, <1>4, <1>5, <1>6 DEF Written
<1> QED
  BY <1>7 DEF n

\* An entry that is appended is redone last.
LEMMA DiskAppends ==
  ASSUME NEW s \in Engines, NEW l \in Seq(LogEntries), NEW e \in LogEntries
  PROVE  /\ Disk(s, l) \in Engines
         /\ l \o <<e>> \in Seq(LogEntries) /\ Disk(s, l \o <<e>>) = Redone(Disk(s, l), e)
<1>1. l \o <<e>> = Append(l, e) /\ Append(l, e) \in Seq(LogEntries)
  OBVIOUS
<1> QED
  BY <1>1, RedoneAppend DEF Disk

LEMMA RedoneOnce ==
  ASSUME NEW m \in Engines, NEW e \in LogEntries
  PROVE  FoldLeft(Redone, m, <<e>>) = Redone(m, e)
<1>1. <<>> \in Seq(LogEntries) /\ <<>> \o <<e>> = <<e>>
  OBVIOUS
<1>2. Disk(m, <<>>) = m
  BY RedoneEmpty DEF Disk
<1>3. Disk(m, <<>> \o <<e>>) = Redone(Disk(m, <<>>), e)
  BY <1>1, DiskAppends
<1> QED
  BY <1>1, <1>2, <1>3 DEF Disk

LEMMA PairAppended ==
  ASSUME NEW A, NEW l \in Seq(A), NEW e \in A, NEW f \in A
  PROVE  /\ Append(l, e) \in Seq(A) /\ l \o <<e>> = Append(l, e)
         /\ l \o <<e, f>> = Append(Append(l, e), f)
<1>1. Append(l, e) \in Seq(A) /\ l \o <<e>> = Append(l, e)
  OBVIOUS
<1>2. l \o <<e, f>> = Append(Append(l, e), f)
  OBVIOUS
<1> QED
  BY <1>1, <1>2

LEMMA PairOfOnes ==
  ASSUME NEW A, NEW e \in A, NEW f \in A
  PROVE  <<e>> \in Seq(A) /\ <<e, f>> = Append(<<e>>, f)
<1>1. <<e>> \in Seq(A)
  OBVIOUS
<1> DEFINE p == Append(<<e>>, f)
<1>2. p \in Seq(A) /\ Len(p) = 2 /\ p[1] = e /\ p[2] = f
  BY <1>1, AppendProperties
<1> HIDE DEF p
<1>3. p = <<e, f>>
  BY <1>2
<1> QED
  BY <1>1, <1>3 DEF p

LEMMA RedoneTwice ==
  ASSUME NEW m \in Engines, NEW e \in LogEntries, NEW f \in LogEntries
  PROVE  FoldLeft(Redone, m, <<e, f>>) = Redone(Redone(m, e), f)
<1>1. <<e>> \in Seq(LogEntries) /\ <<e, f>> = Append(<<e>>, f)
  BY PairOfOnes
<1>2. FoldLeft(Redone, m, <<e>>) = Redone(m, e)
  BY RedoneOnce
<1> DEFINE x == <<e>>
<1> HIDE DEF x
<1>3. FoldLeft(Redone, m, Append(x, f)) = Redone(FoldLeft(Redone, m, x), f)
  BY <1>1, RedoneAppend DEF x
<1> QED
  BY <1>1, <1>2, <1>3 DEF x

\* One entry of the log, and two that make a memory.
LEMMA LoggedWrites ==
  ASSUME NEW m, NEW s, NEW l, NEW t, Written(m, s, l, t), NEW e \in LogEntries, NEW t2,
         Holds(Redone(m, e), t2), Holds(Redone(Disk(s, l), e), t2)
  PROVE  /\ Written(Redone(m, e), s, l \o <<e>>, t2)
         /\ FoldLeft(Redone, m, <<e>>) = Redone(m, e)
         /\ ArchivedToo(Redone(m, e), m)
<1> DEFINE n == Redone(m, e)
<1> DEFINE d == Redone(Disk(s, l), e)
<1> DEFINE k == l \o <<e>>
<1>1. m \in Engines /\ s \in Engines /\ l \in Seq(LogEntries) /\ ArchivedToo(Disk(s, l), m)
  BY DEF Written, Holds
<1>2. Disk(s, l) \in Engines /\ k \in Seq(LogEntries) /\ Disk(s, k) = d
  BY <1>1, DiskAppends
<1>3. ArchivedToo(d, n)
  BY <1>1, <1>2, RedoneArchives
<1>4. Holds(n, t2) /\ Holds(d, t2)
  OBVIOUS
<1>5. FoldLeft(Redone, m, <<e>>) = n /\ ArchivedToo(n, m)
  BY <1>1, RedoneOnce, RedoneOutlives
<1> HIDE DEF n, d, k
<1>6. Written(n, s, k, t2)
  BY <1>1, <1>2, <1>3, <1>4 DEF Written
<1> QED
  BY <1>5, <1>6 DEF n, k

LEMMA MemoryWrites ==
  ASSUME NEW m, NEW s, NEW l, NEW t, Written(m, s, l, t), NEW e \in LogEntries, NEW f \in LogEntries,
         e.op = "Remember", f.op = "InsertTerm", e.id = f.id, e.text = f.text
  PROVE  LET n == Redone(Redone(m, e), f)
         IN /\ Written(n, s, l \o <<e, f>>, Entered(t, e.id, e.text))
            /\ FoldLeft(Redone, m, <<e, f>>) = n
            /\ ArchivedToo(n, m)
<1> DEFINE o == Redone(m, e)
<1> DEFINE n == Redone(o, f)
<1> DEFINE d == Redone(Disk(s, l), e)
<1> DEFINE g == Redone(d, f)
<1> DEFINE k == Append(l, e)
<1> DEFINE q == l \o <<e, f>>
<1>1. /\ m \in Engines /\ s \in Engines /\ l \in Seq(LogEntries) /\ ArchivedToo(Disk(s, l), m)
      /\ Holds(m, t) /\ Holds(Disk(s, l), t)
  BY DEF Written, Holds
<1>2. Disk(s, l) \in Engines /\ k \in Seq(LogEntries) /\ Disk(s, k) = d
  BY <1>1, RedoneAppend, AppendProperties DEF Disk
<1>3. q = Append(k, f)
  BY <1>1, PairAppended
<1>4. q \in Seq(LogEntries) /\ Disk(s, q) = g
  <2> HIDE DEF q, d, k
  <2>1. q \in Seq(LogEntries)
    BY <1>2, <1>3, AppendProperties
  <2>2. FoldLeft(Redone, s, Append(k, f)) = Redone(FoldLeft(Redone, s, k), f)
    BY <1>1, <1>2, RedoneAppend
  <2> QED
    BY <1>2, <1>3, <2>1, <2>2 DEF Disk
<1>5. o \in Engines /\ d \in Engines /\ ArchivedToo(d, o)
  BY <1>1, <1>2, RedoneEngine, RedoneArchives
<1>6. ArchivedToo(g, n)
  BY <1>5, RedoneArchives
<1>7. Holds(n, Entered(t, e.id, e.text)) /\ Holds(g, Entered(t, e.id, e.text))
  BY <1>1, <1>2, RememberingHolds
<1>8. FoldLeft(Redone, m, <<e, f>>) = n
  BY <1>1, RedoneTwice
<1>9. ArchivedToo(n, m)
  <2> SUFFICES ASSUME NEW id \in DOMAIN n.records \intersect DOMAIN m.records, n.records[id].state = "Archived"
               PROVE  m.records[id].state = "Archived"
    BY DEF ArchivedToo
  <2>1. ArchivedToo(n, o) /\ ArchivedToo(o, m)
    BY <1>1, <1>5, RedoneOutlives
  <2>2. id \in DOMAIN o.records
    <3> HIDE DEF n
    <3>1. \A x \in Engines : Redone(x, e) = Remembered(x, e.id, e.text, e.flag)
      BY DEF Redone
    <3>2. e.id \in Nodes /\ e.text \in Texts /\ e.flag \in BOOLEAN
      BY DEF LogEntries
    <3>3. o.records = Entered(m.records, e.id, [NewRecord EXCEPT !.keystone = e.flag])
      BY <1>1, <3>1, <3>2, NewRecords, RememberedIs
    <3> QED
      BY <3>3 DEF Entered
  <2> HIDE DEF n, o
  <2> QED
    BY <2>1, <2>2 DEF ArchivedToo
<1> DEFINE t2 == Entered(t, e.id, e.text)
<1> HIDE DEF n, o, g, d, k, q, t2
<1>10. Written(n, s, q, t2)
  BY <1>1, <1>4, <1>6, <1>7 DEF Written, t2
<1> QED
  BY <1>8, <1>9, <1>10 DEF n, o, q, t2

\* What is not in the log: a dream, a recall, a keystone.
LEMMA LikeWrites ==
  ASSUME NEW m, NEW s, NEW l, NEW t, Written(m, s, l, t), NEW n, Like(m, n),
         \A x \in DOMAIN m.records : m.records[x].state = "Archived" => n.records[x].state = "Archived"
  PROVE  Written(n, s, l, t)
<1>1. Holds(n, t)
  BY LikeHolds DEF Written
<1>2. ArchivedToo(Disk(s, l), n)
  BY DEF Written, ArchivedToo, Like
<1> QED
  BY <1>1, <1>2 DEF Written

LEMMA KeptWrites ==
  ASSUME NEW m, NEW s, NEW l, NEW t, Written(m, s, l, t), NEW n, Kept(m, n)
  PROVE  Written(n, s, l, t) /\ ArchivedToo(n, m)
<1>1. Like(m, n) /\ \A x \in DOMAIN m.records : n.records[x].state = m.records[x].state
  BY DEF Kept
<1>2. Written(n, s, l, t)
  BY <1>1, LikeWrites
<1> QED
  BY <1>1, <1>2 DEF ArchivedToo, Like

LEMMA DreamWrites ==
  ASSUME NEW m, NEW s, NEW l, NEW t, Written(m, s, l, t), NEW intensity, NEW n \in Dreams(m, intensity)
  PROVE  Written(n, s, l, t) /\ Survived(m, n)
<1>1. Survived(m, n)
  BY DreamsAre DEF Written, Holds
<1>2. /\ Like(m, n)
      /\ \A x \in DOMAIN m.records : m.records[x].state = "Archived" => n.records[x].state = "Archived"
  BY <1>1 DEF Survived
<1>3. Written(n, s, l, t)
  BY <1>2, LikeWrites
<1> QED
  BY <1>1, <1>3

\* A deletion of what has no row.
LEMMA DropWrites ==
  ASSUME NEW m, NEW s, NEW l, NEW t, Written(m, s, l, t), NEW id \in Nodes
  PROVE  Written(Dropped(m, id), s, l, Lost(t, id)) /\ ArchivedToo(Dropped(m, id), m)
<1> DEFINE n == Dropped(m, id)
<1>1. m \in Engines /\ Holds(m, t) /\ Holds(Disk(s, l), t) /\ ArchivedToo(Disk(s, l), m)
  BY DEF Written, Holds
<1>2. n.records = Lost(m.records, id) /\ Holds(n, Lost(t, id))
  BY <1>1, DroppedIs
<1> HIDE DEF n
<1>3. Holds(Disk(s, l), Lost(t, id))
  BY <1>1, FewerHold
<1>4. ArchivedToo(Disk(s, l), n) /\ ArchivedToo(n, m)
  BY <1>1, <1>2 DEF ArchivedToo, Lost
<1>5. Written(n, s, l, Lost(t, id))
  BY <1>2, <1>3, <1>4 DEF Written
<1> QED
  BY <1>4, <1>5 DEF n

-----------------------------------------------------------------------------
(* Invariants                                                                *)

\* The same without what is in memory only while the program runs.
Filed(m, s, l, t) ==
    /\ m \in Engines /\ TermsAreStored(m)
    /\ s \in Engines /\ l \in Seq(LogEntries)
    /\ Holds(Disk(s, l), t) /\ ArchivedToo(Disk(s, l), m)

\* The search engine has the text of everything that was told, but for what
\* it was misled about.
Indexes(f, t, w) == \A id \in DOMAIN t \ w : id \in DOMAIN f /\ f[id] = t[id]

Running == {"top", "clock", "http", "recalls", "line"}

\* The engine, its files and the search engine keep what was told.
MemoryIsKept ==
    /\ identity \in Identities
    /\ mode \in {"serve", "repl"} /\ pc \in Running \union {"down", "stopped", "failed"}
    /\ pc = "line" => mode = "repl"
    /\ Filed(mind, snapshot, log, told)
    /\ Up => Written(mind, snapshot, log, told)
    /\ Up /\ mode = "serve" => Indexes(corpus, told, misled)
    /\ pc = "stopped" => log = <<>> /\ snapshot = Snapshot(mind)

\* What is written is filed.
LEMMA WrittenFiles ==
  ASSUME NEW m, NEW s, NEW l, NEW t, Written(m, s, l, t)
  PROVE  Filed(m, s, l, t)
BY DEF Written, Filed, Holds

LEMMA UpIsRunning == MemoryIsKept => (Up <=> pc \in Running)
BY DEF MemoryIsKept, Up, Running

\* A step of the program that runs on.
LEMMA MovesOn ==
  ASSUME MemoryIsKept, Written(mind', snapshot', log', told'), identity' \in Identities,
         mode' = mode, pc' \in Running, pc' = "line" => mode = "repl",
         mode = "serve" => Indexes(corpus', told', misled')
  PROVE  MemoryIsKept'
<1>1. Filed(mind', snapshot', log', told')
  BY WrittenFiles
<1>2. pc' # "stopped"
  BY DEF Running
<1> QED
  BY <1>1, <1>2 DEF MemoryIsKept

\* One that leaves the memories alone.
LEMMA MovesOnly ==
  ASSUME MemoryIsKept, Up, UNCHANGED <<mind, snapshot, log, corpus, misled, identity, mode, told>>,
         pc' \in Running, pc' = "line" => mode = "repl"
  PROVE  MemoryIsKept' /\ Outlives(mind, mind')
<1>1. /\ Written(mind', snapshot', log', told') /\ identity' \in Identities
      /\ mode = "serve" => Indexes(corpus', told', misled')
  BY DEF MemoryIsKept
<1>2. Outlives(mind, mind')
  BY ArchivedItself DEF Outlives
<1> QED
  BY <1>1, <1>2, MovesOn

LEMMA StaysPut ==
  ASSUME MemoryIsKept, UNCHANGED <<mind, snapshot, log, corpus, misled, identity, pc, mode, told>>
  PROVE  MemoryIsKept' /\ Outlives(mind, mind')
<1>1. MemoryIsKept'
  BY DEF MemoryIsKept, Up
<1>2. Outlives(mind, mind')
  BY ArchivedItself DEF Outlives
<1> QED
  BY <1>1, <1>2

-----------------------------------------------------------------------------
(* Entries                                                                   *)

\* The entries of commands.
LEMMA EntryIs ==
  ASSUME NEW c \in CommandRecords, NEW op \in {"Remember", "Upsert", "Delete", "RemoveMemory", "InsertTerm",
                                               "Connect", "Disconnect"},
         c.id \in Nodes,
         op \in {"Remember", "Upsert", "InsertTerm"} => c.text \in Texts,
         op \in {"Connect", "Disconnect"} => c.to \in Nodes,
         op = "Connect" => c.kind \in EdgeKinds
  PROVE  /\ Entry(op, c) \in LogEntries
         /\ Entry(op, c).op = op /\ Entry(op, c).id = c.id /\ Entry(op, c).text = c.text
<1>0. c = [op |-> c.op, id |-> c.id, to |-> c.to, ids |-> c.ids, text |-> c.text, kind |-> c.kind, n |-> c.n,
           flag |-> c.flag, req |-> c.req]
  BY DEF CommandRecords
<1>1. /\ c.id \in Nodes \union {0} /\ c.to \in Nodes \union {0} /\ c.ids \in SUBSET Nodes
      /\ c.text \in Texts \union {""} /\ c.kind \in EdgeKinds \union {""} /\ c.n \in Nat
      /\ c.flag \in BOOLEAN /\ c.req \in Nat
  BY DEF CommandRecords
<1> DEFINE p == [c EXCEPT !.op = op]
<1>2. Entry(op, c) = [p EXCEPT !.req = 0]
  BY DEF Entry
<1>3. p = [op |-> op, id |-> c.id, to |-> c.to, ids |-> c.ids, text |-> c.text, kind |-> c.kind, n |-> c.n,
           flag |-> c.flag, req |-> c.req]
  BY <1>0
<1> HIDE DEF p
<1>4. Entry(op, c) = [op |-> op, id |-> c.id, to |-> c.to, ids |-> c.ids, text |-> c.text, kind |-> c.kind,
                      n |-> c.n, flag |-> c.flag, req |-> 0]
  BY <1>2, <1>3
<1> DEFINE e == Entry(op, c)
<1>5. e = [op |-> op, id |-> c.id, to |-> c.to, ids |-> c.ids, text |-> c.text, kind |-> c.kind,
           n |-> c.n, flag |-> c.flag, req |-> 0]
  BY <1>4
<1> HIDE DEF e
<1>6. e \in LogEntries /\ e.op = op /\ e.id = c.id /\ e.text = c.text
  BY <1>1, <1>5 DEF LogEntries
<1> QED
  BY <1>6 DEF e

LEMMA ObservationIs ==
  ASSUME NEW c \in CommandRecords, c.text \in Texts
  PROVE  LET e == [Entry("Remember", c) EXCEPT !.id = Observation]
         IN e \in LogEntries /\ e.op = "Remember" /\ e.id = Observation
<1>0. c = [op |-> c.op, id |-> c.id, to |-> c.to, ids |-> c.ids, text |-> c.text, kind |-> c.kind, n |-> c.n,
           flag |-> c.flag, req |-> c.req]
  BY DEF CommandRecords
<1>1. /\ c.id \in Nodes \union {0} /\ c.to \in Nodes \union {0} /\ c.ids \in SUBSET Nodes
      /\ c.text \in Texts \union {""} /\ c.kind \in EdgeKinds \union {""} /\ c.n \in Nat
      /\ c.flag \in BOOLEAN /\ c.req \in Nat
  BY DEF CommandRecords
<1> DEFINE p == [c EXCEPT !.op = "Remember"]
<1> DEFINE q == [p EXCEPT !.req = 0]
<1> DEFINE e == [q EXCEPT !.id = Observation]
<1>2. [Entry("Remember", c) EXCEPT !.id = Observation] = e
  BY DEF Entry
<1>3. p = [op |-> "Remember", id |-> c.id, to |-> c.to, ids |-> c.ids, text |-> c.text, kind |-> c.kind, n |-> c.n,
           flag |-> c.flag, req |-> c.req]
  BY <1>0
<1> HIDE DEF p
<1>4. q = [op |-> "Remember", id |-> c.id, to |-> c.to, ids |-> c.ids, text |-> c.text, kind |-> c.kind,
           n |-> c.n, flag |-> c.flag, req |-> 0]
  BY <1>3
<1> HIDE DEF q
<1>5. e = [op |-> "Remember", id |-> Observation, to |-> c.to, ids |-> c.ids, text |-> c.text, kind |-> c.kind,
           n |-> c.n, flag |-> c.flag, req |-> 0]
  BY <1>4
<1> HIDE DEF e
<1>6. e \in LogEntries /\ e.op = "Remember" /\ e.id = Observation
  BY <1>1, <1>5, MindAssumption DEF LogEntries
<1> QED
  BY <1>2, <1>6

\* What is logged is written, with the snapshot of a rotation or without.
LEMMA LoggedIs ==
  ASSUME NEW es, Logged(es), NEW n, n = FoldLeft(Redone, mind, es), NEW t, Written(n, snapshot, log \o es, t)
  PROVE  mind' = n /\ Written(mind', snapshot', log', t)
<1> DEFINE long == Len(log) + Len(es) >= RotateAt
<1>1. mind' = n /\ snapshot' = (IF long THEN Snapshot(n) ELSE snapshot) /\ log' = (IF long THEN <<>> ELSE log \o es)
  BY DEF Logged
<1>2. CASE long
  <2>1. Written(n, Snapshot(n), <<>>, t)
    BY CheckpointWrites DEF Written
  <2> QED
    BY <1>1, <1>2, <2>1
<1>3. CASE ~long
  BY <1>1, <1>3
<1> QED
  BY <1>2, <1>3

\* One entry.
LEMMA LoggedOnce ==
  ASSUME Written(mind, snapshot, log, told), NEW e \in LogEntries, Logged(<<e>>), NEW t,
         Holds(Redone(mind, e), t), Holds(Redone(Disk(snapshot, log), e), t)
  PROVE  Written(mind', snapshot', log', t) /\ Outlives(mind, mind')
<1> DEFINE n == Redone(mind, e)
<1> DEFINE es == <<e>>
<1>1. Written(n, snapshot, log \o es, t) /\ n = FoldLeft(Redone, mind, es) /\ ArchivedToo(n, mind)
  BY LoggedWrites
<1>2. Logged(es)
  OBVIOUS
<1> HIDE DEF n, es
<1>3. mind' = n /\ Written(mind', snapshot', log', t)
  BY <1>1, <1>2, LoggedIs
<1> QED
  BY <1>1, <1>3 DEF Outlives

\* The entry of one memory, which then is as told no more.
LEMMA LoggedLoses ==
  ASSUME Written(mind, snapshot, log, told), NEW e \in LogEntries, Logged(<<e>>),
         e.op \in {"Remember", "Upsert", "Delete", "RemoveMemory"}
  PROVE  Written(mind', snapshot', log', Lost(told, e.id)) /\ Outlives(mind, mind')
<1> DEFINE d == Disk(snapshot, log)
<1>1. mind \in Engines /\ Holds(mind, told) /\ d \in Engines /\ Holds(d, told)
  BY DEF Written, Holds
<1> DEFINE t == Lost(told, e.id)
<1>2. Holds(Redone(mind, e), t) /\ Holds(Redone(d, e), t)
  BY <1>1, RedoneHolds
<1> HIDE DEF t
<1>3. Written(mind', snapshot', log', t) /\ Outlives(mind, mind')
  BY <1>2, LoggedOnce
<1> QED
  BY <1>3 DEF t

\* An edge is made or cut: nothing is told or forgotten.
LEMMA LoggedLinks ==
  ASSUME Written(mind, snapshot, log, told), NEW e \in LogEntries, Logged(<<e>>),
         e.op \in {"Connect", "Disconnect"}
  PROVE  Written(mind', snapshot', log', told) /\ Outlives(mind, mind')
<1> DEFINE d == Disk(snapshot, log)
<1>1. mind \in Engines /\ Holds(mind, told) /\ d \in Engines /\ Holds(d, told)
  BY DEF Written, Holds
<1>2. Holds(Redone(mind, e), told) /\ Holds(Redone(d, e), told)
  BY <1>1, RedoneHolds
<1> QED
  BY <1>2, LoggedOnce

\* A memory: its record and row, and its term.
LEMMA LoggedMemory ==
  ASSUME Written(mind, snapshot, log, told), NEW e \in LogEntries, NEW f \in LogEntries, Logged(<<e, f>>),
         e.op = "Remember", f.op = "InsertTerm", e.id = f.id, e.text = f.text
  PROVE  Written(mind', snapshot', log', Entered(told, e.id, e.text)) /\ Outlives(mind, mind')
<1> DEFINE n == Redone(Redone(mind, e), f)
<1> DEFINE es == <<e, f>>
<1> DEFINE t == Entered(told, e.id, e.text)
<1>1. Written(n, snapshot, log \o es, t) /\ n = FoldLeft(Redone, mind, es) /\ ArchivedToo(n, mind)
  BY MemoryWrites
<1>2. Logged(es)
  OBVIOUS
<1> HIDE DEF n, es, t
<1>3. mind' = n /\ Written(mind', snapshot', log', t)
  BY <1>1, <1>2, LoggedIs
<1> QED
  BY <1>1, <1>3 DEF Outlives, t

-----------------------------------------------------------------------------
(* Commands                                                                 *)

\* What a step of the running program makes of the memories.
Carries ==
    /\ Written(mind', snapshot', log', told') /\ Outlives(mind, mind')
    /\ identity' \in Identities
    /\ mode = "serve" => Indexes(corpus', told', misled')

\* What a running program has.
LEMMA UpHas ==
  ASSUME MemoryIsKept, Up
  PROVE  /\ Written(mind, snapshot, log, told) /\ mind \in Engines /\ Holds(mind, told)
         /\ identity \in Identities /\ (mode = "serve" => Indexes(corpus, told, misled))
BY DEF MemoryIsKept, Written, Holds

\* Texts enter the search engine and leave it as they are told and forgotten.
LEMMA Indexing ==
  /\ \A f, t, w, id : Indexes(f, t, w) => Indexes(f, Lost(t, id), w)
  /\ \A f, t, w, id : Indexes(f, t, w) => Indexes(Lost(f, id), Lost(t, id), w \ {id})
  /\ \A f, t, w, id, x : Indexes(f, t, w) => Indexes(Entered(f, id, x), Entered(t, id, x), w \ {id})
  /\ \A f, t, w, id, x : Indexes(f, t, w) => Indexes(Entered(f, id, x), t, w \union {id})
<1>1. \A f, t, w, id : Indexes(f, t, w) => Indexes(f, Lost(t, id), w)
  BY DEF Indexes, Lost
<1>2. \A f, t, w, id : Indexes(f, t, w) => Indexes(Lost(f, id), Lost(t, id), w \ {id})
  BY DEF Indexes, Lost
<1>3. \A f, t, w, id, x : Indexes(f, t, w) => Indexes(Entered(f, id, x), Entered(t, id, x), w \ {id})
  BY DEF Indexes, Entered
<1>4. \A f, t, w, id, x : Indexes(f, t, w) => Indexes(Entered(f, id, x), t, w \union {id})
  BY DEF Indexes, Entered
<1> QED
  BY <1>1, <1>2, <1>3, <1>4

LEMMA ForgetLoses == \A id : Forget(id) = Lost(told, id)
BY DEF Forget, Lost

LEMMA DreamtIs ==
  ASSUME NEW intensity, identity \in Identities
  PROVE  Dreamt(intensity) \in Identities
<1> DEFINE p == [identity EXCEPT !.tier = Tier(intensity)]
<1> DEFINE h == IF identity.heat > HeatDreamCool THEN identity.heat - HeatDreamCool ELSE 0
<1>1. Dreamt(intensity) = [p EXCEPT !.heat = h]
  BY DEF Dreamt
<1>2. h \in 0 .. MaxHeat
  BY MindAssumption DEF Identities
<1>3. Tier(intensity) \in {"Minimal", "Moderate", "Full"}
  BY DEF Tier
<1>4. p \in Identities
  BY <1>3 DEF Identities
<1> HIDE DEF p, h
<1>5. [p EXCEPT !.heat = h] \in Identities
  BY <1>2, <1>4 DEF Identities
<1> QED
  BY <1>1, <1>5

\* Each thing the program may do carries on what was told.
LEMMA DreamCarries ==
  ASSUME MemoryIsKept, Up, NEW intensity, Dream(intensity), UNCHANGED <<corpus, misled, told>>
  PROVE  Carries
<1>1. PICK n \in Dreams(mind, intensity) : mind' = n /\ UNCHANGED <<snapshot, log>>
  BY DEF Dream, Unlogged
<1>2. Written(n, snapshot, log, told) /\ Survived(mind, n)
  BY UpHas, DreamWrites
<1>3. identity' \in Identities
  BY UpHas, DreamtIs DEF Dream
<1> QED
  BY <1>1, <1>2, <1>3, UpHas DEF Carries, Outlives

\* What changes no state.
LEMMA KeptCarries ==
  ASSUME MemoryIsKept, Up, NEW n, Kept(mind, n), mind' = n, UNCHANGED <<snapshot, log, corpus, misled, told>>,
         identity' \in Identities
  PROVE  Carries
<1>1. Written(n, snapshot, log, told) /\ ArchivedToo(n, mind)
  BY UpHas, KeptWrites
<1> QED
  BY <1>1, UpHas DEF Carries, Outlives

LEMMA KeystoneCarries ==
  ASSUME MemoryIsKept, Up, NEW id, Unlogged(With(mind, {id}, LAMBDA r : [r EXCEPT !.keystone = ~@])),
         UNCHANGED <<corpus, misled, identity, told>>
  PROVE  Carries
<1> DEFINE n == With(mind, {id}, LAMBDA r : [r EXCEPT !.keystone = ~@])
<1>1. Kept(mind, n)
  BY UpHas, KeystoneKeeps
<1>2. mind' = n /\ UNCHANGED <<snapshot, log>>
  BY DEF Unlogged
<1> HIDE DEF n
<1> QED
  BY <1>1, <1>2, UpHas, KeptCarries

LEMMA TouchCarries ==
  ASSUME MemoryIsKept, Up, NEW id, Unlogged(With(mind, {id}, OnRecall)), UNCHANGED <<corpus, misled, identity, told>>
  PROVE  Carries
<1> DEFINE n == With(mind, {id}, OnRecall)
<1>1. Kept(mind, n)
  BY UpHas, TouchKeeps
<1>2. mind' = n /\ UNCHANGED <<snapshot, log>>
  BY DEF Unlogged
<1> HIDE DEF n
<1> QED
  BY <1>1, <1>2, UpHas, KeptCarries

LEMMA SelfIs ==
  ASSUME MemoryIsKept, Up
  PROVE  Self \in Selves(mind)
BY UpHas, KeepsItself DEF Self, Selves

LEMMA BecomesCarries ==
  ASSUME MemoryIsKept, Up, NEW s \in Selves(mind), Becomes(s), UNCHANGED <<corpus, misled, told>>
  PROVE  Carries
<1>1. Kept(mind, s.mind) /\ s.identity \in Identities
  BY DEF Selves
<1>2. mind' = s.mind /\ identity' = s.identity /\ UNCHANGED <<snapshot, log>>
  BY DEF Becomes, Unlogged
<1> QED
  BY <1>1, <1>2, KeptCarries

LEMMA RecallCarries ==
  ASSUME MemoryIsKept, Up, NEW ids, Recall(ids), UNCHANGED <<corpus, misled, told>>
  PROVE  Carries
<1>1. PICK temporal \in BOOLEAN : Becomes(Recalled(Self, ids, temporal))
  BY DEF Recall
<1> DEFINE s == Recalled(Self, ids, temporal)
<1>2. s \in Selves(mind)
  BY UpHas, SelfIs, RecalledIs
<1>3. Becomes(s)
  BY <1>1
<1> HIDE DEF s
<1> QED
  BY <1>2, <1>3, BecomesCarries

LEMMA RememberCarries ==
  ASSUME MemoryIsKept, Up, NEW c \in CommandRecords, c.op = "remember",
         Remember(c, TRUE) \/ Remember(c, FALSE)
  PROVE  Carries
<1>1. identity' \in Identities /\ (mode = "serve" => corpus' = Entered(corpus, c.id, c.text))
  BY UpHas DEF Remember
<1>2. CASE Remember(c, TRUE)
  <2> DEFINE e == Entry("Remember", c)
  <2> DEFINE f == Entry("InsertTerm", c)
  <2>1. c.id \in Nodes /\ c.text \in Texts
    BY DEF CommandRecords
  <2>2. /\ e \in LogEntries /\ f \in LogEntries /\ e.op = "Remember" /\ f.op = "InsertTerm"
        /\ e.id = c.id /\ f.id = c.id /\ e.text = c.text /\ f.text = c.text
    BY <2>1, EntryIs
  <2>3. Logged(<<e, f>>) /\ told' = Entered(told, c.id, c.text) /\ misled' = misled \ {c.id}
    BY <1>2 DEF Remember
  <2> HIDE DEF e, f
  <2>4. Written(mind', snapshot', log', Entered(told, e.id, e.text)) /\ Outlives(mind, mind')
    BY <2>2, <2>3, UpHas, LoggedMemory
  <2>5. Entered(told, e.id, e.text) = told'
    BY <2>2, <2>3
  <2>6. mode = "serve" => Indexes(corpus', told', misled')
    BY <1>1, <2>3, UpHas, Indexing
  <2> QED
    BY <1>1, <2>4, <2>5, <2>6 DEF Carries
<1>3. CASE Remember(c, FALSE)
  <2>1. UNCHANGED <<mind, snapshot, log, told>>
    BY <1>3 DEF Remember
  <2>2. misled' = misled \union {c.id}
    BY <1>3 DEF Remember
  <2>3. mode = "serve" => Indexes(corpus', told, misled')
    BY <1>1, <2>2, UpHas, Indexing
  <2> QED
    BY <1>1, <2>1, <2>3, UpHas, ArchivedItself DEF Carries, Outlives
<1> QED
  BY <1>2, <1>3

LEMMA ConferCarries ==
  ASSUME MemoryIsKept, Up, NEW c \in CommandRecords, c.op = "confer", Confer(c)
  PROVE  Carries
<1> DEFINE e == [Entry("Remember", c) EXCEPT !.id = Observation]
<1>1. c.text \in Texts
  BY DEF CommandRecords
<1>2. e \in LogEntries /\ e.op = "Remember" /\ e.id = Observation
  BY <1>1, ObservationIs
<1>3. Logged(<<e>>) /\ told' = Lost(told, Observation) /\ UNCHANGED <<corpus, misled, identity>>
  BY ForgetLoses DEF Confer
<1> HIDE DEF e
<1>4. Written(mind', snapshot', log', Lost(told, e.id)) /\ Outlives(mind, mind')
  BY <1>2, <1>3, UpHas, LoggedLoses
<1>5. mode = "serve" => Indexes(corpus', told', misled')
  BY <1>3, UpHas, Indexing
<1> QED
  BY <1>2, <1>3, <1>4, <1>5, UpHas DEF Carries

LEMMA DeleteCarries ==
  ASSUME MemoryIsKept, Up, NEW c \in CommandRecords, c.op = "delete", Delete(c)
  PROVE  Carries
<1>1. c.id \in Nodes
  BY DEF CommandRecords
<1>2. /\ told' = Lost(told, c.id) /\ identity' = identity /\ corpus' = Lost(corpus, c.id)
      /\ misled' = misled \ {c.id}
  BY ForgetLoses DEF Delete, Lost
<1>3. mode = "serve" => Indexes(corpus', told', misled')
  BY <1>2, UpHas, Indexing
<1>4. CASE c.id \in mind.rows
  <2> DEFINE e == Entry("RemoveMemory", c)
  <2>1. e \in LogEntries /\ e.op = "RemoveMemory" /\ e.id = c.id
    BY <1>1, EntryIs
  <2>2. Logged(<<e>>)
    BY <1>4 DEF Delete
  <2> HIDE DEF e
  <2>3. Written(mind', snapshot', log', Lost(told, e.id)) /\ Outlives(mind, mind')
    BY <2>1, <2>2, UpHas, LoggedLoses
  <2> QED
    BY <1>2, <1>3, <2>1, <2>3, UpHas DEF Carries
<1>5. CASE c.id \notin mind.rows
  <2>1. mind' = Dropped(mind, c.id) /\ UNCHANGED <<snapshot, log>>
    BY <1>5 DEF Delete, Unlogged
  <2>2. Written(Dropped(mind, c.id), snapshot, log, Lost(told, c.id)) /\ ArchivedToo(Dropped(mind, c.id), mind)
    BY <1>1, UpHas, DropWrites
  <2> QED
    BY <1>2, <1>3, <2>1, <2>2, UpHas DEF Carries, Outlives
<1> QED
  BY <1>4, <1>5

LEMMA LinkCarries ==
  ASSUME MemoryIsKept, Up, NEW c \in CommandRecords, c.op \in {"connect", "disconnect"}, Link(c)
  PROVE  Carries
<1> DEFINE op == IF c.op = "connect" THEN "Connect" ELSE "Disconnect"
<1> DEFINE e == Entry(op, c)
<1>1. c.id \in Nodes /\ c.to \in Nodes /\ (op = "Connect" => c.kind \in EdgeKinds) /\ op \in {"Connect", "Disconnect"}
  BY DEF CommandRecords
<1>2. Logged(<<e>>) /\ UNCHANGED <<corpus, misled, identity, told>>
  BY DEF Link
<1> HIDE DEF op
<1>3. e \in LogEntries /\ e.op = op
  BY <1>1, EntryIs
<1> HIDE DEF e
<1>4. Written(mind', snapshot', log', told) /\ Outlives(mind, mind')
  BY <1>1, <1>2, <1>3, UpHas, LoggedLinks
<1> QED
  BY <1>2, <1>4, UpHas DEF Carries

LEMMA CheckpointCarries ==
  ASSUME MemoryIsKept, Up, Checkpointed, UNCHANGED <<mind, corpus, misled, identity, told>>
  PROVE  Carries
<1>1. Written(mind, Snapshot(mind), <<>>, told)
  BY UpHas, CheckpointWrites
<1>2. snapshot' = Snapshot(mind) /\ log' = <<>>
  BY DEF Checkpointed
<1> QED
  BY <1>1, <1>2, UpHas, ArchivedItself DEF Carries, Outlives

-----------------------------------------------------------------------------
(* The requests of the main thread                                          *)

Pendings == [req : Nat, ids : SUBSET Nodes, rx : {"empty", "sql", "dead"}]

\* Requests that wait are told apart by their numbers, which are those given
\* already; the recalls in the list are owed their answer.
Apart(left, q, p, o) ==
    /\ left \in Nat /\ q \in Seq(CommandRecords) /\ p \in Seq(Pendings)
    /\ \A i \in DOMAIN q : q[i].req > left
    /\ \A i \in DOMAIN p : p[i].req > left
    /\ \A i, j \in DOMAIN q : q[i].req = q[j].req => i = j
    /\ \A i, j \in DOMAIN p : p[i].req = p[j].req => i = j
    /\ \A i \in DOMAIN q, j \in DOMAIN p : q[i].req # p[j].req
    /\ o = {p[i].req : i \in DOMAIN p}

RequestsAreApart == "requests" \in DOMAIN job /\ Apart(job["requests"], queue, pending, owed)

\* The command that is next.
LEMMA HeadIs ==
  ASSUME RequestsAreApart, queue # <<>>
  PROVE  Head(queue) \in CommandRecords
BY DEF RequestsAreApart, Apart

LEMMA CarriesOn ==
  ASSUME MemoryIsKept, Carries, mode' = mode, pc' \in Running, pc' = "line" => mode = "repl"
  PROVE  MemoryIsKept' /\ Outlives(mind, mind')
BY MovesOn DEF Carries

\* A command, a line and the recalls that have their answer keep the memories.
LEMMA ServeKeeps ==
  ASSUME MemoryIsKept, RequestsAreApart, Serve
  PROVE  MemoryIsKept' /\ Outlives(mind, mind')
<1> DEFINE c == Head(queue)
<1>1. c \in CommandRecords
  BY HeadIs DEF Serve
<1>2. pc = "http" /\ Up /\ pc' = pc /\ mode' = mode
  BY DEF Serve, Up
<1>3. \/ Execute(c)
      \/ c.op = "delete" /\ Delete(c)
      \/ c.op = "confer" /\ Confer(c)
      \/ Recall(c.ids) /\ UNCHANGED <<corpus, misled, told>>
  BY DEF Serve
<1> HIDE DEF c
<1>4. Carries
  <2>1. CASE Execute(c)
    <3>1. CASE c.op = "remember" /\ (Remember(c, TRUE) \/ Remember(c, FALSE))
      BY <1>1, <1>2, <3>1, RememberCarries
    <3>2. CASE Dream(c.n) /\ UNCHANGED <<corpus, misled, told>>
      BY <1>2, <3>2, DreamCarries
    <3>3. CASE Keystone(c)
      BY <1>2, <3>3, KeystoneCarries DEF Keystone
    <3>4. CASE c.op \in {"connect", "disconnect"} /\ Link(c)
      BY <1>1, <1>2, <3>4, LinkCarries
    <3>5. CASE Checkpoint
      BY <1>2, <3>5, CheckpointCarries DEF Checkpoint
    <3> QED
      BY <2>1, <3>1, <3>2, <3>3, <3>4, <3>5 DEF Execute
  <2>2. CASE c.op = "delete" /\ Delete(c)
    BY <1>1, <1>2, <2>2, DeleteCarries
  <2>3. CASE c.op = "confer" /\ Confer(c)
    BY <1>1, <1>2, <2>3, ConferCarries
  <2>4. CASE Recall(c.ids) /\ UNCHANGED <<corpus, misled, told>>
    BY <1>2, <2>4, RecallCarries
  <2> QED
    BY <1>3, <2>1, <2>2, <2>3, <2>4
<1>5. pc' \in Running /\ pc' # "line"
  BY <1>2 DEF Running
<1> QED
  BY <1>2, <1>4, <1>5, CarriesOn

LEMMA LineKeeps ==
  ASSUME MemoryIsKept, NEW c \in Commands, Line(c)
  PROVE  MemoryIsKept' /\ Outlives(mind, mind')
<1>1. c \in CommandRecords
  BY MindAssumption
<1>2. pc = "line" /\ Up /\ pc' = "top" /\ mode' = mode /\ mode = "repl" /\ UNCHANGED <<corpus, misled>>
  BY DEF Line, Goes, Up, MemoryIsKept
<1>3. \/ Dream(c.n) /\ UNCHANGED told
      \/ /\ Unlogged(With(mind, {c.id}, LAMBDA r : [r EXCEPT !.keystone = ~@]))
         /\ UNCHANGED <<identity, told>>
      \/ Unlogged(With(mind, {c.id}, OnRecall)) /\ UNCHANGED <<identity, told>>
      \/ Recall(c.ids) /\ UNCHANGED told
      \/ /\ c.op = "delete" /\ told' = Forget(c.id)
         /\ IF c.id \in mind.rows THEN Logged(<<Entry("Delete", c)>>) ELSE UNCHANGED <<mind, snapshot, log>>
         /\ UNCHANGED identity
      \/ /\ c.op = "remember"
         /\ \/ /\ Logged(<<Entry("Remember", c), Entry("InsertTerm", c)>>)
               /\ told' = Entered(told, c.id, c.text)
            \/ /\ Logged(<<Entry("Upsert", c)>>)
               /\ told' = Forget(c.id)
         /\ UNCHANGED identity
      \/ Checkpointed /\ UNCHANGED <<mind, identity, told>>
  BY DEF Line
<1>4. Carries
  <2>1. CASE Dream(c.n) /\ UNCHANGED told
    BY <1>2, <2>1, DreamCarries
  <2>2. CASE /\ Unlogged(With(mind, {c.id}, LAMBDA r : [r EXCEPT !.keystone = ~@]))
             /\ UNCHANGED <<identity, told>>
    BY <1>2, <2>2, KeystoneCarries
  <2>3. CASE Unlogged(With(mind, {c.id}, OnRecall)) /\ UNCHANGED <<identity, told>>
    BY <1>2, <2>3, TouchCarries
  <2>4. CASE Recall(c.ids) /\ UNCHANGED told
    BY <1>2, <2>4, RecallCarries
  <2>5. CASE /\ c.op = "delete" /\ told' = Forget(c.id)
             /\ IF c.id \in mind.rows THEN Logged(<<Entry("Delete", c)>>) ELSE UNCHANGED <<mind, snapshot, log>>
             /\ UNCHANGED identity
    <3>1. c.id \in Nodes /\ told' = Lost(told, c.id)
      BY <1>1, <2>5, ForgetLoses DEF CommandRecords
    <3>2. CASE c.id \in mind.rows
      <4> DEFINE e == Entry("Delete", c)
      <4>1. e \in LogEntries /\ e.op = "Delete" /\ e.id = c.id
        BY <1>1, <3>1, EntryIs
      <4>2. Logged(<<e>>)
        BY <2>5, <3>2
      <4> HIDE DEF e
      <4>3. Written(mind', snapshot', log', Lost(told, e.id)) /\ Outlives(mind, mind')
        BY <1>2, <4>1, <4>2, UpHas, LoggedLoses
      <4> QED
        BY <1>2, <2>5, <3>1, <4>1, <4>3, UpHas DEF Carries
    <3>3. CASE c.id \notin mind.rows
      <4>1. UNCHANGED <<mind, snapshot, log>>
        BY <2>5, <3>3
      <4>2. Written(mind, snapshot, log, Lost(told, c.id))
        BY <1>2, UpHas, FewerHold DEF Written
      <4> QED
        BY <1>2, <2>5, <3>1, <4>1, <4>2, UpHas, ArchivedItself DEF Carries, Outlives
    <3> QED
      BY <3>2, <3>3
  <2>6. CASE c.op = "remember" /\ UNCHANGED identity /\ Logged(<<Entry("Remember", c), Entry("InsertTerm", c)>>)
             /\ told' = Entered(told, c.id, c.text)
    <3> DEFINE e == Entry("Remember", c)
    <3> DEFINE f == Entry("InsertTerm", c)
    <3>1. c.id \in Nodes /\ c.text \in Texts
      BY <1>1, <2>6 DEF CommandRecords
    <3>2. /\ e \in LogEntries /\ f \in LogEntries /\ e.op = "Remember" /\ f.op = "InsertTerm"
          /\ e.id = c.id /\ f.id = c.id /\ e.text = c.text /\ f.text = c.text
      BY <1>1, <3>1, EntryIs
    <3>3. Logged(<<e, f>>)
      BY <2>6
    <3> HIDE DEF e, f
    <3>4. Written(mind', snapshot', log', Entered(told, e.id, e.text)) /\ Outlives(mind, mind')
      BY <1>2, <3>2, <3>3, UpHas, LoggedMemory
    <3>5. Entered(told, e.id, e.text) = told'
      BY <2>6, <3>2
    <3> QED
      BY <1>2, <2>6, <3>4, <3>5, UpHas DEF Carries
  <2>7. CASE c.op = "remember" /\ UNCHANGED identity /\ Logged(<<Entry("Upsert", c)>>) /\ told' = Forget(c.id)
    <3> DEFINE e == Entry("Upsert", c)
    <3>1. c.id \in Nodes /\ c.text \in Texts /\ told' = Lost(told, c.id)
      BY <1>1, <2>7, ForgetLoses DEF CommandRecords
    <3>2. e \in LogEntries /\ e.op = "Upsert" /\ e.id = c.id
      BY <1>1, <3>1, EntryIs
    <3>3. Logged(<<e>>)
      BY <2>7
    <3> HIDE DEF e
    <3>4. Written(mind', snapshot', log', Lost(told, e.id)) /\ Outlives(mind, mind')
      BY <1>2, <3>2, <3>3, UpHas, LoggedLoses
    <3> QED
      BY <1>2, <2>7, <3>1, <3>2, <3>4, UpHas DEF Carries
  <2>8. CASE Checkpointed /\ UNCHANGED <<mind, identity, told>>
    BY <1>2, <2>8, CheckpointCarries
  <2> QED
    BY <1>3, <2>1, <2>2, <2>3, <2>4, <2>5, <2>6, <2>7, <2>8
<1>5. pc' \in Running /\ pc' # "line"
  BY <1>2 DEF Running
<1> QED
  BY <1>2, <1>4, <1>5, CarriesOn

LEMMA RecallsKeep ==
  ASSUME MemoryIsKept, RequestsAreApart, Recalls
  PROVE  MemoryIsKept' /\ Outlives(mind, mind')
<1> DEFINE done == {i \in DOMAIN pending : Finished(pending[i])}
<1> DEFINE l == [i \in DOMAIN pending |-> i]
<1> DEFINE answered == Chosen(l, {i \in done : pending[i].rx = "sql"})
<1>1. pc = "recalls" /\ Up /\ pc' = "top" /\ UNCHANGED <<mode, corpus, misled, told>>
  BY DEF Recalls, Goes, Up
<1>2. PICK temporal \in [done -> BOOLEAN] :
        Becomes(RecalledInTurn(Self, pending, temporal, answered))
  BY DEF Recalls
<1>3. l \in Seq(DOMAIN pending)
  <2>1. pending \in Seq(Pendings)
    BY DEF RequestsAreApart, Apart
  <2>2. DOMAIN pending = 1 .. Len(pending) /\ Len(pending) \in Nat
    BY <2>1
  <2> QED
    BY <2>2
<1> DEFINE A == DOMAIN pending \intersect {i \in done : pending[i].rx = "sql"}
<1> HIDE DEF l
<1>4. answered \in Seq(A)
  BY <1>3, ChosenIs
<1> HIDE DEF answered, A, done
<1>5. mind \in Engines /\ Self \in Selves(mind)
  BY <1>1, SelfIs, UpHas
<1>6. RecalledInTurn(Self, pending, temporal, answered) \in Selves(mind)
  BY <1>4, <1>5, RecallsAre
<1> DEFINE s == RecalledInTurn(Self, pending, temporal, answered)
<1>7. s \in Selves(mind) /\ Becomes(s)
  BY <1>2, <1>6
<1> HIDE DEF s
<1>8. Carries
  BY <1>1, <1>7, BecomesCarries
<1>9. pc' \in Running /\ pc' # "line"
  BY <1>1 DEF Running
<1> QED
  BY <1>1, <1>8, <1>9, CarriesOn

-----------------------------------------------------------------------------
(* Starts and stops                                                          *)

\* Before the first start there is no memory, and nobody.
LEMMA NoMindIs == NoMind \in Engines /\ TermsAreStored(NoMind)
<1>1. /\ NoMind.rows = {} /\ NoMind.text = <<>> /\ NoMind.records = <<>> /\ NoMind.graph = NoGraph
      /\ NoMind.tree = {}
  BY DEF NoMind
<1>2. DOMAIN <<>> = {}
  OBVIOUS
<1>3. <<>> = [id \in {} |-> NoMind.text[id]]
  BY <1>2
<1>4. <<>> = [id \in {} |-> NoMind.records[id]]
  BY <1>2
<1>5. NoMind = [rows |-> NoMind.rows, text |-> [id \in NoMind.rows |-> NoMind.text[id]],
                records |-> [id \in DOMAIN NoMind.records |-> NoMind.records[id]], graph |-> NoMind.graph,
                tree |-> NoMind.tree]
  BY <1>1, <1>2, <1>3, <1>4 DEF NoMind
<1>6. IsMemory(NoMind)
  BY <1>1, <1>2, <1>5, NoGraphIsOne DEF IsMemory
<1> QED
  BY <1>1, <1>6, EnginesAre DEF TermsAreStored

LEMMA NobodyIs == NoIdentity \in Identities
BY MindAssumption DEF NoIdentity, Identities

\* A stop, a crash, a start and an hour that passes.
LEMMA StopKeeps ==
  ASSUME MemoryIsKept, Stop
  PROVE  MemoryIsKept' /\ Outlives(mind, mind')
<1>1. pc = "top" /\ Up /\ UNCHANGED <<mind, corpus, misled, identity, mode, told>>
  BY DEF Stop, Up
<1>2. Outlives(mind, mind')
  BY <1>1, ArchivedItself DEF Outlives
<1>3. CASE Checkpointed /\ pc' = "stopped"
  <2> DEFINE s == Snapshot(mind)
  <2>1. Written(mind, s, <<>>, told)
    BY <1>1, UpHas, CheckpointWrites
  <2>2. snapshot' = s /\ log' = <<>>
    BY <1>3 DEF Checkpointed
  <2>3. Filed(mind', snapshot', log', told')
    BY <1>1, <2>1, <2>2, WrittenFiles
  <2>4. ~Up'
    BY <1>3 DEF Up
  <2>5. snapshot' = Snapshot(mind)'
    BY <1>1, <2>2
  <2> QED
    BY <1>1, <1>2, <1>3, <2>2, <2>3, <2>4, <2>5 DEF MemoryIsKept
<1>4. CASE pc' = "failed" /\ UNCHANGED <<snapshot, log>>
  BY <1>1, <1>2, <1>4 DEF MemoryIsKept, Up
<1> QED
  BY <1>3, <1>4 DEF Stop, Goes

LEMMA CrashKeeps ==
  ASSUME MemoryIsKept, Crash
  PROVE  MemoryIsKept' /\ Outlives(mind, mind')
<1>1. /\ pc' = "down" /\ mind' = NoMind /\ identity' = NoIdentity
      /\ UNCHANGED <<snapshot, log, mode, told>>
  BY DEF Crash, Goes
<1>2. DOMAIN NoMind.records = {}
  BY DEF NoMind
<1>3. Filed(NoMind, snapshot, log, told)
  BY <1>2, NoMindIs DEF MemoryIsKept, Filed, ArchivedToo
<1>4. Outlives(mind, mind')
  BY <1>1, <1>2 DEF Outlives, ArchivedToo
<1>5. ~Up'
  BY <1>1 DEF Up
<1> QED
  BY <1>1, <1>3, <1>4, <1>5, NobodyIs DEF MemoryIsKept

LEMMA StartKeeps ==
  ASSUME MemoryIsKept, NEW m \in {"serve", "repl"}, Start(m)
  PROVE  MemoryIsKept' /\ Outlives(mind, mind')
<1> DEFINE d == Disk(snapshot, log)
<1>1. /\ pc' = "top" /\ mode' = m /\ mind' = d /\ identity' = NoIdentity /\ UNCHANGED <<snapshot, log, told>>
      /\ misled' = {} /\ (m = "serve" => corpus' = Indexed(d))
  BY DEF Start, Goes, OnDisk, Disk
<1>2. /\ Holds(d, told) /\ ArchivedToo(d, mind) /\ snapshot \in Engines /\ log \in Seq(LogEntries)
  BY DEF MemoryIsKept, Filed
<1>3. Written(d, snapshot, log, told)
  BY <1>2, ArchivedItself DEF Written
<1>30. d = Disk(snapshot, log)
  OBVIOUS
<1> HIDE DEF d
<1>4. Indexes(Indexed(d), told, {})
  BY <1>2 DEF Holds, Indexes, Indexed
<1>5. Written(mind', snapshot', log', told')
  BY <1>1, <1>3
<1>6. mode' = "serve" => Indexes(corpus', told', misled')
  BY <1>1, <1>4
<1>7. Filed(mind', snapshot', log', told')
  BY <1>5, WrittenFiles
<1>8. Outlives(mind, mind')
  BY <1>1, <1>2 DEF Outlives
<1> QED
  BY <1>1, <1>5, <1>6, <1>7, <1>8, NobodyIs DEF MemoryIsKept, Running

LEMMA AgeIsKept ==
  ASSUME MemoryIsKept, Age
  PROVE  MemoryIsKept' /\ Outlives(mind, mind')
<1> DEFINE n == With(mind, DOMAIN mind.records, LAMBDA r : [r EXCEPT !.stale = AtMost(@ + 1, 2)])
<1>1. Up /\ mind' = n /\ identity' = [identity EXCEPT !.heat = 0]
      /\ UNCHANGED <<snapshot, log, corpus, misled, pc, mode, told>>
  BY DEF Age
<1>2. Kept(mind, n)
  BY <1>1, UpHas, AgeKeeps
<1> HIDE DEF n
<1>3. identity' \in Identities
  BY <1>1, UpHas, MindAssumption DEF Identities
<1>4. Carries
  BY <1>1, <1>2, <1>3, KeptCarries
<1>5. pc' \in Running /\ (pc' = "line" => mode = "repl")
  BY <1>1, UpIsRunning DEF MemoryIsKept
<1> QED
  BY <1>1, <1>4, <1>5, CarriesOn

\* Every step of the main thread, and every step of the program.
LEMMA MainKeeps ==
  ASSUME MemoryIsKept, RequestsAreApart, MainStep
  PROVE  MemoryIsKept' /\ Outlives(mind, mind')
<1>1. CASE Round
  BY <1>1, MovesOnly DEF Round, Up, Goes, Running
<1>2. CASE Stop
  BY <1>2, StopKeeps
<1>3. CASE DreamOfTheClock
  <2>1. Up /\ UNCHANGED <<corpus, misled, told, pc, mode>> /\ pc = "clock"
    BY <1>3 DEF DreamOfTheClock, Up
  <2> DEFINE intensity == Head(clock_events)
  <2>2. Dream(intensity)
    BY <1>3 DEF DreamOfTheClock
  <2> HIDE DEF intensity
  <2>3. Carries
    BY <2>1, <2>2, DreamCarries
  <2> QED
    BY <2>1, <2>3, CarriesOn DEF Running
<1>4. CASE ClockDrained
  <2>1. /\ Up /\ UNCHANGED <<mind, snapshot, log, corpus, misled, identity, mode, told>>
        /\ pc' = IF mode = "serve" THEN "http" ELSE "line"
    BY <1>4 DEF ClockDrained, Up, Goes
  <2>2. mode \in {"serve", "repl"}
    BY DEF MemoryIsKept
  <2> QED
    BY <2>1, <2>2, MovesOnly DEF Running
<1>5. CASE Serve
  BY <1>5, ServeKeeps
<1>6. CASE Defer
  BY <1>6, StaysPut DEF Defer
<1>7. CASE CommandsDrained
  BY <1>7, MovesOnly DEF CommandsDrained, Up, Goes, Running
<1>8. CASE Recalls
  BY <1>8, RecallsKeep
<1>9. CASE NoLine
  BY <1>9, MovesOnly DEF NoLine, Up, Goes, Running
<1> QED
  BY <1>1, <1>2, <1>3, <1>4, <1>5, <1>6, <1>7, <1>8, <1>9 DEF MainStep

LEMMA LoopKeeps ==
  ASSUME MemoryIsKept, RequestsAreApart, [LoopNext]_vars
  PROVE  MemoryIsKept' /\ Outlives(mind, mind')
<1>1. CASE MainStep
  BY <1>1, MainKeeps
<1>2. CASE \E c \in Commands : Request(c) \/ Line(c)
  <2>1. CASE \E c \in Commands : Request(c)
    BY <2>1, StaysPut DEF Request
  <2>2. CASE \E c \in Commands : Line(c)
    BY <2>2, LineKeeps
  <2> QED
    BY <1>2, <2>1, <2>2
<1>3. CASE TimesOut
  BY <1>3, StaysPut DEF TimesOut
<1>4. CASE PlannerEnds
  BY <1>4, StaysPut DEF PlannerEnds
<1>5. CASE Signal
  BY <1>5, StaysPut DEF Signal
<1>6. CASE Crash
  BY <1>6, CrashKeeps
<1>7. CASE ClockTicks
  BY <1>7, StaysPut DEF ClockTicks, loop_vars
<1>8. CASE Age
  BY <1>8, AgeIsKept
<1>9. CASE \E m \in {"serve", "repl"} : Start(m)
  BY <1>9, StartKeeps
<1>10. CASE UNCHANGED vars
  BY <1>10, StaysPut DEF vars, loop_vars
<1> QED
  BY <1>1, <1>2, <1>3, <1>4, <1>5, <1>6, <1>7, <1>8, <1>9, <1>10 DEF LoopNext

LEMMA InitKeeps ==
  ASSUME LoopInit
  PROVE  MemoryIsKept
<1>1. snapshot \in Engines /\ TermsAreStored(snapshot)
  BY MindAssumption, EnginesAre DEF LoopInit
<1>2. /\ log = <<>> /\ mind = NoMind /\ identity = NoIdentity /\ pc = "down" /\ mode = "serve"
  BY DEF LoopInit
<1>3. log \in Seq(LogEntries) /\ Disk(snapshot, log) = snapshot
  BY <1>1, <1>2, RedoneEmpty DEF Disk
<1>4. Holds(snapshot, told)
  BY <1>1 DEF LoopInit, Holds
<1>5. DOMAIN NoMind.records = {}
  BY DEF NoMind
<1>6. ArchivedToo(snapshot, mind)
  BY <1>2, <1>5 DEF ArchivedToo
<1>7. Filed(mind, snapshot, log, told)
  BY <1>1, <1>2, <1>3, <1>4, <1>6, NoMindIs DEF Filed
<1>8. ~Up
  BY <1>2 DEF Up
<1> QED
  BY <1>2, <1>7, <1>8, NobodyIs DEF MemoryIsKept

-----------------------------------------------------------------------------
(* Requests                                                                  *)

\* Other bounds leave the numbers alone.
LEMMA BoundedNumbers ==
  ASSUME RequestsAreApart, NEW what, Bounded(what), what # "requests"
  PROVE  "requests" \in DOMAIN job' /\ job'["requests"] = job["requests"]
BY DEF RequestsAreApart, Bounded

\* No request waits.
LEMMA NoneApart ==
  ASSUME NEW left \in Nat
  PROVE  Apart(left, <<>>, <<>>, {})
<1>1. DOMAIN <<>> = {} /\ <<>> \in Seq(CommandRecords) /\ <<>> \in Seq(Pendings)
  OBVIOUS
<1> DEFINE l == <<>>
<1>2. {l[i].req : i \in DOMAIN l} = {}
  BY <1>1
<1> QED
  BY <1>1, <1>2 DEF Apart

\* The tail of a sequence and a sequence with one more.
LEMMA TailIs ==
  ASSUME NEW A, NEW s \in Seq(A), s # <<>>
  PROVE  /\ Tail(s) \in Seq(A) /\ Head(s) = s[1] /\ 1 \in DOMAIN s
         /\ \A i \in DOMAIN Tail(s) : i + 1 \in DOMAIN s /\ Tail(s)[i] = s[i + 1] /\ i + 1 # 1 /\ i \in Int
<1> DEFINE t == Tail(s)
<1>1. t \in Seq(A) /\ Len(s) \in Nat /\ Len(s) >= 1 /\ Len(t) = Len(s) - 1 /\ Head(s) = s[1]
  OBVIOUS
<1>2. \A i \in 1 .. Len(t) : t[i] = s[i + 1]
  OBVIOUS
<1>3. DOMAIN t = 1 .. Len(t) /\ DOMAIN s = 1 .. Len(s)
  BY <1>1
<1> HIDE DEF t
<1>4. \A i \in DOMAIN t : i + 1 \in DOMAIN s /\ t[i] = s[i + 1] /\ i + 1 # 1 /\ i \in Int
  BY <1>1, <1>2, <1>3
<1> QED
  BY <1>1, <1>3, <1>4 DEF t

LEMMA AppendIs ==
  ASSUME NEW A, NEW s \in Seq(A), NEW e \in A
  PROVE  /\ Append(s, e) \in Seq(A) /\ DOMAIN Append(s, e) = DOMAIN s \union {Len(s) + 1}
         /\ Len(s) + 1 \notin DOMAIN s /\ Append(s, e)[Len(s) + 1] = e
         /\ \A i \in DOMAIN s : Append(s, e)[i] = s[i]
<1> DEFINE t == Append(s, e)
<1>1. /\ t \in Seq(A) /\ Len(t) = Len(s) + 1 /\ Len(s) \in Nat /\ t[Len(s) + 1] = e
      /\ \A i \in 1 .. Len(s) : t[i] = s[i]
  BY AppendProperties
<1>2. DOMAIN t = 1 .. Len(t) /\ DOMAIN s = 1 .. Len(s)
  BY <1>1
<1> HIDE DEF t
<1>3. DOMAIN t = DOMAIN s \union {Len(s) + 1} /\ Len(s) + 1 \notin DOMAIN s
  BY <1>1, <1>2
<1> QED
  BY <1>1, <1>2, <1>3 DEF t

\* The head has been taken.
LEMMA ServedApart ==
  ASSUME NEW left, NEW q, NEW p, NEW o, Apart(left, q, p, o), q # <<>>
  PROVE  /\ Apart(left, Tail(q), p, o)
         /\ Head(q) \in CommandRecords /\ Head(q).req > left
         /\ \A i \in DOMAIN Tail(q) : Tail(q)[i].req # Head(q).req
         /\ \A i \in DOMAIN p : p[i].req # Head(q).req
<1>1. /\ left \in Nat /\ q \in Seq(CommandRecords) /\ p \in Seq(Pendings)
      /\ \A i \in DOMAIN q : q[i].req > left
      /\ \A i \in DOMAIN p : p[i].req > left
      /\ \A i, j \in DOMAIN q : q[i].req = q[j].req => i = j
      /\ \A i, j \in DOMAIN p : p[i].req = p[j].req => i = j
      /\ \A i \in DOMAIN q, j \in DOMAIN p : q[i].req # p[j].req
      /\ o = {p[i].req : i \in DOMAIN p}
  BY DEF Apart
<1> DEFINE t == Tail(q)
<1>2. /\ t \in Seq(CommandRecords) /\ Head(q) = q[1] /\ 1 \in DOMAIN q
      /\ \A i \in DOMAIN t : i + 1 \in DOMAIN q /\ t[i] = q[i + 1] /\ i + 1 # 1 /\ i \in Int
  BY <1>1, TailIs
<1>3. Head(q) \in CommandRecords
  BY <1>1
<1> HIDE DEF t
<1>4. \A i \in DOMAIN t : t[i].req > left
  BY <1>1, <1>2
<1>5. ASSUME NEW i \in DOMAIN t, NEW j \in DOMAIN t, t[i].req = t[j].req
      PROVE  i = j
  <2>1. i + 1 \in DOMAIN q /\ j + 1 \in DOMAIN q /\ q[i + 1].req = q[j + 1].req /\ i \in Int /\ j \in Int
    BY <1>2, <1>5
  <2>2. i + 1 = j + 1
    BY <1>1, <2>1
  <2> QED
    BY <2>1, <2>2
<1>6. \A i \in DOMAIN t, j \in DOMAIN p : t[i].req # p[j].req
  BY <1>1, <1>2
<1>7. Apart(left, t, p, o)
  BY <1>1, <1>2, <1>4, <1>5, <1>6 DEF Apart
<1>8. \A i \in DOMAIN t : t[i].req # Head(q).req
  BY <1>1, <1>2
<1> QED
  BY <1>1, <1>2, <1>3, <1>7, <1>8 DEF t

\* A request gets a number no other has.
LEMMA RequestedApart ==
  ASSUME NEW left, NEW q, NEW p, NEW o, Apart(left, q, p, o), left > 0, NEW c \in CommandRecords
  PROVE  Apart(left - 1, Append(q, [c EXCEPT !.req = left]), p, o)
<1>1. /\ left \in Nat /\ q \in Seq(CommandRecords) /\ p \in Seq(Pendings)
      /\ \A i \in DOMAIN q : q[i].req > left
      /\ \A i \in DOMAIN p : p[i].req > left
      /\ \A i, j \in DOMAIN q : q[i].req = q[j].req => i = j
      /\ \A i, j \in DOMAIN p : p[i].req = p[j].req => i = j
      /\ \A i \in DOMAIN q, j \in DOMAIN p : q[i].req # p[j].req
      /\ o = {p[i].req : i \in DOMAIN p}
  BY DEF Apart
<1> DEFINE e == [c EXCEPT !.req = left]
<1> DEFINE t == Append(q, e)
<1> DEFINE k == Len(q) + 1
<1>2. e \in CommandRecords /\ e.req = left
  BY <1>1 DEF CommandRecords
<1> HIDE DEF e
<1>3. /\ t \in Seq(CommandRecords) /\ DOMAIN t = DOMAIN q \union {k} /\ k \notin DOMAIN q /\ t[k] = e
      /\ \A i \in DOMAIN q : t[i] = q[i]
  BY <1>1, <1>2, AppendIs
<1> HIDE DEF t, k
<1>4. \A i \in DOMAIN q : t[i].req > left
  BY <1>1, <1>3
<1>5. t[k].req = left
  BY <1>2, <1>3
<1>6. left - 1 \in Nat /\ left > left - 1 /\ \A x \in Nat : x > left => x > left - 1 /\ x # left
  BY <1>1
<1>7. \A i \in DOMAIN t : t[i] \in CommandRecords
  BY <1>3
<1>8. \A i \in DOMAIN t : t[i].req \in Nat
  BY <1>7 DEF CommandRecords
<1>9. ASSUME NEW i \in DOMAIN p PROVE p[i].req \in Nat
  <2>1. p[i] \in Pendings
    BY <1>1
  <2> QED
    BY <2>1 DEF Pendings
<1>10. \A i \in DOMAIN t : t[i].req > left - 1
  BY <1>3, <1>4, <1>5, <1>6, <1>8
<1>11. \A i \in DOMAIN p : p[i].req > left - 1
  BY <1>1, <1>6, <1>9
<1>12. \A i, j \in DOMAIN t : t[i].req = t[j].req => i = j
  BY <1>1, <1>3, <1>4, <1>5, <1>6, <1>8
<1>13. \A i \in DOMAIN t, j \in DOMAIN p : t[i].req # p[j].req
  BY <1>1, <1>3, <1>5, <1>6, <1>9
<1>14. Apart(left - 1, t, p, o)
  BY <1>1, <1>3, <1>6, <1>10, <1>11, <1>12, <1>13 DEF Apart
<1> QED
  BY <1>14 DEF t, e

\* Defer, after the head has been taken.
LEMMA DeferredApart ==
  ASSUME NEW left, NEW q, NEW p, NEW o, Apart(left, q, p, o), NEW e \in Pendings, e.req > left,
         \A i \in DOMAIN q : q[i].req # e.req, \A i \in DOMAIN p : p[i].req # e.req
  PROVE  Apart(left, q, Append(p, e), o \union {e.req})
<1>1. /\ left \in Nat /\ q \in Seq(CommandRecords) /\ p \in Seq(Pendings)
      /\ \A i \in DOMAIN q : q[i].req > left
      /\ \A i \in DOMAIN p : p[i].req > left
      /\ \A i, j \in DOMAIN q : q[i].req = q[j].req => i = j
      /\ \A i, j \in DOMAIN p : p[i].req = p[j].req => i = j
      /\ \A i \in DOMAIN q, j \in DOMAIN p : q[i].req # p[j].req
      /\ o = {p[i].req : i \in DOMAIN p}
  BY DEF Apart
<1> DEFINE t == Append(p, e)
<1> DEFINE k == Len(p) + 1
<1> DEFINE u == o \union {e.req}
<1>2. /\ t \in Seq(Pendings) /\ DOMAIN t = DOMAIN p \union {k} /\ k \notin DOMAIN p /\ t[k] = e
      /\ \A i \in DOMAIN p : t[i] = p[i]
  BY <1>1, AppendIs
<1> HIDE DEF t, k
<1>3. u = {t[i].req : i \in DOMAIN t}
  BY <1>1, <1>2
<1>4. \A i \in DOMAIN t : t[i].req > left
  BY <1>1, <1>2
<1>5. \A i, j \in DOMAIN t : t[i].req = t[j].req => i = j
  BY <1>1, <1>2
<1>6. \A i \in DOMAIN q, j \in DOMAIN t : q[i].req # t[j].req
  BY <1>1, <1>2
<1> HIDE DEF u
<1>7. Apart(left, q, t, u)
  BY <1>1, <1>2, <1>3, <1>4, <1>5, <1>6 DEF Apart
<1> QED
  BY <1>7 DEF t, u

\* A planner thread has ended.
LEMMA HeardApart ==
  ASSUME NEW left, NEW q, NEW p, NEW o, Apart(left, q, p, o), NEW k \in DOMAIN p, NEW rx \in {"sql", "dead"}
  PROVE  Apart(left, q, [p EXCEPT ![k].rx = rx], o)
<1>1. /\ left \in Nat /\ q \in Seq(CommandRecords) /\ p \in Seq(Pendings)
      /\ \A i \in DOMAIN q : q[i].req > left
      /\ \A i \in DOMAIN p : p[i].req > left
      /\ \A i, j \in DOMAIN q : q[i].req = q[j].req => i = j
      /\ \A i, j \in DOMAIN p : p[i].req = p[j].req => i = j
      /\ \A i \in DOMAIN q, j \in DOMAIN p : q[i].req # p[j].req
      /\ o = {p[i].req : i \in DOMAIN p}
  BY DEF Apart
<1> DEFINE e == [p[k] EXCEPT !.rx = rx]
<1> DEFINE t == [p EXCEPT ![k] = e]
<1>2. p[k] \in Pendings
  BY <1>1
<1>3. e \in Pendings /\ e.req = p[k].req
  BY <1>2 DEF Pendings
<1> HIDE DEF e
<1>4. t \in Seq(Pendings) /\ DOMAIN t = DOMAIN p
  BY <1>1, <1>3
<1>5. \A i \in DOMAIN p : t[i].req = p[i].req
  BY <1>1, <1>3
<1> HIDE DEF t
<1>6. o = {t[i].req : i \in DOMAIN t}
  BY <1>1, <1>4, <1>5
<1>7. \A i \in DOMAIN t : t[i].req > left
  BY <1>1, <1>4, <1>5
<1>8. \A i, j \in DOMAIN t : t[i].req = t[j].req => i = j
  BY <1>1, <1>4, <1>5
<1>9. \A i \in DOMAIN q, j \in DOMAIN t : q[i].req # t[j].req
  BY <1>1, <1>4, <1>5
<1>10. Apart(left, q, t, o)
  BY <1>1, <1>4, <1>6, <1>7, <1>8, <1>9 DEF Apart
<1> QED
  BY <1>10 DEF t, e

\* What is removed from the list is what is answered, and nothing else.
LEMMA RecalledApart ==
  ASSUME NEW left, NEW q, NEW p, NEW o, Apart(left, q, p, o), NEW D \in SUBSET DOMAIN p
  PROVE  Apart(left, q, Without(p, D), o \ {p[i].req : i \in D})
<1>1. /\ left \in Nat /\ q \in Seq(CommandRecords) /\ p \in Seq(Pendings)
      /\ \A i \in DOMAIN q : q[i].req > left
      /\ \A i \in DOMAIN p : p[i].req > left
      /\ \A i, j \in DOMAIN q : q[i].req = q[j].req => i = j
      /\ \A i, j \in DOMAIN p : p[i].req = p[j].req => i = j
      /\ \A i \in DOMAIN q, j \in DOMAIN p : q[i].req # p[j].req
      /\ o = {p[i].req : i \in DOMAIN p}
  BY DEF Apart
<1> DEFINE t == Without(p, D)
<1> DEFINE u == o \ {p[i].req : i \in D}
<1>2. Spared(p, D, 1, t)
  BY <1>1, WithoutIs
<1> HIDE DEF t
<1> DEFINE n == Len(p)
<1>3. n \in Nat /\ DOMAIN p = 1 .. n
  BY <1>1
<1>4. PICK k, r : Reindexes(r, k, n, D, 1) /\ t = [j \in 1 .. k |-> p[r[j]]]
  BY <1>2 DEF Spared
<1> HIDE DEF n
<1>5. /\ k \in 0 .. n /\ r \in [1 .. k -> 1 .. n]
      /\ \A a, b \in 1 .. k : r[a] = r[b] => a = b
      /\ \A x \in 1 .. n : x \notin D <=> \E j \in 1 .. k : r[j] = x
  <2>1. 1 - 1 = 0
    OBVIOUS
  <2> QED
    BY <1>4, <2>1 DEF Reindexes
<1>6. DOMAIN t = 1 .. k /\ \A j \in 1 .. k : t[j] = p[r[j]] /\ r[j] \in DOMAIN p
  BY <1>3, <1>4, <1>5
<1>7. t \in Seq(Pendings)
  <2>1. \A j \in 1 .. k : p[r[j]] \in Pendings
    BY <1>1, <1>6
  <2>2. k \in Nat
    BY <1>3, <1>5
  <2> QED
    BY <1>4, <2>1, <2>2
<1>8. \A i \in DOMAIN t : t[i].req > left
  BY <1>1, <1>6
<1>9. \A i, j \in DOMAIN t : t[i].req = t[j].req => i = j
  BY <1>1, <1>5, <1>6
<1>10. \A i \in DOMAIN q, j \in DOMAIN t : q[i].req # t[j].req
  BY <1>1, <1>6
<1>11. u \subseteq {t[i].req : i \in DOMAIN t}
  <2>1. ASSUME NEW x \in u PROVE x \in {t[i].req : i \in DOMAIN t}
    <3>1. PICK i \in DOMAIN p : x = p[i].req
      BY <1>1
    <3>2. i \notin D
      BY <3>1
    <3>3. PICK j \in 1 .. k : r[j] = i
      BY <1>3, <1>5, <3>1, <3>2
    <3> QED
      BY <1>6, <3>1, <3>3
  <2> QED
    BY <2>1
<1>12. {t[i].req : i \in DOMAIN t} \subseteq u
  <2>1. ASSUME NEW j \in DOMAIN t PROVE t[j].req \in u
    <3>1. r[j] \in DOMAIN p /\ t[j].req = p[r[j]].req
      BY <1>6
    <3>2. r[j] \notin D
      BY <1>3, <1>5, <1>6, <3>1
    <3>3. \A i \in D : p[i].req # p[r[j]].req
      BY <1>1, <3>1, <3>2
    <3> QED
      BY <1>1, <3>1, <3>3
  <2> QED
    BY <2>1
<1>13. u = {t[i].req : i \in DOMAIN t}
  BY <1>11, <1>12
<1> HIDE DEF u
<1>14. Apart(left, q, t, u)
  BY <1>1, <1>7, <1>8, <1>9, <1>10, <1>13 DEF Apart
<1> QED
  BY <1>14 DEF t, u

\* The steps.
LEMMA RequestApart ==
  ASSUME RequestsAreApart, NEW c \in Commands, Request(c)
  PROVE  RequestsAreApart'
<1> DEFINE left == job["requests"]
<1>1. "requests" \in DOMAIN job /\ Apart(left, queue, pending, owed)
  BY DEF RequestsAreApart
<1>2. /\ left > 0 /\ job' = [job EXCEPT !["requests"] = left - 1]
      /\ queue' = Append(queue, [c EXCEPT !.req = left]) /\ UNCHANGED <<pending, owed>>
  BY DEF Request, Bounded
<1>3. c \in CommandRecords
  BY MindAssumption
<1>4. "requests" \in DOMAIN job' /\ job'["requests"] = left - 1
  BY <1>1, <1>2
<1> HIDE DEF left
<1>5. Apart(left - 1, Append(queue, [c EXCEPT !.req = left]), pending, owed)
  BY <1>1, <1>2, <1>3, RequestedApart
<1>6. Apart(left - 1, queue', pending', owed')
  BY <1>2, <1>5
<1> QED
  BY <1>4, <1>6 DEF RequestsAreApart

LEMMA SamenessIsApart ==
  ASSUME RequestsAreApart, UNCHANGED <<queue, pending, owed>>,
         UNCHANGED job \/ \E what : what # "requests" /\ Bounded(what)
  PROVE  RequestsAreApart'
<1>1. "requests" \in DOMAIN job' /\ job'["requests"] = job["requests"]
  BY BoundedNumbers DEF RequestsAreApart
<1> QED
  BY <1>1 DEF RequestsAreApart

LEMMA ResetIsApart ==
  ASSUME RequestsAreApart, queue' = <<>>, pending' = <<>>, owed' = {},
         UNCHANGED job \/ \E what : what # "requests" /\ Bounded(what)
  PROVE  RequestsAreApart'
<1>1. "requests" \in DOMAIN job' /\ job'["requests"] = job["requests"]
  BY BoundedNumbers DEF RequestsAreApart
<1>2. job["requests"] \in Nat
  BY DEF RequestsAreApart, Apart
<1> QED
  BY <1>1, <1>2, NoneApart DEF RequestsAreApart

LEMMA ServeApart ==
  ASSUME RequestsAreApart, Serve
  PROVE  RequestsAreApart'
<1>1. queue # <<>> /\ queue' = Tail(queue) /\ UNCHANGED <<pending, owed>>
  BY DEF Serve
<1>2. UNCHANGED job \/ \E what : what # "requests" /\ Bounded(what)
  <2>1. UNCHANGED job \/ Bounded("misfits")
    BY DEF Serve, Execute
  <2> QED
    BY <2>1
<1>3. "requests" \in DOMAIN job' /\ job'["requests"] = job["requests"]
  BY <1>2, BoundedNumbers DEF RequestsAreApart
<1>4. Apart(job["requests"], Tail(queue), pending, owed)
  BY <1>1, ServedApart DEF RequestsAreApart
<1> QED
  BY <1>1, <1>3, <1>4 DEF RequestsAreApart

LEMMA DeferApart ==
  ASSUME RequestsAreApart, Defer
  PROVE  RequestsAreApart'
<1> DEFINE left == job["requests"]
<1> DEFINE c == Head(queue)
<1> DEFINE q == Tail(queue)
<1> DEFINE e == [req |-> c.req, ids |-> c.ids, rx |-> "empty"]
<1>1. /\ queue # <<>> /\ queue' = q /\ pending' = Append(pending, e) /\ owed' = owed \union {c.req}
      /\ job' = job
  BY DEF Defer
<1>2. /\ Apart(left, q, pending, owed) /\ c \in CommandRecords /\ c.req > left
      /\ \A i \in DOMAIN q : q[i].req # c.req
      /\ \A i \in DOMAIN pending : pending[i].req # c.req
  BY <1>1, ServedApart DEF RequestsAreApart
<1>3. e \in Pendings /\ e.req = c.req
  BY <1>2 DEF CommandRecords, Pendings
<1> HIDE DEF e, q, c, left
<1>4. Apart(left, q, Append(pending, e), owed \union {e.req})
  BY <1>2, <1>3, DeferredApart
<1> QED
  BY <1>1, <1>3, <1>4 DEF RequestsAreApart, left

LEMMA PlannerApart ==
  ASSUME RequestsAreApart, PlannerEnds
  PROVE  RequestsAreApart'
<1>1. PICK i \in DOMAIN pending :
        \/ pending' = [pending EXCEPT ![i].rx = "sql"] /\ UNCHANGED job
        \/ Bounded("panics") /\ pending' = [pending EXCEPT ![i].rx = "dead"]
  BY DEF PlannerEnds
<1>2. UNCHANGED <<queue, owed>>
  BY DEF PlannerEnds
<1>3. "requests" \in DOMAIN job' /\ job'["requests"] = job["requests"]
  BY <1>1, BoundedNumbers DEF RequestsAreApart
<1>4. PICK rx \in {"sql", "dead"} : pending' = [pending EXCEPT ![i].rx = rx]
  BY <1>1
<1>5. Apart(job["requests"], queue, [pending EXCEPT ![i].rx = rx], owed)
  BY HeardApart DEF RequestsAreApart
<1> QED
  BY <1>2, <1>3, <1>4, <1>5 DEF RequestsAreApart

LEMMA RecallsApart ==
  ASSUME RequestsAreApart, Recalls
  PROVE  RequestsAreApart'
<1> DEFINE D == {i \in DOMAIN pending : Finished(pending[i])}
<1>1. /\ pending' = Without(pending, D) /\ owed' = owed \ {pending[i].req : i \in D}
      /\ UNCHANGED <<job, queue>>
  BY DEF Recalls
<1>2. D \in SUBSET DOMAIN pending
  OBVIOUS
<1> HIDE DEF D
<1>3. Apart(job["requests"], queue, Without(pending, D), owed \ {pending[i].req : i \in D})
  BY <1>2, RecalledApart DEF RequestsAreApart
<1> QED
  BY <1>1, <1>3 DEF RequestsAreApart

LEMMA LoopApart ==
  ASSUME RequestsAreApart, [LoopNext]_vars
  PROVE  RequestsAreApart'
<1>1. CASE Round \/ DreamOfTheClock \/ ClockDrained \/ CommandsDrained \/ NoLine
  BY <1>1, SamenessIsApart DEF Round, DreamOfTheClock, ClockDrained, CommandsDrained, NoLine
<1>2. CASE Stop
  BY <1>2, ResetIsApart DEF Stop
<1>3. CASE Serve
  BY <1>3, ServeApart
<1>4. CASE Defer
  BY <1>4, DeferApart
<1>5. CASE Recalls
  BY <1>5, RecallsApart
<1>6. CASE \E c \in Commands : Request(c)
  BY <1>6, RequestApart
<1>7. CASE \E c \in Commands : Line(c)
  BY <1>7, SamenessIsApart DEF Line
<1>8. CASE TimesOut \/ Signal \/ ClockTicks \/ Age
  BY <1>8, SamenessIsApart DEF TimesOut, Signal, ClockTicks, Age, loop_vars
<1>9. CASE PlannerEnds
  BY <1>9, PlannerApart
<1>10. CASE Crash
  BY <1>10, ResetIsApart DEF Crash
<1>11. CASE \E m \in {"serve", "repl"} : Start(m)
  BY <1>11, ResetIsApart DEF Start
<1>12. CASE UNCHANGED vars
  BY <1>12, SamenessIsApart DEF vars, loop_vars
<1> QED
  BY <1>1, <1>2, <1>3, <1>4, <1>5, <1>6, <1>7, <1>8, <1>9, <1>10, <1>11, <1>12 DEF LoopNext, MainStep

LEMMA InitApart ==
  ASSUME LoopInit
  PROVE  RequestsAreApart
<1>1. "requests" \in DOMAIN job /\ job["requests"] \in Nat
  BY MindAssumption DEF LoopInit, JobRecords
<1> QED
  BY <1>1, NoneApart DEF LoopInit, RequestsAreApart

-----------------------------------------------------------------------------
(* The clock                                                                 *)

Price == AtMost(Threshold, Batch)

\* What is in the reservoir and what the dreams took was given by the radio.
Clockwork ==
    /\ reservoir \in 0 .. Capacity /\ dreamt \in Nat /\ received \in Nat
    /\ dreamt * Price + reservoir <= received

\* A dream costs something, and no more than a batch or the threshold.
LEMMA PriceIs == Price \in Nat /\ Price > 0 /\ Price <= Batch /\ Price <= Threshold
BY ClockAssumption DEF Price, AtMost

\* A tick takes from the reservoir what the dream costs, or nothing.
LEMMA TickWorks ==
  ASSUME Clockwork, NEW reachable, NEW entropy \in BOOLEAN, Tick(reachable, entropy)
  PROVE  Clockwork'
<1> DEFINE given == IF entropy THEN Batch ELSE 0
<1> DEFINE bytes == AtMost(AfterJitter + given, Capacity)
<1> DEFINE taken == AtMost(bytes, Batch)
<1>1. /\ received' = received + given
      /\ \/ bytes >= Threshold /\ reservoir' = bytes - taken /\ dreamt' = dreamt + 1
         \/ ~(bytes >= Threshold) /\ reservoir' = bytes /\ dreamt' = dreamt
  BY DEF Tick, SeedTaken
<1>2. given \in Nat /\ Capacity \in Nat /\ Batch \in Nat /\ Threshold \in Nat
  BY ClockAssumption
<1> HIDE DEF given
<1>3. /\ reservoir \in 0 .. Capacity /\ dreamt \in Nat /\ received \in Nat
      /\ dreamt * Price + reservoir <= received
  BY DEF Clockwork
<1>4. bytes \in 0 .. Capacity /\ bytes <= reservoir + given
  BY <1>2, <1>3 DEF AtMost, AfterJitter
<1> HIDE DEF bytes
<1>5. taken \in 0 .. bytes /\ (bytes >= Threshold => taken >= Price)
  BY <1>2, <1>4, PriceIs DEF AtMost, Price
<1> HIDE DEF taken
<1> DEFINE paid == dreamt * Price
<1>6. paid \in Nat /\ (dreamt + 1) * Price = paid + Price /\ Price \in Nat
  BY <1>3, PriceIs
<1>7. paid + reservoir <= received
  BY <1>3
<1>8. CASE bytes >= Threshold /\ reservoir' = bytes - taken /\ dreamt' = dreamt + 1
  <2>1. dreamt' * Price = paid + Price
    BY <1>6, <1>8
  <2>2. reservoir' \in 0 .. Capacity /\ dreamt' \in Nat /\ received' \in Nat
    BY <1>1, <1>2, <1>3, <1>4, <1>5, <1>8
  <2> HIDE DEF paid
  <2>3. paid + Price + reservoir' <= received'
    BY <1>1, <1>2, <1>3, <1>4, <1>5, <1>6, <1>7, <1>8
  <2>4. Price' = Price
    BY DEF Price
  <2>5. dreamt' * Price' + reservoir' <= received'
    BY <2>1, <2>3, <2>4
  <2> QED
    BY <2>2, <2>5 DEF Clockwork
<1>9. CASE reservoir' = bytes /\ dreamt' = dreamt
  <2>1. dreamt' * Price' = paid
    BY <1>9 DEF Price
  <2>2. reservoir' \in 0 .. Capacity /\ dreamt' \in Nat /\ received' \in Nat
    BY <1>1, <1>2, <1>3, <1>4, <1>9
  <2> HIDE DEF paid
  <2>3. paid + reservoir' <= received'
    BY <1>1, <1>2, <1>3, <1>4, <1>6, <1>7, <1>9
  <2> QED
    BY <2>1, <2>2, <2>3 DEF Clockwork
<1> QED
  BY <1>1, <1>8, <1>9

\* At the start all that was given is in the reservoir.
LEMMA NothingYet ==
  ASSUME NEW bytes \in 0 .. Capacity
  PROVE  0 * Price + bytes <= bytes
BY PriceIs, ClockAssumption

LEMMA LoopWorks ==
  ASSUME Clockwork, [LoopNext]_vars
  PROVE  Clockwork'
<1>1. CASE UNCHANGED <<reservoir, received, dreamt>>
  BY <1>1 DEF Clockwork, Price
<1>2. CASE ClockTicks
  BY <1>2, TickWorks DEF ClockTicks
<1>3. CASE Crash
  <2>1. reservoir' = 0 /\ received' = 0 /\ dreamt' = 0
    BY <1>3 DEF Crash
  <2>2. 0 * Price + 0 <= 0 /\ 0 \in 0 .. Capacity /\ Price' = Price
    BY NothingYet, ClockAssumption DEF Price
  <2> QED
    BY <2>1, <2>2 DEF Clockwork
<1>4. CASE \E m \in {"serve", "repl"} : Start(m)
  <2>1. dreamt' = 0 /\ reservoir' = received' /\ received' \in {0, Batch}
    BY <1>4 DEF Start, Probe
  <2>2. received' \in 0 .. Capacity /\ Price' = Price
    BY <2>1, ClockAssumption DEF Price
  <2>3. 0 * Price + received' <= received'
    BY <2>2, NothingYet
  <2> QED
    BY <2>1, <2>2, <2>3, ClockAssumption DEF Clockwork
<1>5. CASE MainStep \/ \E c \in Commands : Request(c) \/ Line(c)
  <2>1. UNCHANGED <<reservoir, received, dreamt>>
    BY <1>5 DEF MainStep, Round, Stop, DreamOfTheClock, ClockDrained, Serve, Defer, CommandsDrained, Recalls, NoLine,
       Request, Line, clock_vars
  <2> QED
    BY <1>1, <2>1
<1>6. CASE TimesOut \/ PlannerEnds \/ Signal \/ Age
  BY <1>1, <1>6 DEF TimesOut, PlannerEnds, Signal, Age, clock_vars
<1>7. CASE UNCHANGED vars
  BY <1>1, <1>7 DEF vars, clock_vars
<1> QED
  BY <1>2, <1>3, <1>4, <1>5, <1>6, <1>7 DEF LoopNext

LEMMA InitWorks ==
  ASSUME LoopInit
  PROVE  Clockwork
<1>1. reservoir = 0 /\ received = 0 /\ dreamt = 0
  BY DEF LoopInit
<1>2. 0 * Price + 0 <= 0 /\ 0 \in 0 .. Capacity
  BY NothingYet, ClockAssumption
<1> QED
  BY <1>1, <1>2 DEF Clockwork

-----------------------------------------------------------------------------
(* The program                                                               *)

\* Different numbers are counted by the list they are in.
LEMMA NoRecallGoes ==
  ASSUME RequestsAreApart
  PROVE  NoRecallIsDropped
<1> DEFINE n == Len(pending)
<1> DEFINE f == [i \in 1 .. n |-> pending[i].req]
<1>1. /\ pending \in Seq(Pendings) /\ owed = {pending[i].req : i \in DOMAIN pending}
      /\ \A i, j \in DOMAIN pending : pending[i].req = pending[j].req => i = j
  BY DEF RequestsAreApart, Apart
<1>2. n \in Nat /\ DOMAIN pending = 1 .. n
  BY <1>1
<1> HIDE DEF n
<1>3. f \in Bijection(1 .. n, owed)
  <2>1. f \in [1 .. n -> owed]
    BY <1>1, <1>2
  <2>2. \A i, j \in 1 .. n : f[i] = f[j] => i = j
    BY <1>1, <1>2
  <2>3. \A x \in owed : \E i \in 1 .. n : f[i] = x
    BY <1>1, <1>2
  <2> HIDE DEF f
  <2>4. f \in Injection(1 .. n, owed) /\ f \in Surjection(1 .. n, owed)
    BY <2>1, <2>2, <2>3 DEF Injection, Surjection, IsInjective
  <2> QED
    BY <2>4 DEF Bijection
<1>4. ExistsBijection(1 .. n, owed)
  BY <1>3 DEF ExistsBijection
<1>5. Cardinality(owed) = n
  BY <1>2, <1>4, FS_CountingElements
<1> QED
  BY <1>1, <1>5 DEF NoRecallIsDropped, n

\* Each part of NothingIsDropped, from the invariant.
LEMMA StopKeptAll ==
  ASSUME MemoryIsKept
  PROVE  StopKeepsAll
<1> SUFFICES ASSUME pc = "stopped"
             PROVE  /\ OnDisk.rows = mind.rows /\ OnDisk.text = mind.text
                    /\ OnDisk.records = mind.records
                    /\ OnDisk.graph.edges = mind.graph.edges
                    /\ OnDisk.tree = mind.tree
  BY DEF StopKeepsAll
<1> DEFINE n == Snapshot(mind)
<1>1. log = <<>> /\ snapshot = n /\ mind \in Engines
  BY DEF MemoryIsKept, Filed
<1>2. /\ n \in Engines
      /\ n.rows = mind.rows /\ n.text = mind.text /\ n.tree = mind.tree /\ n.records = mind.records
      /\ n.graph.edges = mind.graph.edges
  BY <1>1, SnapshotIs
<1> HIDE DEF n
<1>3. OnDisk = n
  BY <1>1, <1>2, RedoneEmpty DEF OnDisk
<1> QED
  BY <1>2, <1>3

LEMMA SearchFinds ==
  ASSUME MemoryIsKept
  PROVE  SearchIsCurrent
<1> SUFFICES ASSUME Up, mode = "serve"
             PROVE  /\ \A id \in DOMAIN told \ misled : FoundBy(id) = {told[id]}
                    /\ \A id \in Nodes \ (mind.rows \union DOMAIN mind.records) : FoundBy(id) = {}
  BY DEF SearchIsCurrent
<1>1. Holds(mind, told) /\ Indexes(corpus, told, misled) /\ mind \in Engines
  BY UpHas
<1>2. \A id \in mind.rows : mind.text[id] \in Texts
  BY <1>1, EngineFields
<1>3. \A id \in DOMAIN told \ misled :
         /\ told[id] \in Texts /\ <<told[id], id>> \in mind.tree
         /\ id \in DOMAIN corpus /\ corpus[id] = told[id]
  BY <1>1, <1>2 DEF Holds, Indexes
<1>4. \A t \in mind.tree : t[2] \in DOMAIN mind.records
  BY <1>1 DEF Holds, TermsAreStored
<1>5. ASSUME NEW id \in DOMAIN told \ misled PROVE FoundBy(id) = {told[id]}
  BY <1>3 DEF FoundBy
<1>6. ASSUME NEW id, id \notin DOMAIN mind.records PROVE FoundBy(id) = {}
  <2>1. \A text \in Texts : <<text, id>> \notin mind.tree
    BY <1>4, <1>6
  <2> QED
    BY <2>1 DEF FoundBy
<1> QED
  BY <1>5, <1>6

LEMMA TypesAreKept ==
  ASSUME MemoryIsKept, Clockwork
  PROVE  LoopTypeOK
<1>1. IsMemory(mind) /\ TermsAreStored(mind)
  BY EnginesAre DEF MemoryIsKept, Filed
<1>2. identity.heat \in 0 .. MaxHeat
  BY DEF MemoryIsKept, Identities
<1> QED
  BY <1>1, <1>2 DEF MemoryIsKept, Running, Clockwork, LoopTypeOK

LEMMA ToldIsStored == MemoryIsKept => NothingFadesAway
BY UpHas DEF NothingFadesAway, Holds

LEMMA DreamsWerePaid == Clockwork => DreamsArePaidFor
<1> SUFFICES ASSUME Clockwork PROVE DreamsArePaidFor
  OBVIOUS
<1> DEFINE paid == dreamt * Price
<1>1. paid + reservoir <= received /\ reservoir \in Nat /\ received \in Nat /\ dreamt \in Nat
  BY ClockAssumption DEF Clockwork
<1>2. paid \in Nat
  BY <1>1, PriceIs
<1> HIDE DEF paid
<1>3. paid <= received
  BY <1>1, <1>2
<1> QED
  BY <1>3 DEF DreamsArePaidFor, paid, Price

\* The invariant: what the engine and its files keep, the requests and the
\* clock.
LoopInv == MemoryIsKept /\ RequestsAreApart /\ Clockwork

\* It holds at the start, every step keeps it, and it implies the rest.
LEMMA LoopKeepsInv == LoopInit => LoopInv
BY InitKeeps, InitApart, InitWorks DEF LoopInv

LEMMA StepKeepsInv == LoopInv /\ [LoopNext]_vars => LoopInv' /\ Outlives(mind, mind')
BY LoopKeeps, LoopApart, LoopWorks DEF LoopInv

LEMMA InvDropsNothing == LoopInv => NothingIsDropped
BY NoRecallGoes, StopKeptAll, SearchFinds, TypesAreKept, ToldIsStored, DreamsWerePaid
   DEF LoopInv, NothingIsDropped

\* The engine, what a restart would make of its files, the search engine, the
\* requests and the clock hold to the invariant after every step, for every set
\* of commands, and every snapshot that holds sound memories.
THEOREM LoopInvariant == LoopSpec => []LoopInv
<1>1. LoopInit => LoopInv
  BY LoopKeepsInv
<1>2. LoopInv /\ [LoopNext]_vars => LoopInv'
  BY StepKeepsInv
<1> QED
  BY <1>1, <1>2, PTL DEF LoopSpec

\* Nothing is dropped by the first generation: what was told keeps its record and
\* is found by its text and by no other, every recall that waits for the model
\* is in the list until it is answered, a graceful stop leaves everything on
\* disk, and every dream of the clock was paid for.
THEOREM LoopDropsNothing == LoopSpec => []NothingIsDropped
<1>1. LoopInv => NothingIsDropped
  BY InvDropsNothing
<1> QED
  BY <1>1, LoopInvariant, PTL

\* What an absorbed memory is led to by.
LEMMA SurvivorIs ==
  ASSUME NEW m, NEW n, Outlives(m, n), NEW id \in DOMAIN m.records \intersect DOMAIN n.records,
         m.records[id].state = "Active", n.records[id].state = "Archived"
  PROVE  \E e \in n.graph.edges : e.to = id /\ e.kind # "Structural" /\ n.records[e.from].state = "Active"
<1>1. ~ArchivedToo(n, m)
  BY DEF ArchivedToo
<1>2. PICK a \in DOMAIN m.records : Leads(n.graph, a, id) /\ n.records[a].state = "Active"
  BY <1>1 DEF Outlives, Survived
<1> QED
  BY <1>2 DEF Leads

\* Consolidation archives no active memory without an active one that has an edge
\* to it, whatever groups, survivors and stale neighbours there are.
THEOREM AbsorbedIsSurvived == LoopSpec => AbsorbedHasASurvivor
<1> DEFINE A == \A id \in DOMAIN mind.records \intersect DOMAIN mind'.records :
                   mind.records[id].state = "Active" /\ mind'.records[id].state = "Archived" =>
                      \E e \in mind'.graph.edges :
                         /\ e.to = id /\ e.kind # "Structural"
                         /\ mind'.records[e.from].state = "Active"
<1>1. LoopInv /\ [LoopNext]_vars => [A]_mind
  <2> SUFFICES ASSUME LoopInv, [LoopNext]_vars PROVE A
    OBVIOUS
  <2>1. Outlives(mind, mind')
    BY StepKeepsInv
  <2> QED
    BY <2>1, SurvivorIs
<1> QED
  BY <1>1, LoopInvariant, PTL DEF LoopSpec, AbsorbedHasASurvivor
=============================================================================
