------------------------------- MODULE DriftMonitors -------------------------------
(***************************************************************************)
(* The monitor of drift (ferricula-cognition sati.rs): every recall is     *)
(* admitted before and observed after, and the monitor bounds chains of    *)
(* self-cued recalls and damps the mood bias of skewed ones.               *)
(*                                                                         *)
(* The monitor of the service and the one of the research harness, which   *)
(* measures but does not act, see the same recalls until the first one     *)
(* either would refuse, as long as recalls do not overlap.  Whether a      *)
(* recall is skewed is chosen for the Kullback-Leibler divergence; the     *)
(* bias is counted in steps of its recovery and rounded down; the          *)
(* self-judgment gap is a running mean nothing reads.                      *)
(***************************************************************************)
EXTENDS Naturals, Sequences, Integers, FiniteSets, SequencesExt

CONSTANTS
    DMax,               \* d_max
    Consecutive,        \* n_consecutive
    Window,             \* window
    RhoMax,             \* self-cued recalls a full window may hold (rho_max * window)
    Base,               \* lambda_cetana of the configuration, in steps of recovery
    Recalls             \* per behaviour: overlap, refusals of the sink

ASSUME SatiAssumption ==
    /\ Consecutive \in Nat \ {0} /\ Window \in Nat \ {0}
    /\ DMax \in Nat /\ Base \in Nat
    /\ Recalls \subseteq [slots : 0 .. 2, refusals : Nat, rests : BOOLEAN]

VARIABLES
    monitors,           \* the service's and the harness's SatiMonitor
    flights,            \* recalls between admit and observe: slot -> source
    recent,             \* skews of the last Consecutive observations
    parted,             \* the two monitors no longer see the same recalls
    agent               \* bounds, and whether the agent has come to rest

satiVars == <<monitors, flights, recent, parted, agent>>

Sources == {"task", "dream", "self"}
Slots == DOMAIN flights

Fresh(enabled) ==
    [enabled |-> enabled, lambda |-> Base, streak |-> 0, chain |-> 0, window |-> <<>>,
     pending |-> FALSE, shadow |-> FALSE, refused |-> FALSE, would |-> FALSE]

SelfCued(window) == Len(SelectSeq(window, LAMBDA b : b))

-----------------------------------------------------------------------------
Refuses(m, self) == m.pending /\ self

\* admit: a refusal is counted; any other cue satisfies a pending return.
Admit(m, self) ==
    IF Refuses(m, self) THEN [m EXCEPT !.refused = TRUE]
    ELSE [m EXCEPT !.pending = FALSE, !.chain = IF m.pending THEN 0 ELSE @,
                   !.would = @ \/ (m.shadow /\ self),
                   !.shadow = @ /\ self]

\* observe, first half: chain depth and self-reference ratio.
Chained(m, self) ==
    LET pushed == Append(m.window, self)
        window == IF Len(pushed) > Window THEN Tail(pushed) ELSE pushed
    IN  [m EXCEPT !.chain = IF self THEN @ + 1 ELSE 0, !.window = window]

Papanca(m) ==
    \/ m.chain > DMax
    \/ Len(m.window) >= Window /\ SelfCued(m.window) > RhoMax

Noted(m) ==
    IF ~Papanca(m) THEN m
    ELSE IF m.enabled THEN [m EXCEPT !.pending = TRUE] ELSE [m EXCEPT !.shadow = TRUE]

\* Mutant: a calm recall leaves the streak standing.
SkewedOrStanding(m, skewed) ==
    IF skewed THEN [m EXCEPT !.streak = @ + 1]
    ELSE [m EXCEPT !.lambda = IF @ < Base THEN @ + 1 ELSE @]

\* observe, second half: a calm recall ends the streak and recovers a step.
Skewed(m, skewed) ==
    IF skewed THEN [m EXCEPT !.streak = @ + 1]
    ELSE [m EXCEPT !.streak = 0, !.lambda = IF @ < Base THEN @ + 1 ELSE @]

Damped(m) ==
    IF m.streak < Consecutive THEN m
    ELSE [m EXCEPT !.streak = 0, !.lambda = IF m.enabled THEN @ \div 2 ELSE @]

-----------------------------------------------------------------------------
Both(step(_)) ==
    [k \in DOMAIN monitors |-> IF k = "harness" /\ parted THEN monitors[k] ELSE step(monitors[k])]

\* A recall is asked for; a refused one is not carried out.
Ask(slot, source) ==
    LET self == source = "self"
    IN  /\ slot <= agent.slots /\ flights[slot] = "none"
        /\ agent.rests => source = "task"
        /\ monitors' = Both(LAMBDA m : Admit(m, self))
        /\ flights' = [flights EXCEPT ![slot] =
                IF Refuses(monitors.service, self) THEN "none" ELSE source]
        /\ parted' = (parted \/ monitors'.service.refused \/ monitors'.harness.would)
        /\ UNCHANGED <<recent, agent>>

\* A recall has been carried out.  The sink that refuses the first entry ends
\* the call before the skew is measured.
Observed(slot, skewed) ==
    LET self == flights[slot] = "self"
        half(m) == Noted(Chained(m, self))
    IN  /\ flights[slot] # "none"
        /\ agent.rests => ~skewed
        /\ flights' = [flights EXCEPT ![slot] = "none"]
        /\ \/ /\ monitors' = Both(LAMBDA m : Damped(Skewed(half(m), skewed)))
              /\ recent' = SubSeq(Append(recent, skewed), Len(recent) + 2 - Consecutive, Len(recent) + 1)
              /\ UNCHANGED agent
           \/ /\ agent.refusals > 0 /\ Papanca(Chained(monitors.service, self))
              /\ monitors' = Both(half)
              /\ agent' = [agent EXCEPT !.refusals = @ - 1]
              /\ UNCHANGED recent
        /\ UNCHANGED parted

\* The agent is given work: from now on recalls are the task's and calm.
Settle ==
    /\ ~agent.rests /\ agent.slots > 0
    /\ agent' = [agent EXCEPT !.rests = TRUE]
    /\ UNCHANGED <<monitors, flights, recent, parted>>

SatiInit ==
    /\ agent \in Recalls
    /\ monitors = [k \in {"service", "harness"} |-> Fresh(k = "service")]
    /\ flights = [s \in 1..2 |-> "none"]
    /\ recent = [k \in 1..Consecutive |-> FALSE]
    /\ parted = (agent.slots > 1)

SatiNext ==
    \/ \E slot \in Slots, source \in Sources : Ask(slot, source)
    \/ \E slot \in Slots, skewed \in BOOLEAN : Observed(slot, skewed)
    \/ Settle

SatiSpec == SatiInit /\ [][SatiNext]_satiVars

-----------------------------------------------------------------------------
SatiTypeOK ==
    \A k \in DOMAIN monitors :
        /\ monitors[k].lambda \in 0..Base
        /\ monitors[k].streak \in 0..(Consecutive - 1)
        /\ Len(monitors[k].window) <= Window

\* The chain of self-cued recalls outruns d_max by the recalls already under
\* way and no more, whatever cues come between, and a refusing sink does not
\* lift the bound.
ChainIsBounded == monitors.service.chain <= DMax + agent.slots

\* The bias is damped only after Consecutive skewed recalls in a row
\* ("Consecutive over-threshold recalls before a noting event").
DampedByAStreak ==
    [][monitors'.service.lambda < monitors.service.lambda
        => \A k \in 1..Consecutive : recent'[k]]_satiVars

\* would_have_refused: the harness first counts a refusal at the recall the
\* service first refuses, as long as recalls do not overlap.
HarnessAgrees ==
    agent.slots <= 1 => (monitors.service.refused <=> monitors.harness.would)

\* Drift ends: once all recalls are calm and the task's, and recalls keep
\* coming, the bias recovers to its base and no return to the object stays
\* pending, although the window remembers the self-cued recalls for a while.
DriftEnds ==
    <>agent.rests /\ []<><<Ask(1, "task")>>_satiVars
        => <>[](monitors.service.lambda = Base /\ ~monitors.service.pending)

-----------------------------------------------------------------------------
(***************************************************************************)
(* The co-occurrence dynamics a dream updates (ferricula-core skg.rs): for *)
(* pairs of terms that share an anchor, a ring of the last similarities,   *)
(* from which velocity, acceleration and Weber's bracket are read.         *)
(*                                                                         *)
(* A similarity is the Jaccard index times Unit, which every size divides. *)
(* One dream ticks the clock by one.  The cut to the twenty largest terms  *)
(* and to the five best edges is left out: fewer terms exist.              *)
(***************************************************************************)

CONSTANTS
    Terms(_),           \* terms of a memory
    Unit,               \* the index of equal sets
    Cap,                \* HISTORY_CAP
    Stale,              \* ticks without an observation a pair survives (32)
    Dreams              \* per behaviour: what may happen

ASSUME RingAssumption ==
    /\ Cap \in Nat /\ Cap > 2 /\ Unit \in Nat /\ Stale \in Nat
    /\ \A d \in Dreams : IsFiniteSet(d.known) /\ IsFiniteSet(d.learn) /\ d.nights \in Nat /\ d.toggles \in Nat

VARIABLES
    histories,          \* pair of terms -> ring
    tick,               \* dream_tick
    known, anchors,     \* memories, and the keystones among them
    seen,               \* all observations ever made, per pair
    dreams              \* bounds

termVars == <<histories, tick, known, anchors, seen, dreams>>

EmptyRing == [slots |-> [i \in 0..(Cap - 1) |-> <<0, 0>>], head |-> 0, len |-> 0]

\* Mutant: the oldest entry is taken to be in the first slot for ever.
OrderedFromZero(ring) == [i \in 1..ring.len |-> ring.slots[i - 1]]

\* get_ordered, oldest first
Ordered(ring) ==
    LET start == IF ring.len < Cap THEN 0 ELSE ring.head
    IN  [i \in 1..ring.len |-> ring.slots[(start + i - 1) % Cap]]

Pushed(ring, e) ==
    [slots |-> [ring.slots EXCEPT ![ring.head] = e], head |-> (ring.head + 1) % Cap,
     len |-> IF ring.len < Cap THEN ring.len + 1 ELSE ring.len]

LastTick(ring) == IF ring.len = 0 THEN 0 ELSE ring.slots[(ring.head + Cap - 1) % Cap][1]

\* Ticks grow with every entry, so no difference of them is zero.  Rates are
\* in Unit * 60 per tick, which the gaps between ticks divide.
Velocity(ring) ==
    LET o == Ordered(ring)
    IN  IF ring.len < 2 THEN {}
        ELSE {(60 * (o[ring.len][2] - o[ring.len - 1][2])) \div (o[ring.len][1] - o[ring.len - 1][1])}

-----------------------------------------------------------------------------
Posting(term) == {id \in known : term \in Terms(id)}
Anchored == {t \in UNION {Terms(id) : id \in known} : Posting(t) \intersect anchors # {}}
PairsOf(S) == {p \in SUBSET S : Cardinality(p) = 2}

\* bitmap_jaccard
Jaccard(pair) ==
    LET common == {id \in known : pair \subseteq Terms(id)}
        all == UNION {Posting(t) : t \in pair}
    IN  (Unit * Cardinality(common)) \div Cardinality(all)

Kept(ring) == (tick + 1) - LastTick(ring) <= Stale

\* update: without an anchor only the clock ticks.
Dream ==
    /\ dreams.nights > 0
    /\ dreams' = [dreams EXCEPT !.nights = @ - 1]
    /\ tick' = tick + 1
    /\ IF anchors = {} THEN UNCHANGED <<histories, seen>>
       ELSE LET sampled == PairsOf(Anchored)
                before(p) == IF p \in DOMAIN histories THEN histories[p] ELSE EmptyRing
                after == [p \in DOMAIN histories \union sampled |->
                            IF p \in sampled THEN Pushed(before(p), <<tick + 1, Jaccard(p)>>) ELSE before(p)]
            IN  /\ histories' = [p \in {q \in DOMAIN after : Kept(after[q])} |-> after[p]]
                /\ seen' = [p \in DOMAIN seen \union sampled |->
                        LET old == IF p \in DOMAIN seen THEN seen[p] ELSE <<>>
                        IN  IF p \in sampled THEN Append(old, <<tick + 1, Jaccard(p)>>) ELSE old]
    /\ UNCHANGED <<known, anchors>>

\* The owner learns a memory, and makes or unmakes an anchor.
Learnt(id) ==
    /\ id \in dreams.learn \ known
    /\ known' = known \union {id}
    /\ UNCHANGED <<histories, tick, anchors, seen, dreams>>

Toggled(id) ==
    /\ dreams.toggles > 0 /\ id \in known
    /\ dreams' = [dreams EXCEPT !.toggles = @ - 1]
    /\ anchors' = IF id \in anchors THEN anchors \ {id} ELSE anchors \union {id}
    /\ UNCHANGED <<histories, tick, known, seen>>

TermInit ==
    /\ dreams \in Dreams
    /\ known = dreams.known
    /\ anchors = {}
    /\ tick = 0
    /\ histories = [p \in {} |-> EmptyRing]
    /\ seen = [p \in {} |-> <<>>]

TermNext ==
    \/ Dream
    \/ \E id \in dreams.learn \union known : Learnt(id) \/ Toggled(id)

TermSpec == TermInit /\ [][TermNext]_termVars

-----------------------------------------------------------------------------
LastOf(s, n) == SubSeq(s, Len(s) - n + 1, Len(s))

\* The ring yields the latest observations of its pair, oldest first, however
\* often it has wrapped and whatever nights went without an observation.
RingHoldsTheLatest ==
    \A p \in DOMAIN histories :
        LET o == Ordered(histories[p])
        IN  /\ Len(o) <= Len(seen[p])
            /\ o = LastOf(seen[p], Len(o))
            /\ Len(o) > 0

\* A pair survives Stale nights without an observation, and what it knew
\* survives with it: the rate is that of its last two observations.
RateIsOfTheLastTwo ==
    \A p \in DOMAIN seen :
        LET n == Len(seen[p])
        IN  (n > 1 /\ tick - seen[p][n][1] <= Stale /\ seen[p][n][1] - seen[p][n - 1][1] <= Stale)
                => /\ p \in DOMAIN histories
                   /\ Velocity(histories[p]) =
                        {(60 * (seen[p][n][2] - seen[p][n - 1][2])) \div (seen[p][n][1] - seen[p][n - 1][1])}
=============================================================================
