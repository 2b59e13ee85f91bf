------------------------------ MODULE DreamCycle ------------------------------
(***************************************************************************)
(* One dream of the first generation (src/dream.rs, src/memory.rs): decay, *)
(* forgiving, consolidation, discovery of edges, review of keystones,      *)
(* archiving and pruning of the memories an engine holds.                  *)
(*                                                                         *)
(* A fidelity is a level: Top is the level above 0.95, Gate the lowest one *)
(* that is not below FIDELITY_GATE.  One tick takes at most two per cent   *)
(* off, so it never skips a level.  Staleness has three levels: fresh,     *)
(* over an hour, over a day.  Decay rates, importance, emotion and the     *)
(* co-occurrence statistics are left out: they move how soon a level is    *)
(* left, and nothing else.                                                 *)
(***************************************************************************)
EXTENDS MemoryGraph, Integers, SequencesExt

CONSTANTS
    Top, Gate,          \* levels of fidelity
    PromoteAfter,       \* recalls that make a memory a keystone (5)
    Similar(_, _),      \* vectors above CONSOLIDATION_THRESHOLD
    Related(_, _)       \* vectors between 0.7 and that

\* Ids are numbers of 32 bits.
ASSUME LevelsAssumption ==
    /\ Gate \in Nat /\ Top \in Nat /\ 1 < Gate /\ Gate < Top
    /\ PromoteAfter \in Nat /\ IsFiniteSet(Nodes)

NewRecord ==
    [state |-> "Active", fid |-> Top, keystone |-> FALSE, recalls |-> 0, stale |-> 0]

AboveGate(r) == r.fid >= Gate

\* A record between two dreams: what sank below the gate was forgiven by the
\* dream that lowered it, and sinks no further.
Records ==
    {r \in [state : {"Active", "Forgiven", "Archived"}, fid : 0..Top, keystone : BOOLEAN,
            recalls : 0..PromoteAfter, stale : 0..2] :
        r.fid >= Gate - 1 /\ (r.state = "Active" => AboveGate(r))}

\* on_recall
OnRecall(r) ==
    [r EXCEPT !.recalls = IF @ < PromoteAfter THEN @ + 1 ELSE @, !.stale = 0]

InState(m, state) == {id \in DOMAIN m.records : m.records[id].state = state}
Keystones(m) == {id \in DOMAIN m.records : m.records[id].keystone}

With(m, ids, f(_)) ==
    [m EXCEPT !.records = [id \in DOMAIN @ |-> IF id \in ids THEN f(@[id]) ELSE @[id]]]

\* The elements of s that are in S, in their order.
Chosen(s, S) == FoldLeft(LAMBDA t, x : IF x \in S THEN Append(t, x) ELSE t, <<>>, s)

-----------------------------------------------------------------------------
\* Phase 1: the memories a tick may reach, and those that leave their level:
\* the entropy selects some of them, and a tick may or may not be the last
\* one in a level.
Decaying(m) == InState(m, "Active") \ Keystones(m)

Lowered(m, intensity) == IF intensity <= 0 THEN {{}} ELSE SUBSET Decaying(m)

Ticked(m, lowered) ==
    With(m, lowered, LAMBDA r : [r EXCEPT !.fid = IF @ > 0 THEN @ - 1 ELSE 0])

\* Phase 2
Forgiven(m) ==
    With(m, {id \in InState(m, "Active") : ~AboveGate(m.records[id])},
         LAMBDA r : [r EXCEPT !.state = "Forgiven"])

\* Phase 3: each memory not taken yet takes the similar ones after it.
Groups(m, order) ==
    LET Next(acc, id) ==
            LET group == Chosen(order, {o \in m.rows \ acc.assigned : o = id \/ Similar(id, o)})
            IN IF id \in acc.assigned \/ id \notin m.rows THEN acc
               ELSE [groups |-> IF Len(group) >= 2 THEN Append(acc.groups, group) ELSE acc.groups,
                     assigned |-> acc.assigned \union ToSet(group)]
    IN FoldLeft(Next, [groups |-> <<>>, assigned |-> {}], order).groups

\* The edges that lead from the absorbed memory are the survivor's, unless
\* an edge of the document's order is in their place.
Absorbed(m, survivor, id) ==
    LET structural(g, n) == \E e \in g.edges : Pair(e) = {survivor, n} /\ e.kind = "Structural"
        moved == FoldSet(LAMBDA n, g : IF structural(g, n) THEN g
                                       ELSE Connected(g, [from |-> survivor, to |-> n, kind |-> "Semantic"]),
                         m.graph, Neighbors(m.graph, id) \ {survivor})
        audit == Connected(Removed(moved, id), [from |-> survivor, to |-> id, kind |-> "Causal"])
    IN [With(m, {id}, LAMBDA r : [r EXCEPT !.state = "Archived"]) EXCEPT !.graph = audit]

\* The survivor is one of the highest fidelity.
Survivors(m, group) ==
    {s \in ToSet(group) : \A o \in ToSet(group) : m.records[o].fid <= m.records[s].fid}

Consolidated(m, order) ==
    FoldLeft(LAMBDA worlds, group :
                 UNION {{FoldLeft(LAMBDA w, id : IF id = s THEN w ELSE Absorbed(w, s, id), world, group) :
                         s \in Survivors(world, group)} : world \in worlds},
             {m}, Groups(m, order))

\* Phase 3.5, of the Intuition archetype
Discovered(m) ==
    LET pairs == {p \in SUBSET InState(m, "Active") :
                    /\ Cardinality(p) = 2 /\ p \subseteq m.rows
                    /\ \E a, b \in p : a # b /\ Related(a, b)
                    /\ ~ \E e \in m.graph.edges : Pair(e) = p}
        Edge(p) == CHOOSE e \in [from : p, to : p, kind : {"Semantic"}] : e.from # e.to
    IN [m EXCEPT !.graph = FoldSet(LAMBDA p, g : Connected(g, Edge(p)), @, pairs)]

\* Phase 5, of the Ethics archetype: at most one promotion.
Reviewed(m) ==
    LET worthy == {id \in InState(m, "Active") \ Keystones(m) :
                      m.records[id].recalls >= PromoteAfter /\ m.records[id].fid = Top}
    IN IF worthy = {} THEN {m}
       ELSE {With(m, {id}, LAMBDA r : [r EXCEPT !.keystone = TRUE]) : id \in worthy}

\* Phase 6: the candidates are those forgiven before this dream.
ForgivenBefore(before, m) == InState(before, "Forgiven")

\* Forgiven for over an hour, by its last recall.
Archived(m, candidates) ==
    With(m, {id \in candidates \intersect InState(m, "Forgiven") : m.records[id].stale >= 1},
         LAMBDA r : [r EXCEPT !.state = "Archived"])

\* The record and the node go; the row and the terms stay.
Pruned(m) ==
    LET dead == {id \in InState(m, "Archived") : m.records[id].fid = 0}
    IN [m EXCEPT !.records = [id \in DOMAIN @ \ dead |-> @[id]],
                 !.graph = FoldSet(LAMBDA id, g : Removed(g, id), @, dead)]

-----------------------------------------------------------------------------
Tier(intensity) ==
    IF intensity < 1 THEN "Minimal" ELSE IF intensity < 3 THEN "Moderate" ELSE "Full"

\* Everything a dream of this intensity (in quarters) may make of m.
Dreams(m, intensity) ==
    LET decayed == {Forgiven(Ticked(m, lowered)) : lowered \in Lowered(m, intensity)}
        merged == UNION {UNION {Consolidated(w, order) : order \in SetToSeqs(InState(w, "Active"))} :
                         w \in decayed}
        woven == IF Tier(intensity) = "Minimal" THEN merged ELSE {Discovered(c) : c \in merged}
        reviewed == IF Tier(intensity) = "Full" THEN UNION {Reviewed(d) : d \in woven} ELSE woven
    IN {Pruned(Archived(r, ForgivenBefore(m, r))) : r \in reviewed}
=============================================================================
