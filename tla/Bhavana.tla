-------------------------------- MODULE Bhavana --------------------------------
(***************************************************************************)
(* The nightly cycle of the second generation (ferricula-cognition:        *)
(* bhavana.rs, dream.rs, karmic.rs over ferricula-core memory.rs): decay,  *)
(* proposals, consolidation as an index, discovery of edges, promotion of  *)
(* anchors, and the decisions that release a memory.                       *)
(*                                                                         *)
(* A night goes phase by phase because any entry the karmic sink refuses   *)
(* ends it with what it has done so far.  A cluster is its set of members: *)
(* the id is a hash of the sorted ids.  Fidelity has three levels: 2 above *)
(* 0.95, 1 not below the gate, 0 below it.  Decay rates, halo, neglect and *)
(* centroids are left out: they move how soon a level is left.  Whether a  *)
(* released memory is stale is a reading of the clock: either.             *)
(***************************************************************************)
EXTENDS Naturals, SequencesExt

CONSTANTS
    Ids,                \* memories, numbers
    Similar, Near,      \* pairs at or above 0.85, pairs in [0.7, 0.85)
    Often,              \* memories recalled five times or more
    MinCluster,         \* policy.min_cluster
    MaxEdges,           \* EDGE_MAX_PER_DREAM
    Orders,             \* orders a hash map may yield the memories in
    Nights              \* per behaviour: what the owner, the gate and the sink may do

\* What a behaviour allows; the sink may refuse as often as refusals says.
Allowances ==
    [nights : BOOLEAN, known : SUBSET Ids, anchors : SUBSET Ids, learn : SUBSET Ids,
     decide : SUBSET Ids, tie : SUBSET SUBSET Ids, reloads : Nat, sink : Nat, refusals : Nat,
     verdicts : SUBSET STRING]

ASSUME NightAssumption ==
    /\ IsFiniteSet(Ids) /\ Orders \subseteq Seq(Ids)
    /\ \A b \in Nights : b \in Allowances /\ b.refusals = b.sink

VARIABLES
    memories,           \* id -> record
    links,              \* pair -> kind of edge
    index,              \* BhavanaState
    karma,              \* what the log says: deepened per id, released, reviewed
    pending,            \* proposals of the last night
    night,              \* where the cycle is
    order,              \* how the store's map iterates in this process
    left                \* bounds

nightVars == <<memories, links, index, karma, pending, night, order, left>>

NewMemory == [state |-> "Active", keystone |-> FALSE, fid |-> 2, depth |-> 0]
NoIndex == [clusters |-> {}, member |-> [i \in {} |-> {}], reviewed |-> {}]
Awake == [phase |-> "none", roles |-> {}, groups |-> <<>>]

InState(s) == {i \in DOMAIN memories : memories[i].state = s}
Anchors == {i \in DOMAIN memories : memories[i].keystone}
Pair(i, j) == {i, j}
Pairs(S) == {p \in SUBSET S : Cardinality(p) = 2}

-----------------------------------------------------------------------------
\* Each memory not taken yet takes the similar ones not taken yet, in the
\* order the map yields them; a group that is too small gives up its seed only.
Seeded(ids, acc, i) ==
    IF i \notin ids \/ i \in acc.taken THEN acc
    ELSE LET g == {i} \union {j \in ids \ acc.taken : Pair(i, j) \in Similar}
         IN IF Cardinality(g) >= Max({MinCluster, 2})
            THEN [taken |-> acc.taken \union g, groups |-> Append(acc.groups, g)]
            ELSE [acc EXCEPT !.taken = @ \union {i}]

SimilarityGroups(ids, yielded) ==
    LET after[n \in 0 .. Len(yielded)] ==
            IF n = 0 THEN [taken |-> {}, groups |-> <<>>]
            ELSE Seeded(ids, after[n - 1], yielded[n])
    IN  after[Len(yielded)].groups

\* activation_roles: none, a quarter and more, three quarters and more.
ActivationRoles(intensity) ==
    CASE intensity <= 1 -> {} [] intensity = 2 -> {"Intuition"} [] OTHER -> {"Intuition", "Ethics"}

\* select_by_entropy: all at full intensity, none at zero, else as the bytes say.
Selections(intensity, S) ==
    CASE intensity = 0 -> {{}} [] intensity = 4 -> {S} [] OTHER -> SUBSET S

\* decay_tick
Ticked(m) == [m EXCEPT !.fid = IF @ = 0 THEN 0 ELSE @ - 1]

\* A proposal leaves the record alone.
Proposed(i) == memories[i]

\* What may be proposed: a faded memory must be, a forgiven one when stale.
Faded == {i \in InState("Active") \ Anchors : memories[i].fid = 0}
Proposals(stale) ==
    {[id |-> i, kind |-> "upekkha"] : i \in Faded}
    \union {[id |-> i, kind |-> "nirodha"] : i \in stale}

Merged(group, verdict) == group \intersect Anchors = {} /\ verdict = "same"

\* A member whose old cluster lies inside the group brings nothing new.
Superseded(group) ==
    {c \in index.clusters : c \subseteq group /\ \E i \in group : i \in DOMAIN index.member /\ index.member[i] = c}

NewlyJoined(group) ==
    {i \in group : i \notin DOMAIN index.member \/ index.member[i] \notin Superseded(group)}

Deepened(group) ==
    [i \in DOMAIN memories |->
        IF i \in NewlyJoined(group) THEN [memories[i] EXCEPT !.depth = @ + 1] ELSE memories[i]]

\* Mutant: membership is kept for those that were members already.
MembershipOfTheNew(group) ==
    [i \in DOMAIN index.member \union group |->
        IF i \in NewlyJoined(group) THEN group ELSE index.member[i]]

Membership(group) ==
    [i \in DOMAIN index.member \union group |-> IF i \in group THEN group ELSE index.member[i]]

\* connect, where there was no edge.
Linked(pairs, kind) ==
    [p \in DOMAIN links \union pairs |-> IF p \in DOMAIN links THEN links[p] ELSE kind]

\* discover_semantic_edges: the cap is reached in the order of the pool.
Discoverable == {p \in Pairs(InState("Active")) : p \in Near /\ p \notin DOMAIN links}
Discoveries ==
    {S \in SUBSET Discoverable : Cardinality(S) = Min({MaxEdges, Cardinality(Discoverable)})}

\* review_keystones: the first one the store yields.
Promotable == {i \in InState("Active") \ Anchors : i \in Often /\ memories[i].fid = 2}

-----------------------------------------------------------------------------
\* The sink: an entry is appended, or refused and the call ends with an error.
Refused ==
    /\ left.refusals > 0
    /\ left' = [left EXCEPT !.refusals = @ - 1]

\* The error takes the proposals of the night with it.
Aborted == night' = Awake /\ pending' = {}

\* Phases 0 and 1
StartNight ==
    /\ night.phase = "none" /\ left.nights
    /\ \E intensity \in 0..4 : \E sel \in Selections(intensity, InState("Active") \ Anchors) :
        /\ memories' = [i \in DOMAIN memories |-> IF i \in sel THEN Ticked(memories[i]) ELSE memories[i]]
        /\ night' = [Awake EXCEPT !.phase = "propose", !.roles = ActivationRoles(intensity)]
    /\ pending' = {}
    /\ UNCHANGED <<links, index, karma, order, left>>

\* Phase 2, and the groups phase 3 starts from.
Propose ==
    /\ night.phase = "propose"
    /\ \E stale \in SUBSET InState("Forgiven") :
        \/ /\ pending' = Proposals(stale)
           /\ memories' = [i \in DOMAIN memories |-> Proposed(i)]
           /\ night' = [night EXCEPT !.phase = "consolidate", !.groups = SimilarityGroups(InState("Active"), order)]
           /\ UNCHANGED <<links, index, karma, order, left>>
        \/ /\ Proposals(stale) # {} /\ Refused /\ Aborted
           /\ UNCHANGED <<memories, links, index, karma, order>>

\* Phase 3, one group: known already, for review, or a new cluster.
Known ==
    /\ night.phase = "consolidate" /\ night.groups # <<>>
    /\ Head(night.groups) \in index.clusters
    /\ night' = [night EXCEPT !.groups = Tail(@)]
    /\ UNCHANGED <<memories, links, index, karma, pending, order, left>>

Review(group) ==
    /\ index' = [index EXCEPT !.reviewed = @ \union {group}]
    /\ \/ /\ karma' = [karma EXCEPT !.reviewed = IF group \in index.reviewed THEN @ ELSE @ \union {group}]
          /\ night' = [night EXCEPT !.groups = Tail(@)]
          /\ UNCHANGED <<pending, left>>
       \/ group \notin index.reviewed /\ Refused /\ Aborted /\ UNCHANGED karma
    /\ UNCHANGED <<memories, links, order>>

Build(group) ==
    LET joined == NewlyJoined(group)
    IN  /\ memories' = Deepened(group)
        /\ links' = Linked(Pairs(group), "Semantic")
        /\ \/ /\ index' = [index EXCEPT !.member = Membership(group),
                                        !.clusters = (@ \ Superseded(group)) \union {group}]
              /\ karma' = [karma EXCEPT !.deepened = [i \in Ids |-> IF i \in joined THEN @[i] + 1 ELSE @[i]]]
              /\ night' = [night EXCEPT !.groups = Tail(@)]
              /\ UNCHANGED <<pending, left>>
           \/ /\ Refused /\ Aborted
              /\ index' = [index EXCEPT !.member = Membership(group), !.clusters = @ \ Superseded(group)]
              /\ UNCHANGED karma
        /\ UNCHANGED order

Consolidate ==
    /\ night.phase = "consolidate" /\ night.groups # <<>>
    /\ Head(night.groups) \notin index.clusters
    /\ \E verdict \in left.verdicts :
        IF Merged(Head(night.groups), verdict) THEN Build(Head(night.groups)) ELSE Review(Head(night.groups))

\* Phases 3.5, 4 and 5
Finish ==
    /\ night.phase = "consolidate" /\ night.groups = <<>>
    /\ IF "Intuition" \in night.roles
       THEN \E found \in Discoveries : links' = Linked(found, "Semantic")
       ELSE UNCHANGED links
    /\ IF "Ethics" \in night.roles /\ Promotable # {}
       THEN \E i \in Promotable : memories' = [memories EXCEPT ![i].keystone = TRUE]
       ELSE UNCHANGED memories
    /\ night' = Awake
    /\ UNCHANGED <<index, karma, pending, order, left>>

-----------------------------------------------------------------------------
\* forgive, archive
Applicable(d) ==
    /\ d.id \in DOMAIN memories
    /\ memories[d.id].state = IF d.kind = "upekkha" THEN "Active" ELSE "Forgiven"

\* apply_release with one approved decision; a declined one changes nothing.
\* The record changes before its entry is written.
Apply(d) ==
    /\ night.phase = "none" /\ d.id \in left.decide
    /\ memories' = IF Applicable(d)
                   THEN [memories EXCEPT ![d.id].state = IF d.kind = "upekkha" THEN "Forgiven" ELSE "Archived"]
                   ELSE memories
    /\ \/ /\ karma' = [karma EXCEPT !.released = IF Applicable(d) THEN @ \union {d} ELSE @]
          /\ UNCHANGED left
       \/ Applicable(d) /\ Refused /\ UNCHANGED karma
    /\ UNCHANGED <<links, index, pending, night, order>>

\* The owner between two nights.
Learn(i) ==
    /\ night.phase = "none" /\ i \in left.learn /\ i \notin DOMAIN memories
    /\ memories' = [j \in DOMAIN memories \union {i} |-> IF j = i THEN NewMemory ELSE memories[j]]
    /\ order' \in Orders              \* the map may grow
    /\ UNCHANGED <<links, index, karma, pending, night, left>>

\* The process starts again over the same memories: the map is another one.
Reload ==
    /\ night.phase = "none" /\ left.reloads > 0
    /\ left' = [left EXCEPT !.reloads = @ - 1]
    /\ order' \in Orders \ {order}
    /\ UNCHANGED <<memories, links, index, karma, pending, night>>

\* connect, a causal edge of the owner's.
Tie(p) ==
    /\ night.phase = "none" /\ p \in left.tie /\ p \subseteq DOMAIN memories
    /\ links' = [q \in DOMAIN links \union {p} |-> IF q = p THEN "Causal" ELSE links[q]]
    /\ UNCHANGED <<memories, index, karma, pending, night, order, left>>

Decisions == [id : Ids, kind : {"upekkha", "nirodha"}]

NightInit ==
    /\ left \in Nights
    /\ memories = [i \in left.known |-> [state |-> "Active", keystone |-> i \in left.anchors,
                                         fid |-> IF i \in Often THEN 2 ELSE 1, depth |-> 0]]
    /\ links = [p \in {} |-> ""]
    /\ index = NoIndex
    /\ karma = [deepened |-> [i \in Ids |-> 0], released |-> {}, reviewed |-> {}]
    /\ pending = {}
    /\ night = Awake
    /\ order \in Orders

Phase == Propose \/ Known \/ Consolidate \/ Finish

NightNext ==
    \/ StartNight \/ Phase
    \/ \E d \in Decisions : Apply(d)
    \/ \E i \in Ids : Learn(i)
    \/ Reload
    \/ \E p \in Pairs(Ids) : Tie(p)

\* A night is one call, which runs to its end; that another one is begun is
\* up to the callers, and nothing in the repository does it on a clock.
NightFairness == WF_night(Phase)

NightSpec == NightInit /\ [][NightNext]_nightVars

-----------------------------------------------------------------------------
RefusedSoFar(b) == b.sink - b.refusals

NightTypeOK ==
    /\ \A i \in DOMAIN memories : i \in Ids /\ memories[i].fid \in 0..2
    /\ index.clusters \subseteq SUBSET Ids
    /\ DOMAIN index.member \subseteq DOMAIN memories
    /\ pending \subseteq Decisions

\* A memory leaves Active only by a decision, and the log names each one, but
\* for one per entry the sink refused: the state changes before the entry is
\* written (apply_release).
ReleasesAreLogged ==
    LET unlogged == {i \in DOMAIN memories :
            /\ memories[i].state # "Active"
            /\ [id |-> i, kind |-> "upekkha"] \notin karma.released}
    IN  /\ Cardinality(unlogged) <= RefusedSoFar(left)
        /\ \A d \in karma.released : memories[d.id].state # "Active"

\* The depth that slows a memory's decay is the number of clusters the log
\* says it newly joined: nights over the same structure do not add up, but
\* for one per refused entry.
DepthIsLogged ==
    \A i \in DOMAIN memories :
        /\ memories[i].depth >= karma.deepened[i]
        /\ memories[i].depth <= karma.deepened[i] + RefusedSoFar(left)

\* A member's cluster exists and lists it, whatever clusters were superseded;
\* at most one name per refused entry points nowhere.
MembershipResolves ==
    /\ \A i \in DOMAIN index.member : i \in index.member[i]
    /\ Cardinality({index.member[i] : i \in DOMAIN index.member} \ index.clusters) <= RefusedSoFar(left)

\* An anchor is never drawn into a cluster: its depth stays as it was when it
\* became one, however the groups around it change.
AnchorsStayApart ==
    [][\A i \in DOMAIN memories : memories[i].keystone => memories'[i].depth = memories[i].depth]_nightVars

\* A night never removes an edge or changes its kind: what the owner tied
\* stays tied.
LinksSurvive ==
    [][\A p \in DOMAIN links : p \in DOMAIN links' /\ (links[p] = "Causal" => links'[p] = "Causal")]_nightVars

\* Faded memories are not forgotten: whoever has nights run again and again
\* sees each of them proposed again and again, although a night that fails
\* half way drops its proposals.
FadedIsProposed ==
    []<><<StartNight>>_nightVars => []<>(\A i \in Faded : [id |-> i, kind |-> "upekkha"] \in pending)

\* What a night changes is what its log says, but for one entry per refusal of
\* the sink.
NightIsLogged ==
    /\ NightTypeOK
    /\ ReleasesAreLogged
    /\ DepthIsLogged
    /\ MembershipResolves
=============================================================================
