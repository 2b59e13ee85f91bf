----------------------------- MODULE EpisodeQuery -----------------------------
(***************************************************************************)
(* Queries over the projection of episodes (ferricula-episode query.rs):   *)
(* lexical hits, the expansion by one hop from what matched, and a sample  *)
(* of the unresolved episodes, each with a budget of its own.              *)
(*                                                                         *)
(* A request carries its projection: how well each observation matches,    *)
(* which goals and hypotheses match, the links in their order, which       *)
(* episodes are unresolved, and the hypotheses of each.  The seeded        *)
(* shuffle is a choice of the order the sample comes in.                   *)
(***************************************************************************)
EXTENDS Naturals, SequencesExt

CONSTANTS
    Observations,       \* event ids, in the order of their names
    Asks,               \* requests with their projections
    MaxHits             \* MAX_QUERY_LIMIT

VARIABLES
    ask,                \* the request and its projection, or none
    hits                \* [phase, lexical, linked, explored, excluded, eligible, all]

queryVars == <<ask, hits>>

Least(a, b) == IF a < b THEN a ELSE b
Top(n, s) == SubSeq(s, 1, Least(n, Len(s)))
IdsOf(bundles) == {bundles[k].id : k \in DOMAIN bundles}

Unasked == [mode |-> "none", limit |-> 0, links |-> 0, seeds |-> 0, cap |-> 0, explore |-> 0,
            match |-> <<>>, goals |-> <<>>, hyps |-> <<>>, edges |-> <<>>, unresolved |-> {}]
NoHits == [phase |-> "idle", lexical |-> <<>>, linked |-> <<>>, explored |-> <<>>, excluded |-> <<>>,
           eligible |-> 0, all |-> <<>>]

-----------------------------------------------------------------------------
\* The stable sort.
OrderedBy(s, Better(_, _)) ==
    LET Before(i, j) == Better(s[i], s[j]) \/ (~Better(s[j], s[i]) /\ i < j)
    IN  [r \in DOMAIN s |-> s[CHOOSE i \in DOMAIN s : Cardinality({j \in DOMAIN s : Before(j, i)}) = r - 1]]

\* Of equal scores the smaller id comes first.
Matching == SelectSeq(Observations, LAMBDA o : ask.match[o] > 0)
RankedByMatch == OrderedBy(Matching, LAMBDA a, b : ask.match[a] > ask.match[b])

\* Observations seed first, then goals, then hypotheses.
Seeds ==
    LET hyps == SelectSeq(ask.hyps, LAMBDA h : h.matched)
    IN  Top(ask.seeds, Matching \o ask.goals \o [k \in DOMAIN hyps |-> hyps[k].id])

LinksOf(id) == SelectSeq(ask.edges, LAMBDA e : e.from = id)

\* build_bundle: the standing interpretation is the best of its status, the
\* latest of equals; its context is closed in plain mode.
Rank == [s \in {"Supported", "Candidate", "Disconfirmed", "Superseded"} |->
            CASE s = "Supported" -> 3 [] s = "Candidate" -> 2 [] s = "Disconfirmed" -> 1 [] OTHER -> 0]
Interpretations(o) ==
    OrderedBy(SelectSeq(ask.hyps, LAMBDA h : h.target = o),
              LAMBDA g, h : Rank[g.status] > Rank[h.status] \/ (Rank[g.status] = Rank[h.status] /\ g.at > h.at))
Context(o) ==
    IF ask.mode = "plain" THEN {} ELSE {Top(ask.links, LinksOf(o))[k].to : k \in DOMAIN Top(ask.links, LinksOf(o))}
Bundle(o, via) == [id |-> o, via |-> via, read |-> Interpretations(o), context |-> Context(o)]

\* The candidates one seed leads to: what a hypothesis explains, then its
\* neighbours.
Hops(seed) ==
    LET explained == SelectSeq(ask.hyps, LAMBDA h : h.id = seed)
        neighbours == Top(ask.links, LinksOf(seed))
    IN  [k \in DOMAIN explained |-> explained[k].target] \o [k \in DOMAIN neighbours |-> neighbours[k].to]

Visited(acc) == IdsOf(hits.lexical) \union IdsOf(acc.linked)

Linked(acc, seed, target) ==
    CASE target \notin ToSet(Observations) ->
            [acc EXCEPT !.excluded = Append(@, [id |-> target, why |-> "unresolvable"])]
      [] target \in ToSet(Observations) /\ target \in Visited(acc) ->
            [acc EXCEPT !.excluded = Append(@, [id |-> target, why |-> "visited"])]
      [] target \in ToSet(Observations) \ Visited(acc) /\ Len(acc.linked) >= ask.cap ->
            [acc EXCEPT !.excluded = Append(@, [id |-> target, why |-> "overflow"])]
      [] OTHER -> [acc EXCEPT !.linked = Append(@, Bundle(target, seed))]

-----------------------------------------------------------------------------
Scan ==
    /\ hits.phase = "scan"
    /\ hits' = LET ranked == Top(ask.limit, RankedByMatch)
               IN  [hits EXCEPT !.lexical = [k \in DOMAIN ranked |-> Bundle(ranked[k], "none")],
                                !.phase = IF ask.mode = "plain" THEN "combine" ELSE "expand"]
    /\ UNCHANGED ask

Expand ==
    /\ hits.phase = "expand"
    /\ hits' = LET Of(acc, seed) == FoldLeft(LAMBDA a, t : Linked(a, seed, t), acc, Hops(seed))
                   none == [linked |-> <<>>, excluded |-> <<>>]
                   reached == IF ask.links = 0 \/ ask.seeds = 0 \/ ask.cap = 0 THEN none
                              ELSE FoldLeft(Of, none, Seeds)
               IN  [hits EXCEPT !.linked = reached.linked, !.excluded = reached.excluded,
                                !.phase = IF ask.mode = "explore" THEN "explore" ELSE "combine"]
    /\ UNCHANGED ask

Eligible == ask.unresolved \ (IdsOf(hits.lexical) \union IdsOf(hits.linked))

Explore ==
    /\ hits.phase = "explore"
    /\ \E sample \in kSubset(Least(Cardinality(Eligible), ask.explore), Eligible) :
        hits' = [hits EXCEPT !.explored = [k \in 1..Cardinality(sample) |-> Bundle(SetToSeq(sample)[k], "none")],
                             !.eligible = Cardinality(Eligible), !.phase = "combine"]
    /\ UNCHANGED ask

Combine ==
    /\ hits.phase = "combine"
    /\ hits' = [hits EXCEPT !.all = Top(MaxHits, hits.lexical \o hits.linked \o hits.explored), !.phase = "done"]
    /\ UNCHANGED ask

QueryInit ==
    /\ ask \in Asks
    /\ hits = [NoHits EXCEPT !.phase = IF ask.mode = "none" THEN "idle" ELSE "scan"]

QueryNext == Scan \/ Expand \/ Explore \/ Combine

-----------------------------------------------------------------------------
Answered == hits.phase = "done"
AllBundles == hits.lexical \o hits.linked \o hits.explored

\* The arms are separable: no episode is in two of them or twice in one, so
\* that what an arm adds can be counted.
NoEpisodeTwice == Answered => Cardinality(IdsOf(AllBundles)) = Len(AllBundles)

\* "strict 1-hop" (query.rs 238, 278): a linked hit is the target of a
\* hypothesis that matched, or a direct neighbour of something that matched;
\* nothing is reached over two edges.
LinkedIsOneHop ==
    \A k \in DOMAIN hits.linked :
        LET b == hits.linked[k]
        IN  /\ \/ b.via \in ToSet(Observations) /\ ask.match[b.via] > 0
               \/ b.via \in ToSet(ask.goals)
               \/ \E j \in DOMAIN ask.hyps : ask.hyps[j].id = b.via /\ ask.hyps[j].matched
            /\ \/ \E j \in DOMAIN ask.edges : ask.edges[j].from = b.via /\ ask.edges[j].to = b.id
               \/ \E j \in DOMAIN ask.hyps : ask.hyps[j].id = b.via /\ ask.hyps[j].target = b.id

\* Every hop from a seed that was followed is accounted for: the episode is
\* in the answer, or an exclusion says why it is not; "visited" is said only
\* of one that is in the answer, "overflow" only when the cap is full.
HopsAreAccounted ==
    Answered /\ ask.mode # "plain" /\ ask.links > 0 /\ ask.seeds > 0 /\ ask.cap > 0 =>
        /\ \A s \in ToSet(Seeds) : \A t \in ToSet(Hops(s)) :
                t \in IdsOf(AllBundles) \/ \E k \in DOMAIN hits.excluded : hits.excluded[k].id = t
        /\ \A k \in DOMAIN hits.excluded :
                LET e == hits.excluded[k]
                IN  /\ e.why = "visited" => e.id \in IdsOf(hits.lexical \o hits.linked)
                    /\ e.why = "overflow" => Len(hits.linked) = ask.cap

\* Of several hypotheses about an episode the reader is shown the one that
\* stands: none that is disconfirmed or superseded while another is supported
\* or open.
StandingIsShown ==
    \A k \in DOMAIN AllBundles :
        LET read == AllBundles[k].read
        IN  read # <<>> => \A j \in DOMAIN read : Rank[read[1].status] >= Rank[read[j].status]
=============================================================================
