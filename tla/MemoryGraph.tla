----------------------------- MODULE MemoryGraph -----------------------------
(***************************************************************************)
(* The memory graph (ferricula-core/src/graph.rs): labelled edges between  *)
(* memories, at most one for a pair, and the two indexes kept beside them: *)
(* adjacency, which traversal reads, and causal_predecessors, which only   *)
(* clean-up reads.  Labels, weights and the per-edge history are left out. *)
(*                                                                         *)
(* Every operator takes a graph and returns one.  A graph whose pair was   *)
(* connected twice with another kind or direction keeps what the first     *)
(* connect put into the indexes: the code replaces the edge only.          *)
(***************************************************************************)
EXTENDS FiniteSets

CONSTANT Nodes    \* ids of memories

EdgeKinds == {"Semantic", "Causal", "Structural"}

Edges == [from : Nodes, to : Nodes, kind : EdgeKinds]

Graphs ==
    [edges : SUBSET Edges, adjacency : [Nodes -> SUBSET Nodes],
     causal_predecessors : [Nodes -> SUBSET Nodes]]

NoGraph ==
    [edges |-> {},
     adjacency |-> [n \in Nodes |-> {}],
     causal_predecessors |-> [n \in Nodes |-> {}]]

\* canonical_key
Pair(e) == {e.from, e.to}

\* What an edge lets n see in adjacency, and in causal_predecessors.
Forward(e, n) ==
    {m \in Pair(e) : \/ n = e.from /\ m = e.to
                     \/ n = e.to /\ m = e.from /\ e.kind # "Causal"}
Backward(e, n) == {m \in Pair(e) : n = e.to /\ m = e.from /\ e.kind = "Causal"}

\* connect
Connected(g, e) ==
    [edges |-> {f \in g.edges : Pair(f) # Pair(e)} \cup {e},
     adjacency |-> [n \in Nodes |-> g.adjacency[n] \cup Forward(e, n)],
     causal_predecessors |-> [n \in Nodes |-> g.causal_predecessors[n] \cup Backward(e, n)]]

\* disconnect, one edge after the other
Cut(g, gone) ==
    [edges |-> g.edges \ gone,
     adjacency |-> [n \in Nodes |-> g.adjacency[n] \ UNION {Forward(e, n) : e \in gone}],
     causal_predecessors |->
         [n \in Nodes |-> g.causal_predecessors[n] \ UNION {Backward(e, n) : e \in gone}]]

\* disconnect, for the edge of the pair, if there is one
Disconnected(g, pair) == Cut(g, {e \in g.edges : Pair(e) = pair})

\* remove_node
Removed(g, id) ==
    [Cut(g, {e \in g.edges : id \in Pair(e)}) EXCEPT
        !.adjacency[id] = {}, !.causal_predecessors[id] = {}]

\* load_edges, for edges of different pairs
Rebuilt(edges) ==
    [edges |-> edges,
     adjacency |-> [n \in Nodes |-> UNION {Forward(e, n) : e \in edges}],
     causal_predecessors |-> [n \in Nodes |-> UNION {Backward(e, n) : e \in edges}]]

\* neighbors, and neighborhood_2: two hops forward, without the start
Neighbors(g, id) == g.adjacency[id]
Neighborhood2(g, id) ==
    (g.adjacency[id] \cup UNION {g.adjacency[n] : n \in g.adjacency[id]}) \ {id}

\* Every edge can be walked, in both directions unless it is causal, and a
\* causal one can be found from its end for clean-up.
EdgesAreIndexed(g) ==
    \A e \in g.edges :
        /\ e.to \in g.adjacency[e.from]
        /\ e.kind # "Causal" => e.from \in g.adjacency[e.to]
        /\ e.kind = "Causal" => e.from \in g.causal_predecessors[e.to]
=============================================================================
