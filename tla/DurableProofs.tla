---------------------------- MODULE DurableProofs ----------------------------
(***************************************************************************)
(* The durable engine, for every workload and limit: its derived indexes   *)
(* agree with what they are derived from, a log that can be read is never  *)
(* refused, and every step of it is a step of Store.                       *)
(***************************************************************************)
EXTENDS DurableEngine, WellFoundedInduction, TLAPS

(* Induction over an interval, for a set of numbers                         *)

LEMMA SetInduction ==
  ASSUME NEW P, 0 \in P, \A n \in Nat : n \in P => n + 1 \in P
  PROVE  Nat \subseteq P
<1> DEFINE R == OpToRel(<, Nat)
<1> DEFINE T == Nat \ P
<1>1. IsWellFoundedOn(R, Nat)
  BY NatLessThanWellFounded
<1>2. \A x, y \in Nat : y < x => <<y, x>> \in R
  BY DEF OpToRel
<1> HIDE DEF R
<1>3. SUFFICES ASSUME T # {} PROVE FALSE
  OBVIOUS
<1>4. PICK x \in T : \A y \in T : ~ (<<y, x>> \in R)
  BY <1>1, <1>3, WFMin
<1>5. x \in Nat /\ x # 0
  OBVIOUS
<1>6. x - 1 \in Nat /\ x - 1 < x /\ x = (x - 1) + 1
  BY <1>5
<1>7. x - 1 \in T
  BY <1>6
<1>8. <<x - 1, x>> \in R
  BY <1>2, <1>5, <1>6
<1> QED
  BY <1>4, <1>7, <1>8

LEMMA IntervalInduction ==
  ASSUME NEW n \in Nat, NEW P, 0 \in P, \A s \in 1 .. n : s - 1 \in P => s \in P
  PROVE  0 .. n \subseteq P
<1> DEFINE Q == {s \in Nat : s <= n => s \in P}
<1>1. 0 \in Q
  OBVIOUS
<1>2. ASSUME NEW s \in Nat, s \in Q
      PROVE  s + 1 \in Q
  <2>1. CASE s + 1 <= n
    <3>1. s + 1 \in 1 .. n /\ (s + 1) - 1 = s /\ s \in P
      BY <1>2, <2>1
    <3> QED
      BY <3>1
  <2> QED
    BY <1>2, <2>1
<1>3. Nat \subseteq Q
  <2> HIDE DEF Q
  <2> QED
    BY <1>1, <1>2, SetInduction
<1> QED
  BY <1>3

-----------------------------------------------------------------------------
(* The graph                                                                *)

GraphOK(g) == g \in Graphs /\ EdgesAreIndexed(g)

\* What an edge puts into the indexes is about its own pair.
LEMMA OfOwnPair ==
  ASSUME NEW e \in Edges, NEW n \in Nodes, NEW m \in Forward(e, n) \cup Backward(e, n)
  PROVE  Pair(e) = {n, m} /\ m \in Nodes
BY DEF Forward, Backward, Pair, Edges

LEMMA OwnEnds ==
  ASSUME NEW e \in Edges
  PROVE  /\ e.from \in Nodes /\ e.to \in Nodes
         /\ e.to \in Forward(e, e.from)
         /\ e.kind # "Causal" => e.from \in Forward(e, e.to)
         /\ e.kind = "Causal" => e.from \in Backward(e, e.to)
BY DEF Forward, Backward, Pair, Edges

LEMMA NoGraphOK == GraphOK(NoGraph)
BY DEF GraphOK, Graphs, NoGraph, EdgesAreIndexed

LEMMA ConnectedOK ==
  ASSUME NEW g, GraphOK(g), NEW e \in Edges
  PROVE  GraphOK(Connected(g, e))
<1> DEFINE h == Connected(g, e)
<1>1. \A n \in Nodes : Forward(e, n) \subseteq Nodes /\ Backward(e, n) \subseteq Nodes
  BY OfOwnPair
<1>2. h \in Graphs
  BY <1>1 DEF GraphOK, Graphs, Connected
<1>3. ASSUME NEW f \in h.edges
      PROVE  /\ f.to \in h.adjacency[f.from]
             /\ f.kind # "Causal" => f.from \in h.adjacency[f.to]
             /\ f.kind = "Causal" => f.from \in h.causal_predecessors[f.to]
  <2>1. f \in Edges /\ (f \in g.edges \/ f = e)
    BY <1>3 DEF GraphOK, Graphs, Connected
  <2>2. f.from \in Nodes /\ f.to \in Nodes
    BY <2>1, OwnEnds
  <2>3. /\ h.adjacency[f.from] = g.adjacency[f.from] \cup Forward(e, f.from)
        /\ h.adjacency[f.to] = g.adjacency[f.to] \cup Forward(e, f.to)
        /\ h.causal_predecessors[f.to] = g.causal_predecessors[f.to] \cup Backward(e, f.to)
    BY <2>2 DEF Connected
  <2>4. CASE f \in g.edges
    BY <2>3, <2>4 DEF GraphOK, EdgesAreIndexed
  <2>5. CASE f = e
    BY <2>3, <2>5, OwnEnds
  <2> QED
    BY <2>1, <2>4, <2>5
<1> QED
  BY <1>2, <1>3 DEF GraphOK, EdgesAreIndexed

LEMMA CutOK ==
  ASSUME NEW g, GraphOK(g), NEW gone \in SUBSET Edges,
         \A e \in g.edges \ gone, f \in gone : Pair(e) # Pair(f)
  PROVE  GraphOK(Cut(g, gone))
<1> DEFINE h == Cut(g, gone)
<1>1. h \in Graphs
  BY DEF GraphOK, Graphs, Cut
<1>2. ASSUME NEW e \in h.edges
      PROVE  /\ e.to \in h.adjacency[e.from]
             /\ e.kind # "Causal" => e.from \in h.adjacency[e.to]
             /\ e.kind = "Causal" => e.from \in h.causal_predecessors[e.to]
  <2>1. e \in g.edges \ gone /\ e \in Edges
    BY <1>2 DEF GraphOK, Graphs, Cut
  <2>2. e.from \in Nodes /\ e.to \in Nodes
    BY <2>1, OwnEnds
  <2>3. /\ h.adjacency[e.from] = g.adjacency[e.from] \ UNION {Forward(f, e.from) : f \in gone}
        /\ h.adjacency[e.to] = g.adjacency[e.to] \ UNION {Forward(f, e.to) : f \in gone}
        /\ h.causal_predecessors[e.to]
             = g.causal_predecessors[e.to] \ UNION {Backward(f, e.to) : f \in gone}
    BY <2>2 DEF Cut
  <2>4. Pair(e) = {e.from, e.to} /\ Pair(e) = {e.to, e.from}
    BY DEF Pair
  <2>5. ASSUME NEW f \in gone
        PROVE  e.to \notin Forward(f, e.from) /\ e.from \notin Forward(f, e.to)
                 /\ e.from \notin Backward(f, e.to)
    <3>1. Pair(f) # Pair(e)
      BY <2>1
    <3> QED
      BY <2>2, <2>4, <3>1, OfOwnPair
  <2> QED
    BY <2>1, <2>3, <2>5 DEF GraphOK, EdgesAreIndexed
<1> QED
  BY <1>1, <1>2 DEF GraphOK, EdgesAreIndexed

LEMMA DisconnectedOK ==
  ASSUME NEW g, GraphOK(g), NEW pair
  PROVE  GraphOK(Disconnected(g, pair))
<1> DEFINE hits == {e \in g.edges : Pair(e) = pair}
<1>1. hits \in SUBSET Edges
  BY DEF GraphOK, Graphs
<1>2. \A e \in g.edges \ hits, f \in hits : Pair(e) # Pair(f)
  OBVIOUS
<1>3. Disconnected(g, pair) = Cut(g, hits)
  BY DEF Disconnected
<1> HIDE DEF hits
<1> QED
  BY <1>1, <1>2, <1>3, CutOK

LEMMA RemovedOK ==
  ASSUME NEW g, GraphOK(g), NEW id \in Nodes
  PROVE  /\ GraphOK(Removed(g, id))
         /\ Removed(g, id).edges = {e \in g.edges : id \notin Pair(e)}
<1> DEFINE gone == {e \in g.edges : id \in Pair(e)}
<1> DEFINE h == Cut(g, gone)
<1>1. g.edges \subseteq Edges
  BY DEF GraphOK, Graphs
<1>2. GraphOK(h)
  <2>1. gone \in SUBSET Edges /\ \A e \in g.edges \ gone, f \in gone : Pair(e) # Pair(f)
    BY <1>1
  <2> HIDE DEF gone
  <2> QED
    BY <2>1, CutOK
<1>3. h.edges = {e \in g.edges : id \notin Pair(e)}
  BY DEF Cut
<1>4. Removed(g, id) = [h EXCEPT !.adjacency[id] = {}, !.causal_predecessors[id] = {}]
  BY DEF Removed
<1> HIDE DEF gone, h
<1>5. Removed(g, id) \in Graphs /\ Removed(g, id).edges = h.edges
  <2>1. h \in Graphs
    BY <1>2 DEF GraphOK
  <2>2. Removed(g, id) = [edges |-> h.edges, adjacency |-> [h.adjacency EXCEPT ![id] = {}],
                          causal_predecessors |-> [h.causal_predecessors EXCEPT ![id] = {}]]
    BY <1>4, <2>1 DEF Graphs
  <2> QED
    BY <2>1, <2>2 DEF Graphs
<1>6. ASSUME NEW n \in Nodes, n # id
      PROVE  /\ Removed(g, id).adjacency[n] = h.adjacency[n]
             /\ Removed(g, id).causal_predecessors[n] = h.causal_predecessors[n]
  BY <1>2, <1>4, <1>6 DEF GraphOK, Graphs
<1>7. ASSUME NEW e \in h.edges
      PROVE  e.from \in Nodes /\ e.to \in Nodes /\ e.from # id /\ e.to # id
  <2>1. e \in Edges /\ id \notin {e.from, e.to}
    BY <1>1, <1>3 DEF Pair
  <2> QED
    BY <2>1, OwnEnds
<1>8. EdgesAreIndexed(Removed(g, id))
  BY <1>2, <1>5, <1>6, <1>7 DEF GraphOK, EdgesAreIndexed
<1> QED
  BY <1>3, <1>5, <1>8 DEF GraphOK

LEMMA RebuiltOK ==
  ASSUME NEW edges \in SUBSET Edges
  PROVE  GraphOK(Rebuilt(edges)) /\ Rebuilt(edges).edges = edges
<1> DEFINE h == Rebuilt(edges)
<1>1. h \in Graphs /\ h.edges = edges
  <2>1. \A e \in edges, n \in Nodes : Forward(e, n) \subseteq Nodes /\ Backward(e, n) \subseteq Nodes
    BY OfOwnPair
  <2> QED
    BY <2>1 DEF Graphs, Rebuilt
<1>2. ASSUME NEW e \in edges
      PROVE  /\ e.to \in h.adjacency[e.from]
             /\ e.kind # "Causal" => e.from \in h.adjacency[e.to]
             /\ e.kind = "Causal" => e.from \in h.causal_predecessors[e.to]
  <2>1. e.from \in Nodes /\ e.to \in Nodes
    BY OwnEnds
  <2>2. /\ h.adjacency[e.from] = UNION {Forward(f, e.from) : f \in edges}
        /\ h.adjacency[e.to] = UNION {Forward(f, e.to) : f \in edges}
        /\ h.causal_predecessors[e.to] = UNION {Backward(f, e.to) : f \in edges}
    BY <2>1 DEF Rebuilt
  <2> QED
    BY <2>2, OwnEnds
<1> QED
  BY <1>1, <1>2 DEF GraphOK, EdgesAreIndexed

-----------------------------------------------------------------------------
(* The term tree                                                            *)

\* The members of a node are in their buckets, those without a bucket beside
\* them, and no bucket is empty.
NodeOK(node) ==
    /\ node = [members |-> node.members, children |-> node.children]
    /\ node.children = [b \in DOMAIN node.children |-> node.children[b]]
    /\ \A id \in node.members : Bucket(id) \notin DOMAIN node.children
    /\ \A b \in DOMAIN node.children :
          node.children[b] # {} /\ \A id \in node.children[b] : Bucket(id) = b

TreeOK(tree) ==
    /\ tree = [t \in DOMAIN tree |-> tree[t]]
    /\ \A t \in DOMAIN tree : NodeOK(tree[t])

LEMMA NewRootOK == NodeOK(NewRoot) /\ Members(NewRoot) = {}
BY DEF NodeOK, NewRoot, Members

LEMMA RoutedOK ==
  ASSUME NEW node, NodeOK(node), NEW id
  PROVE  /\ NodeOK(Routed(node, id))
         /\ Members(Routed(node, id)) = Members(node) \cup {id}
<1> DEFINE b == Bucket(id)
<1> HIDE DEF b
<1>1. CASE b \in DOMAIN node.children
  <2> DEFINE c == [node.children EXCEPT ![b] = @ \cup {id}]
  <2>1. Routed(node, id) = [members |-> node.members, children |-> c]
    BY <1>1 DEF Routed, NodeOK, b
  <2>2. DOMAIN c = DOMAIN node.children /\ c = [x \in DOMAIN c |-> c[x]]
    OBVIOUS
  <2>3. c[b] = node.children[b] \cup {id}
          /\ \A x \in DOMAIN node.children : x # b => c[x] = node.children[x]
    BY <1>1
  <2> HIDE DEF c
  <2>4. NodeOK(Routed(node, id))
    BY <1>1, <2>1, <2>2, <2>3 DEF NodeOK, b
  <2>5. UNION {c[x] : x \in DOMAIN c}
          = (UNION {node.children[x] : x \in DOMAIN node.children}) \cup {id}
    BY <1>1, <2>2, <2>3
  <2> QED
    BY <2>1, <2>4, <2>5 DEF Members
<1>2. CASE b \notin DOMAIN node.children
  <2>1. Routed(node, id) = [members |-> node.members \cup {id}, children |-> node.children]
    BY <1>2 DEF Routed, NodeOK, b
  <2> QED
    BY <1>2, <2>1 DEF NodeOK, Members, b
<1> QED
  BY <1>1, <1>2

LEMMA MaybeSplitOK ==
  ASSUME NEW node, NodeOK(node)
  PROVE  NodeOK(MaybeSplit(node)) /\ Members(MaybeSplit(node)) = Members(node)
<1> DEFINE buckets == {Bucket(id) : id \in node.members}
<1> DEFINE c == [b \in buckets |-> {id \in node.members : Bucket(id) = b}]
<1>1. CASE MaybeSplit(node) = node
  BY <1>1
<1>2. CASE MaybeSplit(node) # node
  <2>1. DOMAIN node.children = {} /\ MaybeSplit(node) = [members |-> {}, children |-> c]
    BY <1>2 DEF MaybeSplit, Split
  <2>2. DOMAIN c = buckets /\ c = [b \in DOMAIN c |-> c[b]]
          /\ \A b \in buckets : c[b] = {id \in node.members : Bucket(id) = b}
    OBVIOUS
  <2>3. \A b \in buckets : c[b] # {} /\ \A id \in c[b] : Bucket(id) = b
    OBVIOUS
  <2> HIDE DEF c
  <2>4. UNION {c[b] : b \in DOMAIN c} = node.members
    BY <2>2
  <2>5. Members(node) = node.members
    BY <2>1 DEF Members
  <2>6. Members(MaybeSplit(node)) = node.members
    BY <2>1, <2>4 DEF Members
  <2>7. NodeOK(MaybeSplit(node))
    BY <2>1, <2>2, <2>3 DEF NodeOK
  <2> QED
    BY <2>5, <2>6, <2>7
<1> QED
  BY <1>1, <1>2

LEMMA InsertedOK ==
  ASSUME NEW tree, TreeOK(tree), NEW term, NEW id
  PROVE  /\ TreeOK(Inserted(tree, term, id))
         /\ \A t : SearchExact(Inserted(tree, term, id), t)
                     = SearchExact(tree, t) \cup (IF t = term THEN {id} ELSE {})
<1> DEFINE root == IF term \in DOMAIN tree THEN tree[term] ELSE NewRoot
<1> DEFINE new == MaybeSplit(Routed(root, id))
<1> DEFINE grown == Inserted(tree, term, id)
<1>1. NodeOK(root) /\ Members(root) = SearchExact(tree, term)
  BY NewRootOK DEF TreeOK, SearchExact
<1>2. NodeOK(new) /\ Members(new) = SearchExact(tree, term) \cup {id}
  <2> HIDE DEF root
  <2> QED
    BY <1>1, RoutedOK, MaybeSplitOK
<1>3. grown = [t \in DOMAIN tree \cup {term} |-> IF t = term THEN new ELSE tree[t]]
  BY DEF Inserted
<1> HIDE DEF new, grown
<1>4. /\ DOMAIN grown = DOMAIN tree \cup {term} /\ grown[term] = new
      /\ \A t \in DOMAIN tree : t # term => grown[t] = tree[t]
      /\ grown = [t \in DOMAIN grown |-> grown[t]]
  BY <1>3
<1>5. TreeOK(grown)
  BY <1>2, <1>4 DEF TreeOK
<1>6. ASSUME NEW t
      PROVE  SearchExact(grown, t) = SearchExact(tree, t) \cup (IF t = term THEN {id} ELSE {})
  BY <1>2, <1>4 DEF SearchExact
<1> QED
  BY <1>5, <1>6 DEF grown

LEMMA WithoutMemberOK ==
  ASSUME NEW tree, TreeOK(tree), NEW id
  PROVE  /\ TreeOK(WithoutMember(tree, id))
         /\ \A t : SearchExact(WithoutMember(tree, id), t) = SearchExact(tree, t) \ {id}
<1> DEFINE left(t) ==
      [members |-> tree[t].members \ {id},
       children |-> [b \in DOMAIN tree[t].children |-> tree[t].children[b] \ {id}]]
<1> DEFINE full(t) == {b \in DOMAIN tree[t].children : tree[t].children[b] \ {id} # {}}
<1> DEFINE bare(t) ==
      [members |-> tree[t].members \ {id},
       children |-> [b \in full(t) |-> tree[t].children[b] \ {id}]]
<1> DEFINE stay == {t \in DOMAIN tree : DOMAIN tree[t].children # {} \/ tree[t].members \ {id} # {}}
<1> DEFINE cut == WithoutMember(tree, id)
<1>1. cut = [t \in stay |-> bare(t)]
  <2> DEFINE kept == [t \in DOMAIN tree |-> left(t)]
  <2> DEFINE pruned == [t \in DOMAIN tree |->
                    [kept[t] EXCEPT !.children = Restrict(@, {b \in DOMAIN @ : @[b] # {}})]]
  <2>1. cut = Restrict(pruned, {t \in DOMAIN tree : DOMAIN kept[t].children # {} \/ kept[t].members # {}})
    BY DEF WithoutMember
  <2>2. \A t \in DOMAIN tree : pruned[t] = bare(t)
    BY DEF Restrict
  <2>3. {t \in DOMAIN tree : DOMAIN kept[t].children # {} \/ kept[t].members # {}} = stay
    OBVIOUS
  <2> HIDE DEF kept, pruned, bare, cut
  <2> QED
    BY <2>1, <2>2, <2>3 DEF Restrict
<1> HIDE DEF cut
<1>2. DOMAIN cut = stay /\ cut = [t \in DOMAIN cut |-> cut[t]]
        /\ \A t \in stay : cut[t] = bare(t)
  BY <1>1
<1>3. ASSUME NEW t \in DOMAIN tree
      PROVE  NodeOK(bare(t)) /\ Members(bare(t)) = Members(tree[t]) \ {id}
  <2> DEFINE node == tree[t]
  <2> DEFINE c == [b \in full(t) |-> tree[t].children[b] \ {id}]
  <2>1. NodeOK(node)
    BY DEF TreeOK
  <2>2. bare(t).members = node.members \ {id} /\ bare(t).children = c
          /\ bare(t) = [members |-> bare(t).members, children |-> bare(t).children]
    OBVIOUS
  <2>3. DOMAIN c = full(t) /\ c = [b \in DOMAIN c |-> c[b]]
          /\ \A b \in full(t) : c[b] = node.children[b] \ {id}
    OBVIOUS
  <2> HIDE DEF bare, c
  <2>4. NodeOK(bare(t))
    BY <2>1, <2>2, <2>3 DEF NodeOK
  <2>5. UNION {c[b] : b \in DOMAIN c}
          = (UNION {node.children[b] : b \in DOMAIN node.children}) \ {id}
    BY <2>3
  <2> QED
    BY <2>2, <2>4, <2>5 DEF Members
<1>4. ASSUME NEW t \in DOMAIN tree \ stay
      PROVE  Members(tree[t]) \ {id} = {}
  BY <1>4 DEF Members
<1> HIDE DEF stay, bare
<1>5. stay \subseteq DOMAIN tree
  BY DEF stay
<1>6. TreeOK(cut)
  BY <1>2, <1>3, <1>5 DEF TreeOK
<1>7. ASSUME NEW t
      PROVE  SearchExact(cut, t) = SearchExact(tree, t) \ {id}
  <2>1. CASE t \in stay
    BY <1>2, <1>3, <1>5, <2>1 DEF SearchExact
  <2>2. CASE t \in DOMAIN tree \ stay
    BY <1>2, <1>4, <2>2 DEF SearchExact
  <2>3. CASE t \notin DOMAIN tree
    BY <1>2, <1>5, <2>3 DEF SearchExact
  <2> QED
    BY <2>1, <2>2, <2>3
<1> QED
  BY <1>6, <1>7 DEF cut

-----------------------------------------------------------------------------
(* Memory                                                                   *)

\* A function from some of the ids to values.
Partial(f, S) ==
    /\ f = [id \in DOMAIN f |-> f[id]]
    /\ DOMAIN f \subseteq Nodes
    /\ \A id \in DOMAIN f : f[id] \in S

Indexed(m) ==
    m.index = [t \in Tags |-> {id \in DOMAIN m.rows : m.rows[id].tag = t}]

\* Every row is as long as the first one was.
OneLength(m) == m.dim \in Dims \cup {0} /\ \A id \in DOMAIN m.rows : m.rows[id].dim = m.dim

\* m is a record of these fields and no other.
Fields(m) ==
    m \in [rows : {m.rows}, dim : {m.dim}, index : {m.index}, records : {m.records},
           graph : {m.graph}, tree : {m.tree}, skg : {m.skg}]

MemOK(m) ==
    /\ Fields(m)
    /\ Partial(m.rows, Rows)
    /\ Partial(m.records, Records)
    /\ Indexed(m)
    /\ OneLength(m)
    /\ GraphOK(m.graph)
    /\ TreeOK(m.tree)
    /\ m.skg \in Nat

\* What a request holds, by its kind.
LEMMA RequestKinds ==
  ASSUME NEW c \in Requests
  PROVE  \/ c.op = "upsert" /\ c.id \in Nodes /\ c.row \in Rows
         \/ c.op = "remember" /\ c.id \in Nodes /\ c.row \in Rows /\ c.record \in Records
         \/ c.op = "update" /\ c.id \in Nodes /\ c.record \in Records
         \/ c.op \in {"delete", "remove"} /\ c.id \in Nodes
         \/ c.op = "connect" /\ c.edge \in Edges
         \/ c.op = "disconnect" /\ \E e \in Edges : c.pair = Pair(e)
         \/ c.op = "term" /\ c.term \in Terms /\ c.id \in Nodes
BY DEF Requests

LEMMA PutOK ==
  ASSUME NEW f, NEW S, Partial(f, S), NEW id \in Nodes, NEW v \in S
  PROVE  /\ Partial(Put(f, id, v), S)
         /\ DOMAIN Put(f, id, v) = DOMAIN f \cup {id}
         /\ Put(f, id, v)[id] = v
         /\ \A x \in DOMAIN f : x # id => Put(f, id, v)[x] = f[x]
BY DEF Partial, Put

LEMMA WithoutOK ==
  ASSUME NEW f, NEW S, Partial(f, S), NEW id
  PROVE  /\ Partial(Without(f, id), S)
         /\ DOMAIN Without(f, id) = DOMAIN f \ {id}
         /\ \A x \in DOMAIN f \ {id} : Without(f, id)[x] = f[x]
BY DEF Partial, Without, Restrict

LEMMA EmptyOK == MemOK(Empty)
<1>1. Empty.rows = <<>> /\ DOMAIN Empty.rows = {} /\ Empty.records = <<>>
        /\ Empty.index = [t \in Tags |-> {}] /\ Empty.graph = NoGraph /\ Empty.dim = 0
        /\ Empty.tree = <<>> /\ Empty.skg = 0 /\ Fields(Empty)
  BY DEF Empty, NoTree, Fields
<1>2. \A S : Partial(<<>>, S)
  BY DEF Partial
<1>3. TreeOK(<<>>)
  BY DEF TreeOK
<1> QED
  BY <1>1, <1>2, <1>3, NoGraphOK DEF MemOK, Indexed, OneLength

LEMMA UpsertedOK ==
  ASSUME NEW m, MemOK(m), NEW id \in Nodes, NEW row \in Rows, Fits(m, row)
  PROVE  /\ MemOK(Upserted(m, id, row))
         /\ Upserted(m, id, row).dim = row.dim
         /\ Upserted(m, id, row).rows = Put(m.rows, id, row)
         /\ Upserted(m, id, row).records = m.records
         /\ Upserted(m, id, row).graph = m.graph
         /\ Upserted(m, id, row).tree = m.tree
         /\ Upserted(m, id, row).skg = m.skg
<1> DEFINE n == Upserted(m, id, row)
<1> DEFINE index == [t \in Tags |-> IF t = row.tag THEN m.index[t] \cup {id} ELSE m.index[t] \ {id}]
<1> DEFINE old == m.rows
<1> DEFINE rows == Put(old, id, row)
<1>1. Fields(m) /\ Partial(old, Rows)
        /\ m.index = [t \in Tags |-> {x \in DOMAIN old : old[x].tag = t}]
        /\ \A x \in DOMAIN old : old[x] \in Rows /\ old[x].dim = m.dim
  BY DEF MemOK, Indexed, OneLength, Partial
<1>2. n = [m EXCEPT !.rows = rows, !.dim = row.dim, !.index = index]
  BY DEF Upserted
<1>3. row.tag \in Tags /\ row.dim \in Dims /\ row.dim # 0
  BY DurableEngineAssumption DEF Rows
<1> HIDE DEF old
<1>4. Partial(rows, Rows) /\ DOMAIN rows = DOMAIN old \cup {id} /\ rows[id] = row
        /\ \A x \in DOMAIN old : x # id => rows[x] = old[x]
  BY <1>1, PutOK
<1> HIDE DEF rows
<1>5. index = [t \in Tags |-> {x \in DOMAIN rows : rows[x].tag = t}]
  <2>1. ASSUME NEW t \in Tags
        PROVE  index[t] = {x \in DOMAIN rows : rows[x].tag = t}
    BY <1>1, <1>4
  <2> QED
    BY <2>1
<1>6. \A x \in DOMAIN rows : rows[x].dim = row.dim
  <2>1. \A x \in DOMAIN old : old[x].dim = m.dim /\ old[x].dim # 0
    BY <1>1, DurableEngineAssumption DEF Rows
  <2> QED
    BY <1>4, <2>1 DEF Fits
<1> HIDE DEF index, n
<1>7. /\ Fields(n)
      /\ n.rows = rows /\ n.dim = row.dim /\ n.index = index
      /\ n.records = m.records /\ n.graph = m.graph /\ n.tree = m.tree /\ n.skg = m.skg
  <2>1. n \in [rows : {rows}, dim : {row.dim}, index : {index}, records : {m.records},
               graph : {m.graph}, tree : {m.tree}, skg : {m.skg}]
    BY <1>1, <1>2 DEF Fields
  <2> QED
    BY <2>1 DEF Fields
<1>8. MemOK(n)
  BY <1>3, <1>4, <1>5, <1>6, <1>7 DEF MemOK, Indexed, OneLength
<1> QED
  BY <1>7, <1>8 DEF n, rows, old

LEMMA DeletedOK ==
  ASSUME NEW m, MemOK(m), NEW id
  PROVE  /\ MemOK(Deleted(m, id))
         /\ Deleted(m, id).dim = m.dim
         /\ Deleted(m, id).rows = Without(m.rows, id)
         /\ Deleted(m, id).records = m.records
         /\ Deleted(m, id).graph = m.graph
         /\ Deleted(m, id).tree = m.tree
         /\ Deleted(m, id).skg = m.skg
<1> DEFINE n == Deleted(m, id)
<1> DEFINE index == [t \in Tags |-> m.index[t] \ {id}]
<1> DEFINE old == m.rows
<1> DEFINE rows == Without(old, id)
<1>1. Fields(m) /\ Partial(old, Rows)
        /\ m.index = [t \in Tags |-> {x \in DOMAIN old : old[x].tag = t}]
        /\ m.dim \in Dims \cup {0} /\ \A x \in DOMAIN old : old[x].dim = m.dim
  BY DEF MemOK, Indexed, OneLength
<1>2. n = [m EXCEPT !.rows = rows, !.dim = m.dim, !.index = index]
  <2>1. n = [m EXCEPT !.rows = rows, !.index = index]
    BY DEF Deleted
  <2> HIDE DEF n, rows, index, old
  <2> QED
    BY <1>1, <2>1 DEF Fields
<1> HIDE DEF old
<1>4. Partial(rows, Rows) /\ DOMAIN rows = DOMAIN old \ {id}
        /\ \A x \in DOMAIN old \ {id} : rows[x] = old[x]
  BY <1>1, WithoutOK
<1> HIDE DEF rows
<1>5. index = [t \in Tags |-> {x \in DOMAIN rows : rows[x].tag = t}]
  <2>1. ASSUME NEW t \in Tags
        PROVE  index[t] = {x \in DOMAIN rows : rows[x].tag = t}
    BY <1>1, <1>4
  <2> QED
    BY <2>1
<1> HIDE DEF index, n
<1>7. /\ Fields(n)
      /\ n.rows = rows /\ n.dim = m.dim /\ n.index = index
      /\ n.records = m.records /\ n.graph = m.graph /\ n.tree = m.tree /\ n.skg = m.skg
  <2>1. n \in [rows : {rows}, dim : {m.dim}, index : {index}, records : {m.records},
               graph : {m.graph}, tree : {m.tree}, skg : {m.skg}]
    BY <1>1, <1>2 DEF Fields
  <2> QED
    BY <2>1 DEF Fields
<1>8. MemOK(n)
  BY <1>1, <1>4, <1>5, <1>7 DEF MemOK, Indexed, OneLength
<1> QED
  BY <1>7, <1>8 DEF n, rows, old
LEMMA RecordPutOK ==
  ASSUME NEW m, MemOK(m), NEW id \in Nodes, NEW record \in Records
  PROVE  LET n == [m EXCEPT !.records = Put(@, id, record)]
         IN  /\ MemOK(n)
             /\ n.rows = m.rows /\ n.dim = m.dim /\ n.records = Put(m.records, id, record)
             /\ n.graph = m.graph /\ n.tree = m.tree /\ n.skg = m.skg
<1> DEFINE old == m.records
<1> DEFINE new == Put(old, id, record)
<1> DEFINE n == [m EXCEPT !.records = new]
<1>1. Fields(m) /\ Partial(old, Records)
  BY DEF MemOK
<1>2. Partial(new, Records)
  <2> HIDE DEF old
  <2> QED
    BY <1>1, PutOK
<1> HIDE DEF new
<1>3. n \in [rows : {m.rows}, dim : {m.dim}, index : {m.index}, records : {new},
             graph : {m.graph}, tree : {m.tree}, skg : {m.skg}]
  BY <1>1 DEF Fields
<1> HIDE DEF n
<1>4. /\ Fields(n) /\ n.index = m.index
      /\ n.rows = m.rows /\ n.dim = m.dim /\ n.records = new
      /\ n.graph = m.graph /\ n.tree = m.tree /\ n.skg = m.skg
  BY <1>3 DEF Fields
<1>5. MemOK(n)
  BY <1>2, <1>4 DEF MemOK, Indexed, OneLength
<1> QED
  BY <1>4, <1>5 DEF n, new

LEMMA GraphPutOK ==
  ASSUME NEW m, MemOK(m), NEW graph, GraphOK(graph)
  PROVE  LET n == [m EXCEPT !.graph = graph]
         IN  /\ MemOK(n)
             /\ n.rows = m.rows /\ n.dim = m.dim /\ n.records = m.records
             /\ n.graph = graph /\ n.tree = m.tree /\ n.skg = m.skg
<1> DEFINE n == [m EXCEPT !.graph = graph]
<1>1. n \in [rows : {m.rows}, dim : {m.dim}, index : {m.index}, records : {m.records},
             graph : {graph}, tree : {m.tree}, skg : {m.skg}]
  BY DEF MemOK, Fields
<1> HIDE DEF n
<1>2. /\ Fields(n) /\ n.index = m.index
      /\ n.rows = m.rows /\ n.dim = m.dim /\ n.records = m.records
      /\ n.graph = graph /\ n.tree = m.tree /\ n.skg = m.skg
  BY <1>1 DEF Fields
<1>3. MemOK(n)
  BY <1>2 DEF MemOK, Indexed, OneLength
<1> QED
  BY <1>2, <1>3 DEF n

LEMMA TreePutOK ==
  ASSUME NEW m, MemOK(m), NEW tree, TreeOK(tree)
  PROVE  LET n == [m EXCEPT !.tree = tree]
         IN  /\ MemOK(n)
             /\ n.rows = m.rows /\ n.dim = m.dim /\ n.records = m.records
             /\ n.graph = m.graph /\ n.tree = tree /\ n.skg = m.skg
<1> DEFINE n == [m EXCEPT !.tree = tree]
<1>1. n \in [rows : {m.rows}, dim : {m.dim}, index : {m.index}, records : {m.records},
             graph : {m.graph}, tree : {tree}, skg : {m.skg}]
  BY DEF MemOK, Fields
<1> HIDE DEF n
<1>2. /\ Fields(n) /\ n.index = m.index
      /\ n.rows = m.rows /\ n.dim = m.dim /\ n.records = m.records
      /\ n.graph = m.graph /\ n.tree = tree /\ n.skg = m.skg
  BY <1>1 DEF Fields
<1>3. MemOK(n)
  BY <1>2 DEF MemOK, Indexed, OneLength
<1> QED
  BY <1>2, <1>3 DEF n

LEMMA TickedOK ==
  ASSUME NEW m, MemOK(m)
  PROVE  LET n == [m EXCEPT !.skg = @ + 1]
         IN  /\ MemOK(n)
             /\ n.rows = m.rows /\ n.dim = m.dim /\ n.records = m.records
             /\ n.graph = m.graph /\ n.tree = m.tree
<1> DEFINE n == [m EXCEPT !.skg = @ + 1]
<1>1. m.skg + 1 \in Nat
  BY DEF MemOK
<1>2. n \in [rows : {m.rows}, dim : {m.dim}, index : {m.index}, records : {m.records},
             graph : {m.graph}, tree : {m.tree}, skg : {m.skg + 1}]
  BY DEF MemOK, Fields
<1> HIDE DEF n
<1>3. /\ Fields(n) /\ n.index = m.index
      /\ n.rows = m.rows /\ n.dim = m.dim /\ n.records = m.records
      /\ n.graph = m.graph /\ n.tree = m.tree /\ n.skg = m.skg + 1
  BY <1>2 DEF Fields
<1>4. MemOK(n)
  BY <1>1, <1>3 DEF MemOK, Indexed, OneLength
<1> QED
  BY <1>3, <1>4 DEF n

LEMMA ForgottenOK ==
  ASSUME NEW m, MemOK(m), NEW id \in Nodes
  PROVE  /\ MemOK(Forgotten(m, id))
         /\ Forgotten(m, id).rows = Without(m.rows, id)
         /\ Forgotten(m, id).records = Without(m.records, id)
         /\ Forgotten(m, id).graph = Removed(m.graph, id)
         /\ Forgotten(m, id).tree = WithoutMember(m.tree, id)
         /\ Forgotten(m, id).dim = m.dim /\ Forgotten(m, id).skg = m.skg
<1> DEFINE d == Deleted(m, id)
<1> DEFINE old == m.records
<1> DEFINE records == Without(old, id)
<1> DEFINE graph == Removed(m.graph, id)
<1> DEFINE tree == WithoutMember(m.tree, id)
<1> DEFINE n == Forgotten(m, id)
<1>1. /\ MemOK(d) /\ d.dim = m.dim /\ d.rows = Without(m.rows, id)
      /\ d.records = m.records /\ d.graph = m.graph /\ d.tree = m.tree /\ d.skg = m.skg
  BY DeletedOK
<1>2. Partial(records, Records)
  <2>1. Partial(old, Records)
    BY DEF MemOK
  <2> HIDE DEF old
  <2> QED
    BY <2>1, WithoutOK
<1>3. GraphOK(graph)
  <2> DEFINE g == m.graph
  <2>1. GraphOK(g)
    BY DEF MemOK
  <2> HIDE DEF g
  <2>2. GraphOK(Removed(g, id))
    BY <2>1, RemovedOK
  <2> QED
    BY <2>2 DEF g
<1>4. TreeOK(tree)
  <2> DEFINE t == m.tree
  <2>1. TreeOK(t)
    BY DEF MemOK
  <2> HIDE DEF t
  <2>2. TreeOK(WithoutMember(t, id))
    BY <2>1, WithoutMemberOK
  <2> QED
    BY <2>2 DEF t
<1>5. n = [d EXCEPT !.records = records, !.graph = graph, !.tree = tree]
  <2>1. n = [d EXCEPT !.records = Without(d.records, id), !.graph = Removed(d.graph, id),
                      !.tree = WithoutMember(d.tree, id)]
    BY DEF Forgotten
  <2> HIDE DEF d, n
  <2> QED
    BY <1>1, <2>1
<1> HIDE DEF records, graph, tree, n, d
<1>6. n \in [rows : {d.rows}, dim : {d.dim}, index : {d.index}, records : {records},
             graph : {graph}, tree : {tree}, skg : {d.skg}]
  BY <1>1, <1>5 DEF MemOK, Fields
<1>7. /\ Fields(n) /\ n.index = d.index
      /\ n.rows = d.rows /\ n.dim = d.dim /\ n.records = records
      /\ n.graph = graph /\ n.tree = tree /\ n.skg = d.skg
  BY <1>6 DEF Fields
<1>8. MemOK(n)
  BY <1>1, <1>2, <1>3, <1>4, <1>7 DEF MemOK, Indexed, OneLength
<1> QED
  BY <1>1, <1>7, <1>8 DEF n, records, old, graph, tree

-----------------------------------------------------------------------------
(* Registers                                                                *)

LEMMA CallsAreRequests == Calls \subseteq Requests
BY DurableEngineAssumption DEF Calls

LEMMA KeyKinds ==
  ASSUME NEW k \in Keys
  PROVE  \/ k[1] \in {"row", "record"} /\ k[2] \in Nodes /\ k = <<k[1], k[2]>>
         \/ k[1] = "edge" /\ k = <<"edge", k[2]>>
         \/ k[1] = "term" /\ k[2] = <<k[2][1], k[2][2]>> /\ k = <<"term", k[2]>>
         \/ k = <<"skg", 0>>
<1>1. CASE k = <<"skg", 0>>
  BY <1>1
<1>2. CASE \E c \in Calls : k \in Named(c)
  <2>1. PICK c \in Requests : k \in Named(c)
    BY <1>2, CallsAreRequests
  <2> QED
    BY <2>1, RequestKinds DEF Named
<1> QED
  BY <1>1, <1>2 DEF Keys

\* What a call leaves in a register.
Left(c, k, old) ==
    CASE c.op = "upsert" -> IF k = <<"row", c.id>> THEN {c.row} ELSE old
      [] c.op = "delete" -> IF k = <<"row", c.id>> THEN {} ELSE old
      [] c.op = "remember" ->
            IF k = <<"row", c.id>> THEN {c.row}
            ELSE IF k = <<"record", c.id>> THEN {c.record} ELSE old
      [] c.op = "update" -> IF k = <<"record", c.id>> THEN {c.record} ELSE old
      [] c.op = "remove" -> IF IsAbout(k, c.id) THEN {} ELSE old
      [] c.op = "connect" -> IF k = <<"edge", Pair(c.edge)>> THEN {c.edge} ELSE old
      [] c.op = "disconnect" -> IF k = <<"edge", c.pair>> THEN {} ELSE old
      [] c.op = "term" -> IF k = <<"term", <<c.term, c.id>>>> THEN {c.id} ELSE old

LEMMA EffectIsLeft ==
  ASSUME NEW c \in Calls, NEW f, NEW k \in Keys
  PROVE  Promise!Effect(c, f)[k] = Left(c, k, f[k])
<1>1. c \in Requests
  BY CallsAreRequests
<1>2. Promise!Effect(c, f)[k] = IF k \in DOMAIN Written[c] THEN Written[c][k] ELSE f[k]
  BY DEF Promise!Effect
<1>3. Written[c] =
        IF c.op = "remove" THEN [x \in {y \in Keys : IsAbout(y, c.id)} |-> {}]
        ELSE IF c.op \in {"delete", "disconnect"} THEN [x \in Named(c) |-> {}]
        ELSE [x \in Named(c) |->
                CASE x[1] = "row" -> {c.row}
                  [] x[1] = "record" -> {c.record}
                  [] x[1] = "edge" -> {c.edge}
                  [] x[1] = "term" -> {c.id}]
  BY DEF Written
<1>4. CASE c.op = "remove"
  BY <1>2, <1>3, <1>4 DEF Left
<1>5. CASE c.op = "upsert"
  <2>1. Named(c) = {<<"row", c.id>>}
    BY <1>5 DEF Named
  <2> QED
    BY <1>2, <1>3, <1>5, <2>1 DEF Left
<1>6. CASE c.op = "delete"
  <2>1. Named(c) = {<<"row", c.id>>}
    BY <1>6 DEF Named
  <2> QED
    BY <1>2, <1>3, <1>6, <2>1 DEF Left
<1>7. CASE c.op = "remember"
  <2>1. Named(c) = {<<"row", c.id>>, <<"record", c.id>>}
    BY <1>7 DEF Named
  <2> QED
    BY <1>2, <1>3, <1>7, <2>1 DEF Left
<1>8. CASE c.op = "update"
  <2>1. Named(c) = {<<"record", c.id>>}
    BY <1>8 DEF Named
  <2> QED
    BY <1>2, <1>3, <1>8, <2>1 DEF Left
<1>9. CASE c.op = "connect"
  <2>1. Named(c) = {<<"edge", Pair(c.edge)>>}
    BY <1>9 DEF Named
  <2> QED
    BY <1>2, <1>3, <1>9, <2>1 DEF Left
<1>10. CASE c.op = "disconnect"
  <2>1. Named(c) = {<<"edge", c.pair>>}
    BY <1>10 DEF Named
  <2> QED
    BY <1>2, <1>3, <1>10, <2>1 DEF Left
<1>11. CASE c.op = "term"
  <2>1. Named(c) = {<<"term", <<c.term, c.id>>>>}
    BY <1>11 DEF Named
  <2> QED
    BY <1>2, <1>3, <1>11, <2>1 DEF Left
<1> QED
  BY <1>1, <1>4, <1>5, <1>6, <1>7, <1>8, <1>9, <1>10, <1>11, RequestKinds

LEMMA AtPut ==
  ASSUME NEW f, NEW id, NEW v, NEW x
  PROVE  At(Put(f, id, v), x) = IF x = id THEN {v} ELSE At(f, x)
BY DEF At, Put

LEMMA AtWithout ==
  ASSUME NEW f, NEW id, NEW x
  PROVE  At(Without(f, id), x) = IF x = id THEN {} ELSE At(f, x)
BY DEF At, Without, Restrict

\* The edge between two memories.
Between(g, pair) == {e \in g.edges : Pair(e) = pair}

LEMMA BetweenConnected ==
  ASSUME NEW g, NEW e, NEW pair
  PROVE  Between(Connected(g, e), pair) = IF pair = Pair(e) THEN {e} ELSE Between(g, pair)
<1>1. Connected(g, e).edges = {f \in g.edges : Pair(f) # Pair(e)} \cup {e}
  BY DEF Connected
<1> QED
  BY <1>1 DEF Between

LEMMA BetweenDisconnected ==
  ASSUME NEW g, NEW gone, NEW pair
  PROVE  Between(Disconnected(g, gone), pair) = IF pair = gone THEN {} ELSE Between(g, pair)
<1>1. Disconnected(g, gone).edges = g.edges \ {e \in g.edges : Pair(e) = gone}
  BY DEF Disconnected, Cut
<1> QED
  BY <1>1 DEF Between

LEMMA BetweenRemoved ==
  ASSUME NEW g, GraphOK(g), NEW id \in Nodes, NEW pair
  PROVE  Between(Removed(g, id), pair) = IF id \in pair THEN {} ELSE Between(g, pair)
<1>1. Removed(g, id).edges = {e \in g.edges : id \notin Pair(e)}
  BY RemovedOK
<1> QED
  BY <1>1 DEF Between
-----------------------------------------------------------------------------
(* A call, in memory                                                        *)

RowsAfter(m, c) ==
    IF c.op \in {"upsert", "remember"} THEN Put(m.rows, c.id, c.row)
    ELSE IF c.op \in {"delete", "remove"} THEN Without(m.rows, c.id) ELSE m.rows

RecordsAfter(m, c) ==
    IF c.op \in {"remember", "update"} THEN Put(m.records, c.id, c.record)
    ELSE IF c.op = "remove" THEN Without(m.records, c.id) ELSE m.records

GraphAfter(m, c) ==
    IF c.op = "connect" THEN Connected(m.graph, c.edge)
    ELSE IF c.op = "disconnect" THEN Disconnected(m.graph, c.pair)
    ELSE IF c.op = "remove" THEN Removed(m.graph, c.id) ELSE m.graph

TreeAfter(m, c) ==
    IF c.op = "term" THEN Inserted(m.tree, c.term, c.id)
    ELSE IF c.op = "remove" THEN WithoutMember(m.tree, c.id) ELSE m.tree

LengthAfter(m, c) == IF c.op \in {"upsert", "remember"} THEN c.row.dim ELSE m.dim

\* A call that is not refused keeps memory in order; what it changes.
LEMMA AppliedOK ==
  ASSUME NEW m, MemOK(m), NEW c \in Requests, ~Rejected(m, c)
  PROVE  LET n == Applied(m, c)
         IN  /\ MemOK(n)
             /\ n.dim = LengthAfter(m, c)
             /\ n.rows = RowsAfter(m, c)
             /\ n.records = RecordsAfter(m, c)
             /\ n.graph = GraphAfter(m, c)
             /\ n.tree = TreeAfter(m, c)
             /\ n.skg = m.skg
<1> DEFINE n == Applied(m, c)
<1> DEFINE Goal == /\ MemOK(n)
                   /\ n.dim = LengthAfter(m, c)
                   /\ n.rows = RowsAfter(m, c)
                   /\ n.records = RecordsAfter(m, c)
                   /\ n.graph = GraphAfter(m, c)
                   /\ n.tree = TreeAfter(m, c)
                   /\ n.skg = m.skg
<1> SUFFICES Goal
  OBVIOUS
<1> USE DEF LengthAfter, RowsAfter, RecordsAfter, GraphAfter, TreeAfter
<1> DEFINE id == c.id
<1> DEFINE row == c.row
<1> DEFINE record == c.record
<1> DEFINE graph == m.graph
<1> DEFINE tree == m.tree
<1>0. GraphOK(graph) /\ TreeOK(tree)
  BY DEF MemOK
<1>1. CASE c.op = "upsert" /\ id \in Nodes /\ row \in Rows
  <2>1. n = Upserted(m, id, row) /\ Fits(m, row)
    BY <1>1 DEF Applied, Rejected
  <2> HIDE DEF n, id, row
  <2>2. /\ MemOK(n) /\ n.dim = row.dim /\ n.rows = Put(m.rows, id, row)
        /\ n.records = m.records /\ n.graph = m.graph /\ n.tree = m.tree /\ n.skg = m.skg
    BY <1>1, <2>1, UpsertedOK
  <2> QED
    BY <1>1, <2>2 DEF id, row
<1>2. CASE c.op = "remember" /\ id \in Nodes /\ row \in Rows /\ record \in Records
  <2> DEFINE u == Upserted(m, id, row)
  <2>1. n = [u EXCEPT !.records = Put(@, id, record)] /\ Fits(m, row)
    BY <1>2 DEF Applied, Rejected
  <2> HIDE DEF n, id, row, record
  <2>2. /\ MemOK(u) /\ u.dim = row.dim /\ u.rows = Put(m.rows, id, row)
        /\ u.records = m.records /\ u.graph = m.graph /\ u.tree = m.tree /\ u.skg = m.skg
    BY <1>2, <2>1, UpsertedOK
  <2> HIDE DEF u
  <2>3. LET x == [u EXCEPT !.records = Put(@, id, record)]
        IN  /\ MemOK(x)
            /\ x.rows = u.rows /\ x.dim = u.dim /\ x.records = Put(u.records, id, record)
            /\ x.graph = u.graph /\ x.tree = u.tree /\ x.skg = u.skg
    BY <1>2, <2>2, RecordPutOK
  <2>4. /\ MemOK(n) /\ n.dim = row.dim /\ n.rows = Put(m.rows, id, row)
        /\ n.records = Put(m.records, id, record)
        /\ n.graph = m.graph /\ n.tree = m.tree /\ n.skg = m.skg
    BY <2>1, <2>2, <2>3
  <2> QED
    BY <1>2, <2>4 DEF id, row, record
<1>3. CASE c.op = "update" /\ id \in Nodes /\ record \in Records
  <2>1. n = [m EXCEPT !.records = Put(@, id, record)]
    BY <1>3 DEF Applied
  <2> HIDE DEF n, id, record
  <2>2. LET x == [m EXCEPT !.records = Put(@, id, record)]
        IN  /\ MemOK(x)
            /\ x.rows = m.rows /\ x.dim = m.dim /\ x.records = Put(m.records, id, record)
            /\ x.graph = m.graph /\ x.tree = m.tree /\ x.skg = m.skg
    BY <1>3, RecordPutOK
  <2>3. /\ MemOK(n) /\ n.dim = m.dim /\ n.rows = m.rows
        /\ n.records = Put(m.records, id, record)
        /\ n.graph = m.graph /\ n.tree = m.tree /\ n.skg = m.skg
    BY <2>1, <2>2
  <2> QED
    BY <1>3, <2>3 DEF id, record
<1>4. CASE c.op = "delete"
  <2>1. n = Deleted(m, id)
    BY <1>4 DEF Applied
  <2> HIDE DEF n, id
  <2>2. /\ MemOK(n) /\ n.dim = m.dim /\ n.rows = Without(m.rows, id)
        /\ n.records = m.records /\ n.graph = m.graph /\ n.tree = m.tree /\ n.skg = m.skg
    BY <2>1, DeletedOK
  <2> QED
    BY <1>4, <2>2 DEF id
<1>5. CASE c.op = "remove" /\ id \in Nodes
  <2>1. n = Forgotten(m, id)
    BY <1>5 DEF Applied
  <2> HIDE DEF n, id
  <2>2. /\ MemOK(n) /\ n.dim = m.dim /\ n.rows = Without(m.rows, id)
        /\ n.records = Without(m.records, id) /\ n.graph = Removed(m.graph, id)
        /\ n.tree = WithoutMember(m.tree, id) /\ n.skg = m.skg
    BY <1>5, <2>1, ForgottenOK
  <2> QED
    BY <1>5, <2>2 DEF id
<1>6. CASE c.op \in {"connect", "disconnect"} /\ (c.op = "connect" => c.edge \in Edges)
  <2> DEFINE new == IF c.op = "connect" THEN Connected(graph, c.edge) ELSE Disconnected(graph, c.pair)
  <2>1. n = [m EXCEPT !.graph = new]
    BY <1>6 DEF Applied
  <2>2. GraphOK(new)
    <3> DEFINE e == c.edge
    <3> DEFINE p == c.pair
    <3> HIDE DEF graph, e, p
    <3>1. c.op = "connect" => GraphOK(Connected(graph, e))
      <4>1. c.op = "connect" => e \in Edges
        BY <1>6 DEF e
      <4> QED
        BY <1>0, <4>1, ConnectedOK
    <3>2. GraphOK(Disconnected(graph, p))
      BY <1>0, DisconnectedOK
    <3> QED
      BY <3>1, <3>2 DEF e, p
  <2> HIDE DEF n, new
  <2>3. LET x == [m EXCEPT !.graph = new]
        IN  /\ MemOK(x)
            /\ x.rows = m.rows /\ x.dim = m.dim /\ x.records = m.records
            /\ x.graph = new /\ x.tree = m.tree /\ x.skg = m.skg
    BY <2>2, GraphPutOK
  <2>4. /\ MemOK(n) /\ n.dim = m.dim /\ n.rows = m.rows /\ n.records = m.records
        /\ n.graph = new /\ n.tree = m.tree /\ n.skg = m.skg
    BY <2>1, <2>3
  <2> QED
    BY <1>6, <2>4 DEF new
<1>7. CASE c.op = "term"
  <2> DEFINE new == Inserted(tree, c.term, c.id)
  <2>1. n = [m EXCEPT !.tree = new]
    BY <1>7 DEF Applied
  <2>2. TreeOK(new)
    <3> DEFINE t == c.term
    <3> HIDE DEF tree, t, id
    <3>1. TreeOK(Inserted(tree, t, id))
      BY <1>0, InsertedOK
    <3> QED
      BY <3>1 DEF t, id
  <2> HIDE DEF n, new
  <2>3. LET x == [m EXCEPT !.tree = new]
        IN  /\ MemOK(x)
            /\ x.rows = m.rows /\ x.dim = m.dim /\ x.records = m.records
            /\ x.graph = m.graph /\ x.tree = new /\ x.skg = m.skg
    BY <2>2, TreePutOK
  <2>4. /\ MemOK(n) /\ n.dim = m.dim /\ n.rows = m.rows /\ n.records = m.records
        /\ n.graph = m.graph /\ n.tree = new /\ n.skg = m.skg
    BY <2>1, <2>3
  <2> QED
    BY <1>7, <2>4 DEF new
<1> QED
  BY <1>1, <1>2, <1>3, <1>4, <1>5, <1>6, <1>7, RequestKinds

\* What a register says of the parts of memory.
RegisterOf(rows, records, graph, tree, skg, k) ==
    CASE k[1] = "row" -> At(rows, k[2])
      [] k[1] = "record" -> At(records, k[2])
      [] k[1] = "edge" -> Between(graph, k[2])
      [] k[1] = "term" -> SearchExact(tree, k[2][1]) \cap {k[2][2]}
      [] k[1] = "skg" -> {skg} \ {0}

LEMMA RegisterIs ==
  ASSUME NEW m, NEW k \in Keys
  PROVE  Registers(m)[k] = RegisterOf(m.rows, m.records, m.graph, m.tree, m.skg, k)
BY DEF Registers, RegisterOf, Between

LEMMA RegistersAreAFunction ==
  ASSUME NEW m
  PROVE  Registers(m) = [k \in Keys |-> Registers(m)[k]]
<1> DEFINE r(k) ==
      CASE k[1] = "row" -> At(m.rows, k[2])
        [] k[1] = "record" -> At(m.records, k[2])
        [] k[1] = "edge" -> {e \in m.graph.edges : Pair(e) = k[2]}
        [] k[1] = "term" -> SearchExact(m.tree, k[2][1]) \cap {k[2][2]}
        [] k[1] = "skg" -> {m.skg} \ {0}
<1>1. Registers(m) = [k \in Keys |-> r(k)]
  BY DEF Registers
<1> HIDE DEF r
<1> QED
  BY <1>1

LEMMA AppliedRegister ==
  ASSUME NEW rows, NEW records, NEW graph, GraphOK(graph), NEW tree, TreeOK(tree), NEW skg,
         NEW c \in Requests, NEW k \in Keys,
         NEW m, m = [rows |-> rows, records |-> records, graph |-> graph, tree |-> tree]
  PROVE  RegisterOf(RowsAfter(m, c), RecordsAfter(m, c), GraphAfter(m, c), TreeAfter(m, c), skg, k)
           = Left(c, k, RegisterOf(rows, records, graph, tree, skg, k))
<1> DEFINE id == c.id
<1> DEFINE x == k[2]
<1> DEFINE t == k[2][1]
<1> DEFINE i == k[2][2]
<1>1. c.op = "remove" => id \in Nodes
  BY RequestKinds
<1>2. CASE k[1] = "row" /\ k = <<"row", x>>
  <2>1. At(RowsAfter(m, c), x) =
          IF c.op \in {"upsert", "remember"} /\ x = id THEN {c.row}
          ELSE IF c.op \in {"delete", "remove"} /\ x = id THEN {} ELSE At(rows, x)
    <3> DEFINE row == c.row
    <3>1. RowsAfter(m, c) = IF c.op \in {"upsert", "remember"} THEN Put(rows, id, row)
                            ELSE IF c.op \in {"delete", "remove"} THEN Without(rows, id) ELSE rows
      BY DEF RowsAfter
    <3> HIDE DEF x, id, row
    <3>2. At(Put(rows, id, row), x) = IF x = id THEN {row} ELSE At(rows, x)
      BY AtPut
    <3>3. At(Without(rows, id), x) = IF x = id THEN {} ELSE At(rows, x)
      BY AtWithout
    <3> QED
      BY <3>1, <3>2, <3>3 DEF row
  <2>2. k = <<"row", id>> <=> x = id
    BY <1>2
  <2>3. IsAbout(k, id) <=> x = id
    BY <1>2 DEF IsAbout
  <2> HIDE DEF x
  <2> QED
    BY <1>2, <2>1, <2>2, <2>3, RequestKinds DEF RegisterOf, Left
<1>3. CASE k[1] = "record" /\ k = <<"record", x>>
  <2>1. At(RecordsAfter(m, c), x) =
          IF c.op \in {"remember", "update"} /\ x = id THEN {c.record}
          ELSE IF c.op = "remove" /\ x = id THEN {} ELSE At(records, x)
    <3> DEFINE record == c.record
    <3>1. RecordsAfter(m, c) = IF c.op \in {"remember", "update"} THEN Put(records, id, record)
                               ELSE IF c.op = "remove" THEN Without(records, id) ELSE records
      BY DEF RecordsAfter
    <3> HIDE DEF x, id, record
    <3>2. At(Put(records, id, record), x) = IF x = id THEN {record} ELSE At(records, x)
      BY AtPut
    <3>3. At(Without(records, id), x) = IF x = id THEN {} ELSE At(records, x)
      BY AtWithout
    <3> QED
      BY <3>1, <3>2, <3>3 DEF record
  <2>2. k = <<"record", id>> <=> x = id
    BY <1>3
  <2>3. IsAbout(k, id) <=> x = id
    BY <1>3 DEF IsAbout
  <2> HIDE DEF x
  <2> QED
    BY <1>3, <2>1, <2>2, <2>3, RequestKinds DEF RegisterOf, Left
<1>4. CASE k[1] = "edge" /\ k = <<"edge", x>>
  <2>1. Between(GraphAfter(m, c), x) =
          IF c.op = "connect" /\ x = Pair(c.edge) THEN {c.edge}
          ELSE IF c.op = "disconnect" /\ x = c.pair THEN {}
          ELSE IF c.op = "remove" /\ id \in x THEN {} ELSE Between(graph, x)
    <3> DEFINE e == c.edge
    <3> DEFINE p == c.pair
    <3>1. GraphAfter(m, c) = IF c.op = "connect" THEN Connected(graph, e)
                             ELSE IF c.op = "disconnect" THEN Disconnected(graph, p)
                             ELSE IF c.op = "remove" THEN Removed(graph, id) ELSE graph
      BY DEF GraphAfter
    <3> HIDE DEF x, id, e, p
    <3>2. Between(Connected(graph, e), x) = IF x = Pair(e) THEN {e} ELSE Between(graph, x)
      BY BetweenConnected
    <3>3. Between(Disconnected(graph, p), x) = IF x = p THEN {} ELSE Between(graph, x)
      BY BetweenDisconnected
    <3>4. id \in Nodes => Between(Removed(graph, id), x) = IF id \in x THEN {} ELSE Between(graph, x)
      BY BetweenRemoved
    <3> QED
      BY <1>1, <3>1, <3>2, <3>3, <3>4 DEF e, p
  <2>2. /\ k = <<"edge", Pair(c.edge)>> <=> x = Pair(c.edge)
        /\ k = <<"edge", c.pair>> <=> x = c.pair
    BY <1>4
  <2>3. IsAbout(k, id) <=> id \in x
    BY <1>4 DEF IsAbout
  <2> HIDE DEF x
  <2> QED
    BY <1>4, <2>1, <2>2, <2>3, RequestKinds DEF RegisterOf, Left
<1>5. CASE k[1] = "term" /\ k = <<"term", x>> /\ x = <<t, i>>
  <2>1. SearchExact(TreeAfter(m, c), t) \cap {i} =
          IF c.op = "term" /\ t = c.term /\ i = id THEN {id}
          ELSE IF c.op = "remove" /\ i = id THEN {} ELSE SearchExact(tree, t) \cap {i}
    <3> DEFINE term == c.term
    <3>1. TreeAfter(m, c) = IF c.op = "term" THEN Inserted(tree, term, id)
                            ELSE IF c.op = "remove" THEN WithoutMember(tree, id) ELSE tree
      BY DEF TreeAfter
    <3> HIDE DEF x, t, i, id, term
    <3>2. SearchExact(Inserted(tree, term, id), t)
            = SearchExact(tree, t) \cup (IF t = term THEN {id} ELSE {})
      BY InsertedOK
    <3>3. SearchExact(WithoutMember(tree, id), t) = SearchExact(tree, t) \ {id}
      BY WithoutMemberOK
    <3> QED
      BY <3>1, <3>2, <3>3 DEF term
  <2>2. k = <<"term", <<c.term, id>>>> <=> (t = c.term /\ i = id)
    BY <1>5
  <2>3. IsAbout(k, id) <=> i = id
    BY <1>5 DEF IsAbout
  <2>4. RegisterOf(RowsAfter(m, c), RecordsAfter(m, c), GraphAfter(m, c), TreeAfter(m, c), skg, k)
          = SearchExact(TreeAfter(m, c), t) \cap {i}
    BY <1>5 DEF RegisterOf
  <2>5. RegisterOf(rows, records, graph, tree, skg, k) = SearchExact(tree, t) \cap {i}
    BY <1>5 DEF RegisterOf
  <2>6. k # <<"row", id>> /\ k # <<"record", id>>
          /\ k # <<"edge", Pair(c.edge)>> /\ k # <<"edge", c.pair>>
    BY <1>5
  <2> HIDE DEF x, t, i
  <2> QED
    BY <2>1, <2>2, <2>3, <2>4, <2>5, <2>6, RequestKinds DEF Left
<1>6. CASE k = <<"skg", 0>>
  BY <1>6, RequestKinds DEF RegisterOf, Left, IsAbout
<1> QED
  BY <1>2, <1>3, <1>4, <1>5, <1>6, KeyKinds
\* What a call does to the registers is what Store says it does.
LEMMA EffectOfCall ==
  ASSUME NEW m, MemOK(m), NEW c \in Calls, ~Rejected(m, c)
  PROVE  Registers(Applied(m, c)) = Promise!Effect(c, Registers(m))
<1> DEFINE n == Applied(m, c)
<1>1. c \in Requests
  BY CallsAreRequests
<1>2. /\ n.rows = RowsAfter(m, c) /\ n.records = RecordsAfter(m, c)
      /\ n.graph = GraphAfter(m, c) /\ n.tree = TreeAfter(m, c) /\ n.skg = m.skg
  BY <1>1, AppliedOK
<1> HIDE DEF n
<1>3. ASSUME NEW k \in Keys
      PROVE  Registers(n)[k] = Promise!Effect(c, Registers(m))[k]
  <2> DEFINE rows == m.rows
  <2> DEFINE records == m.records
  <2> DEFINE graph == m.graph
  <2> DEFINE tree == m.tree
  <2> DEFINE skg == m.skg
  <2> DEFINE s == [rows |-> rows, records |-> records, graph |-> graph, tree |-> tree]
  <2>1. GraphOK(graph) /\ TreeOK(tree)
    BY DEF MemOK
  <2>2. Registers(n)[k] = RegisterOf(n.rows, n.records, n.graph, n.tree, n.skg, k)
    BY RegisterIs
  <2>3. Registers(m)[k] = RegisterOf(rows, records, graph, tree, skg, k)
    BY RegisterIs
  <2>4. /\ RowsAfter(m, c) = RowsAfter(s, c) /\ RecordsAfter(m, c) = RecordsAfter(s, c)
        /\ GraphAfter(m, c) = GraphAfter(s, c) /\ TreeAfter(m, c) = TreeAfter(s, c)
    BY DEF RowsAfter, RecordsAfter, GraphAfter, TreeAfter
  <2>5. Registers(n)[k]
          = RegisterOf(RowsAfter(s, c), RecordsAfter(s, c), GraphAfter(s, c), TreeAfter(s, c), skg, k)
    BY <1>2, <2>2, <2>4
  <2>6. s = [rows |-> rows, records |-> records, graph |-> graph, tree |-> tree]
    OBVIOUS
  <2> HIDE DEF rows, records, graph, tree, skg, s
  <2>7. Registers(n)[k] = Left(c, k, RegisterOf(rows, records, graph, tree, skg, k))
    BY <1>1, <2>1, <2>5, <2>6, AppliedRegister
  <2> DEFINE f == Registers(m)
  <2>8. Registers(n)[k] = Left(c, k, f[k])
    BY <2>3, <2>7
  <2> HIDE DEF f
  <2>9. Promise!Effect(c, f)[k] = Left(c, k, f[k])
    BY EffectIsLeft
  <2> QED
    BY <2>8, <2>9 DEF f
<1>4. Registers(n) = [k \in Keys |-> Registers(n)[k]]
  BY RegistersAreAFunction
<1>5. Promise!Effect(c, Registers(m)) = [k \in Keys |-> Promise!Effect(c, Registers(m))[k]]
  BY DEF Promise!Effect
<1> DEFINE f == Registers(n)
<1> DEFINE g == Promise!Effect(c, Registers(m))
<1>6. f = g
  <2>1. \A k \in Keys : f[k] = g[k]
    BY <1>3
  <2>2. f = [k \in Keys |-> f[k]] /\ g = [k \in Keys |-> g[k]]
    BY <1>4, <1>5
  <2> HIDE DEF f, g
  <2> QED
    BY <2>1, <2>2
<1> QED
  BY <1>6 DEF n
-----------------------------------------------------------------------------
(* The snapshot                                                             *)

SavedOK(s) == \E m : MemOK(m) /\ s = Saved(m)

\* load gives back what checkpoint wrote, with the length of a vector that is
\* there.
LEMMA LoadedOK ==
  ASSUME NEW m, MemOK(m)
  PROVE  LET n == Loaded(Saved(m))
         IN  /\ MemOK(n)
             /\ n.dim = IF DOMAIN m.rows = {} THEN 0 ELSE m.dim
             /\ Registers(n) = Registers(m)
<1> DEFINE n == Loaded(Saved(m))
<1> DEFINE rows == m.rows
<1> DEFINE dim == IF DOMAIN rows = {} THEN 0 ELSE rows[CHOOSE id \in DOMAIN rows : TRUE].dim
<1> DEFINE index == [t \in Tags |-> {id \in DOMAIN rows : rows[id].tag = t}]
<1> DEFINE graph == Rebuilt(m.graph.edges)
<1>1. n = [rows |-> rows, dim |-> dim, index |-> index, records |-> m.records,
           graph |-> graph, tree |-> m.tree, skg |-> m.skg]
  BY DEF Loaded, Saved
<1>2. dim = IF DOMAIN rows = {} THEN 0 ELSE m.dim
  BY DEF MemOK, OneLength
<1>3. GraphOK(graph) /\ graph.edges = m.graph.edges
  <2> DEFINE edges == m.graph.edges
  <2>1. edges \in SUBSET Edges
    BY DEF MemOK, GraphOK, Graphs
  <2> HIDE DEF edges
  <2>2. GraphOK(Rebuilt(edges)) /\ Rebuilt(edges).edges = edges
    BY <2>1, RebuiltOK
  <2> QED
    BY <2>2 DEF edges
<1> HIDE DEF n, dim, index, graph
<1>4. /\ Fields(n) /\ n.rows = rows /\ n.dim = dim /\ n.index = index /\ n.records = m.records
      /\ n.graph = graph /\ n.tree = m.tree /\ n.skg = m.skg
  BY <1>1 DEF Fields
<1>5. MemOK(n)
  BY <1>2, <1>3, <1>4 DEF MemOK, Indexed, OneLength, index
<1>6. ASSUME NEW k \in Keys
      PROVE  Registers(n)[k] = Registers(m)[k]
  BY <1>3, <1>4, RegisterIs DEF RegisterOf, Between
<1>7. Registers(n) = Registers(m)
  <2> DEFINE f == Registers(n)
  <2> DEFINE g == Registers(m)
  <2>1. \A k \in Keys : f[k] = g[k]
    BY <1>6
  <2>2. f = [k \in Keys |-> f[k]] /\ g = [k \in Keys |-> g[k]]
    BY RegistersAreAFunction
  <2> HIDE DEF f, g
  <2>3. f = g
    BY <2>1, <2>2
  <2> QED
    BY <2>3 DEF f, g
<1> QED
  BY <1>2, <1>4, <1>5, <1>7 DEF n

-----------------------------------------------------------------------------
(* Replay                                                                   *)

Entries == Calls \cup [op : {"torn"}, part : Torn]

Outcome(m) == [mem |-> m, refused |-> FALSE]

Run(f, n, s, w) ==
    f = [i \in 0 .. n |-> IF i = 0 THEN Outcome(Loaded(s)) ELSE Replayed(f[i - 1], w[i])]

LEMMA ReplayUnfolds ==
  ASSUME NEW s, NEW w, Len(w) \in Nat
  PROVE  \E f : Run(f, Len(w), s, w) /\ Replay(s, w) = f[Len(w)]
<1> DEFINE P == {n \in 0 .. Len(w) : \E f : Run(f, n, s, w)}
<1>1. 0 \in P
  <2>1. Run([i \in 0 .. 0 |-> Outcome(Loaded(s))], 0, s, w)
    BY DEF Run
  <2> QED
    BY <2>1
<1>2. ASSUME NEW n \in 1 .. Len(w), n - 1 \in P
      PROVE  n \in P
  <2>1. PICK f : Run(f, n - 1, s, w)
    BY <1>2
  <2> DEFINE g == [i \in 0 .. n |-> IF i = n THEN Replayed(f[n - 1], w[n]) ELSE f[i]]
  <2>2. \A i \in 0 .. n : g[i] = IF i = 0 THEN Outcome(Loaded(s)) ELSE Replayed(g[i - 1], w[i])
    <3> TAKE i \in 0 .. n
    <3>1. CASE i = n
      BY <3>1
    <3>2. CASE i # n
      <4>1. i \in 0 .. n - 1
        BY <3>2
      <4>2. g[i] = f[i] /\ (i # 0 => g[i - 1] = f[i - 1])
        BY <3>2, <4>1
      <4> QED
        BY <2>1, <4>1, <4>2 DEF Run
    <3> QED
      BY <3>1, <3>2
  <2>3. Run(g, n, s, w)
    BY <2>2 DEF Run
  <2> HIDE DEF g
  <2> QED
    BY <2>3
<1>3. \E f : Run(f, Len(w), s, w)
  <2>1. 0 .. Len(w) \subseteq P
    <3> HIDE DEF P
    <3> QED
      BY <1>1, <1>2, IntervalInduction
  <2> QED
    BY <2>1
<1> DEFINE after == CHOOSE f : Run(f, Len(w), s, w)
<1>4. Run(after, Len(w), s, w)
  BY <1>3
<1>5. Replay(s, w) = after[Len(w)]
  BY DEF Replay, Run, Outcome
<1> QED
  BY <1>4, <1>5

\* A replay depends on the entries it has read.
LEMMA RunsAgree ==
  ASSUME NEW s, NEW w, NEW v, NEW n \in Nat, NEW k \in Nat, n <= k,
         NEW f, Run(f, n, s, w), NEW g, Run(g, k, s, v), \A i \in 1 .. n : w[i] = v[i]
  PROVE  f[n] = g[n]
<1> DEFINE P == {i \in 0 .. n : f[i] = g[i]}
<1>1. 0 \in P
  BY DEF Run
<1>2. ASSUME NEW i \in 1 .. n, i - 1 \in P
      PROVE  i \in P
  <2>1. i \in 0 .. n /\ i \in 0 .. k /\ i # 0 /\ w[i] = v[i] /\ f[i - 1] = g[i - 1]
    BY <1>2
  <2>2. f[i] = Replayed(f[i - 1], w[i]) /\ g[i] = Replayed(g[i - 1], v[i])
    BY <2>1 DEF Run
  <2> QED
    BY <2>1, <2>2
<1>3. 0 .. n \subseteq P
  <2> HIDE DEF P
  <2> QED
    BY <1>1, <1>2, IntervalInduction
<1> QED
  BY <1>3

LEMMA ReplayEmpty ==
  ASSUME NEW s
  PROVE  Replay(s, <<>>) = Outcome(Loaded(s))
<1>1. Len(<<>>) = 0
  OBVIOUS
<1>2. PICK f : Run(f, 0, s, <<>>) /\ Replay(s, <<>>) = f[0]
  BY <1>1, ReplayUnfolds
<1> QED
  BY <1>2 DEF Run

LEMMA ReplayAppend ==
  ASSUME NEW s, NEW S, NEW w \in Seq(S), NEW e
  PROVE  Replay(s, Append(w, e)) = Replayed(Replay(s, w), e)
<1> DEFINE v == Append(w, e)
<1> DEFINE n == Len(w)
<1>1. n \in Nat /\ Len(v) = n + 1 /\ v[n + 1] = e /\ \A i \in 1 .. n : v[i] = w[i]
  OBVIOUS
<1>2. PICK f : Run(f, n, s, w) /\ Replay(s, w) = f[n]
  BY <1>1, ReplayUnfolds
<1> HIDE DEF v, n
<1>3. PICK g : Run(g, n + 1, s, v) /\ Replay(s, v) = g[n + 1]
  <2>1. Len(v) \in Nat
    BY <1>1
  <2>2. \E g : Run(g, Len(v), s, v) /\ Replay(s, v) = g[Len(v)]
    BY <2>1, ReplayUnfolds
  <2> QED
    BY <1>1, <2>2
<1>4. f[n] = g[n]
  BY <1>1, <1>2, <1>3, RunsAgree
<1>5. g[n + 1] = Replayed(g[n], e)
  <2>1. n + 1 \in 0 .. n + 1 /\ n + 1 # 0 /\ (n + 1) - 1 = n
    BY <1>1
  <2> QED
    BY <1>1, <1>3, <2>1 DEF Run
<1> QED
  BY <1>2, <1>3, <1>4, <1>5 DEF v

LEMMA ReplayedIs ==
  ASSUME NEW m, NEW e
  PROVE  /\ IsTorn(e) => Replayed(Outcome(m), e) = Outcome(m)
         /\ ~IsTorn(e) /\ ~Rejected(m, e) => Replayed(Outcome(m), e) = Outcome(Applied(m, e))
<1> DEFINE o == Outcome(m)
<1> DEFINE r == IF IsTorn(e) THEN o
                ELSE IF Rejected(o.mem, e) THEN [o EXCEPT !.refused = TRUE]
                ELSE [o EXCEPT !.mem = Applied(o.mem, e)]
<1>1. Replayed(o, e) = CHOOSE x \in {r} : TRUE
  <2>1. {IF IsTorn(e) THEN p ELSE IF Rejected(p.mem, e) THEN [p EXCEPT !.refused = TRUE]
         ELSE [p EXCEPT !.mem = Applied(p.mem, e)] : p \in {o}} = {r}
    OBVIOUS
  <2> QED
    BY <2>1 DEF Replayed
<1>2. Replayed(o, e) = r
  <2> HIDE DEF r
  <2> QED
    BY <1>1
<1>3. o.mem = m
  BY DEF Outcome
<1>4. ~IsTorn(e) /\ ~Rejected(m, e) => r = Outcome(Applied(m, e))
  BY <1>3 DEF Outcome
<1> QED
  BY <1>2, <1>4

\* Every vector in the two files is of length d.
MeasuredTo(s, w, n, d) ==
    /\ \A id \in DOMAIN s.rows : s.rows[id].dim = d
    /\ \A i \in 1 .. n : w[i].op \in {"upsert", "remember"} => w[i].row.dim = d

\* What n entries of the log leave is in order, and none was refused.
Steady(o, s, w, n, d) ==
    \E m : o = Outcome(m) /\ MemOK(m) /\ m.dim \in {0, d} /\ MeasuredTo(s, w, n, m.dim)

\* The next entry is not refused either.
LEMMA SteadyGoesOn ==
  ASSUME NEW d \in Dims \cup {0}, NEW s, NEW w, NEW n \in Nat \ {0}, w[n] \in Entries,
         MeasuredTo(s, w, n, d),
         NEW m, MemOK(m), m.dim \in {0, d}, MeasuredTo(s, w, n - 1, m.dim)
  PROVE  /\ Steady(Replayed(Outcome(m), w[n]), s, w, n, d)
         /\ IsTorn(w[n]) => Replayed(Outcome(m), w[n]) = Outcome(m)
         /\ ~IsTorn(w[n]) => /\ w[n] \in Calls /\ ~Rejected(m, w[n])
                             /\ Replayed(Outcome(m), w[n]) = Outcome(Applied(m, w[n]))
<1> DEFINE c == w[n]
<1>0. \A i \in 1 .. n : i = n \/ i \in 1 .. n - 1
  OBVIOUS
<1>1. CASE IsTorn(c)
  <2>1. Replayed(Outcome(m), c) = Outcome(m)
    BY <1>1, ReplayedIs
  <2>2. MeasuredTo(s, w, n, m.dim)
    BY <1>0, <1>1 DEF MeasuredTo, IsTorn
  <2>3. Steady(Outcome(m), s, w, n, d)
    BY <2>2 DEF Steady
  <2> QED
    BY <1>1, <2>1, <2>3
<1>2. CASE ~IsTorn(c)
  <2>1. c \in Calls /\ c \in Requests
    BY <1>2, CallsAreRequests DEF Entries, IsTorn
  <2>2. c.op \in {"upsert", "remember"} => c.row.dim = d
    BY DEF MeasuredTo
  <2>3. ~Rejected(m, c)
    BY <2>2 DEF Rejected, Fits
  <2> DEFINE a == Applied(m, c)
  <2>4. MemOK(a) /\ a.dim = IF c.op \in {"upsert", "remember"} THEN c.row.dim ELSE m.dim
    BY <2>1, <2>3, AppliedOK DEF LengthAfter
  <2>5. Replayed(Outcome(m), c) = Outcome(a)
    BY <1>2, <2>3, ReplayedIs
  <2> HIDE DEF a
  <2>6. MeasuredTo(s, w, n, a.dim) /\ a.dim \in {0, d}
    <3>1. CASE c.op \in {"upsert", "remember"}
      BY <2>2, <2>4, <3>1
    <3>2. CASE c.op \notin {"upsert", "remember"}
      BY <1>0, <2>4, <3>2 DEF MeasuredTo
    <3> QED
      BY <3>1, <3>2
  <2>7. Steady(Outcome(a), s, w, n, d)
    BY <2>4, <2>6 DEF Steady
  <2> QED
    BY <1>2, <2>1, <2>3, <2>5, <2>7 DEF a
<1> QED
  BY <1>1, <1>2

LEMMA SteadyStart ==
  ASSUME NEW m, MemOK(m), NEW w, NEW d, MeasuredTo(Saved(m), w, 0, d)
  PROVE  Steady(Outcome(Loaded(Saved(m))), Saved(m), w, 0, d)
<1> DEFINE n == Loaded(Saved(m))
<1>1. MemOK(n) /\ n.dim = IF DOMAIN m.rows = {} THEN 0 ELSE m.dim
  BY LoadedOK
<1>2. Saved(m).rows = m.rows
  BY DEF Saved
<1> HIDE DEF n
<1>3. \A id \in DOMAIN m.rows : m.rows[id].dim = m.dim /\ m.rows[id].dim = d
  BY <1>2 DEF MemOK, OneLength, MeasuredTo
<1>4. n.dim \in {0, d} /\ MeasuredTo(Saved(m), w, 0, n.dim)
  BY <1>1, <1>2, <1>3 DEF MeasuredTo
<1> QED
  BY <1>1, <1>4 DEF Steady, n

LEMMA RunIsSteady ==
  ASSUME NEW d \in Dims \cup {0}, NEW s, SavedOK(s), NEW w \in Seq(Entries),
         MeasuredTo(s, w, Len(w), d), NEW f, Run(f, Len(w), s, w)
  PROVE  \A i \in 0 .. Len(w) : Steady(f[i], s, w, i, d)
<1> DEFINE n == Len(w)
<1> DEFINE P == {i \in 0 .. n : Steady(f[i], s, w, i, d)}
<1>0. n \in Nat /\ \A i \in 1 .. n : w[i] \in Entries
  OBVIOUS
<1>1. 0 \in P
  <2>1. f[0] = Outcome(Loaded(s))
    BY DEF Run
  <2>2. PICK m : MemOK(m) /\ s = Saved(m)
    BY DEF SavedOK
  <2>3. MeasuredTo(s, w, 0, d)
    BY DEF MeasuredTo
  <2> QED
    BY <2>1, <2>2, <2>3, SteadyStart
<1>2. ASSUME NEW i \in 1 .. n, i - 1 \in P
      PROVE  i \in P
  <2>1. i \in 0 .. n /\ i \in Nat \ {0} /\ w[i] \in Entries
    BY <1>0, <1>2
  <2>2. f[i] = Replayed(f[i - 1], w[i])
    BY <2>1 DEF Run
  <2>3. PICK m : /\ f[i - 1] = Outcome(m) /\ MemOK(m) /\ m.dim \in {0, d}
                 /\ MeasuredTo(s, w, i - 1, m.dim)
    BY <1>2 DEF Steady
  <2>4. MeasuredTo(s, w, i, d)
    BY <1>0, <2>1 DEF MeasuredTo
  <2>5. Steady(Replayed(Outcome(m), w[i]), s, w, i, d)
    BY <2>1, <2>3, <2>4, SteadyGoesOn
  <2> QED
    BY <2>1, <2>2, <2>3, <2>5
<1>3. 0 .. n \subseteq P
  <2> HIDE DEF P, n
  <2> QED
    BY <1>0, <1>1, <1>2, IntervalInduction
<1> QED
  BY <1>3

\* Every vector in the snapshot and in the log is of length d.
Measured(s, w, d) == MeasuredTo(s, w, Len(w), d)

\* Files that load can read, and what it makes of them.
Legible(s, w, d) ==
    d \in Dims \cup {0} /\ SavedOK(s) /\ w \in Seq(Entries) /\ Measured(s, w, d)

Gives(s, w, d, m) ==
    Replay(s, w) = Outcome(m) /\ MemOK(m) /\ m.dim \in {0, d} /\ Measured(s, w, m.dim)

\* load, for files with vectors of one length: nothing is refused, and what it
\* gives is in order.
LEMMA LegibleGives ==
  ASSUME NEW s, NEW w, NEW d, Legible(s, w, d)
  PROVE  Gives(s, w, d, Recovered(s, w)) /\ ~ReplayRejects(s, w)
<1>0. /\ d \in Dims \cup {0} /\ SavedOK(s) /\ w \in Seq(Entries) /\ Len(w) \in Nat
      /\ MeasuredTo(s, w, Len(w), d)
  BY DEF Legible, Measured
<1>1. PICK f : Run(f, Len(w), s, w) /\ Replay(s, w) = f[Len(w)]
  BY <1>0, ReplayUnfolds
<1>2. Steady(Replay(s, w), s, w, Len(w), d)
  BY <1>0, <1>1, RunIsSteady
<1>3. PICK m : /\ Replay(s, w) = Outcome(m) /\ MemOK(m) /\ m.dim \in {0, d}
               /\ MeasuredTo(s, w, Len(w), m.dim)
  BY <1>2 DEF Steady
<1>4. Recovered(s, w) = m /\ ReplayRejects(s, w) = FALSE
  BY <1>3 DEF Recovered, ReplayRejects, Outcome
<1> QED
  BY <1>3, <1>4 DEF Gives, Measured

\* One more entry: a call has its effect on the registers, what is left of a
\* torn append has none.
LEMMA RecoveredAppend ==
  ASSUME NEW d \in Dims \cup {0}, NEW s, SavedOK(s), NEW w \in Seq(Entries), NEW e \in Entries,
         Measured(s, Append(w, e), d)
  PROVE  /\ Measured(s, w, d)
         /\ IsTorn(e) => Recovered(s, Append(w, e)) = Recovered(s, w)
         /\ ~IsTorn(e) => Registers(Recovered(s, Append(w, e)))
                            = Promise!Effect(e, Registers(Recovered(s, w)))
<1> DEFINE v == Append(w, e)
<1> DEFINE n == Len(w)
<1> DEFINE m == Recovered(s, w)
<1>1. n \in Nat /\ Len(v) = n + 1 /\ v[n + 1] = e /\ \A i \in 1 .. n : v[i] = w[i]
  OBVIOUS
<1>2. Replay(s, v) = Replayed(Replay(s, w), e)
  BY ReplayAppend
<1>3. MeasuredTo(s, v, n + 1, d)
  BY <1>1 DEF Measured
<1> HIDE DEF v
<1>4. Measured(s, w, d)
  BY <1>1, <1>3 DEF Measured, MeasuredTo
<1>5. /\ Replay(s, w) = Outcome(m) /\ MemOK(m) /\ m.dim \in {0, d}
      /\ Measured(s, w, m.dim)
  BY <1>4, LegibleGives DEF Legible, Gives
<1> HIDE DEF m, n
<1>6. MeasuredTo(s, v, n, m.dim)
  BY <1>1, <1>5 DEF Measured, MeasuredTo, n
<1>7. /\ IsTorn(e) => Replayed(Outcome(m), e) = Outcome(m)
      /\ ~IsTorn(e) => /\ e \in Calls /\ ~Rejected(m, e)
                       /\ Replayed(Outcome(m), e) = Outcome(Applied(m, e))
  <2> DEFINE k == n + 1
  <2>1. k \in Nat \ {0} /\ k - 1 = n /\ v[k] = e /\ v[k] \in Entries
    BY <1>1
  <2>2. MeasuredTo(s, v, k, d) /\ MeasuredTo(s, v, k - 1, m.dim)
    BY <1>3, <1>6, <2>1
  <2> HIDE DEF k
  <2>3. /\ IsTorn(v[k]) => Replayed(Outcome(m), v[k]) = Outcome(m)
        /\ ~IsTorn(v[k]) => /\ v[k] \in Calls /\ ~Rejected(m, v[k])
                            /\ Replayed(Outcome(m), v[k]) = Outcome(Applied(m, v[k]))
    BY <1>5, <2>1, <2>2, SteadyGoesOn
  <2> QED
    BY <2>1, <2>3
<1>8. \A x : Outcome(x).mem = x
  BY DEF Outcome
<1>9. IsTorn(e) => Recovered(s, v) = m
  BY <1>2, <1>5, <1>7, <1>8 DEF Recovered
<1>10. ~IsTorn(e) => Registers(Recovered(s, v)) = Promise!Effect(e, Registers(m))
  <2>1. ~IsTorn(e) => Recovered(s, v) = Applied(m, e)
    BY <1>2, <1>5, <1>7, <1>8 DEF Recovered
  <2>2. ~IsTorn(e) => Registers(Applied(m, e)) = Promise!Effect(e, Registers(m))
    BY <1>5, <1>7, EffectOfCall
  <2> QED
    BY <2>1, <2>2
<1> QED
  BY <1>4, <1>9, <1>10 DEF v, m

\* What is left of a torn append is passed over.
LEMMA RecoveredTorn ==
  ASSUME NEW d \in Dims \cup {0}, NEW s, SavedOK(s), NEW w \in Seq(Entries), NEW e \in Entries,
         Measured(s, w, d), IsTorn(e)
  PROVE  Recovered(s, Append(w, e)) = Recovered(s, w)
<1> DEFINE m == Recovered(s, w)
<1>1. Replay(s, Append(w, e)) = Replayed(Replay(s, w), e)
  BY ReplayAppend
<1>2. /\ Replay(s, w) = Outcome(m) /\ MemOK(m) /\ m.dim \in {0, d}
      /\ Measured(s, w, m.dim)
  BY LegibleGives DEF Legible, Gives
<1> HIDE DEF m
<1>3. Replay(s, Append(w, e)) = Outcome(m)
  BY <1>1, <1>2, ReplayedIs
<1>4. Recovered(s, Append(w, e)) = m
  BY <1>3 DEF Recovered, Outcome
<1> QED
  BY <1>4 DEF m

LEMMA LeftKeeps ==
  ASSUME NEW c \in Requests, NEW k, NEW a, NEW b
  PROVE  Left(c, k, a) = Left(c, k, b) \/ (Left(c, k, a) = a /\ Left(c, k, b) = b)
BY RequestKinds DEF Left

\* A log replayed over a newer snapshot than its own: a register is as the log
\* leaves it, or as the snapshot has it.
LEMMA HalfReplay ==
  ASSUME NEW d \in Dims \cup {0}, NEW s, SavedOK(s), NEW m, MemOK(m), NEW w \in Seq(Entries),
         Measured(s, w, d), Measured(Saved(m), w, d), NEW k \in Keys
  PROVE  Registers(Recovered(Saved(m), w))[k]
           \in {Registers(Recovered(s, w))[k], Registers(m)[k]}
<1> DEFINE t == Saved(m)
<1> DEFINE n == Len(w)
<1>0. SavedOK(t) /\ n \in Nat /\ \A i \in 1 .. n : w[i] \in Entries
  BY DEF SavedOK
<1>1. PICK f : Run(f, n, s, w) /\ Replay(s, w) = f[n]
  BY <1>0, ReplayUnfolds
<1>2. PICK g : Run(g, n, t, w) /\ Replay(t, w) = g[n]
  BY <1>0, ReplayUnfolds
<1>3. \A i \in 0 .. n : Steady(f[i], s, w, i, d) /\ Steady(g[i], t, w, i, d)
  BY <1>0, <1>1, <1>2, RunIsSteady DEF Measured
<1> DEFINE In(o) == Registers(o.mem)[k]
<1> DEFINE P == {i \in 0 .. n : In(g[i]) \in {In(f[i]), Registers(m)[k]}}
<1>4. 0 \in P
  <2>1. g[0] = Outcome(Loaded(t))
    BY <1>0, <1>2 DEF Run
  <2>2. Registers(Loaded(t)) = Registers(m)
    BY LoadedOK
  <2>3. g[0].mem = Loaded(t)
    BY <2>1 DEF Outcome
  <2> QED
    BY <1>0, <2>2, <2>3
<1>5. ASSUME NEW i \in 1 .. n, i - 1 \in P
      PROVE  i \in P
  <2> DEFINE e == w[i]
  <2>1. i \in 0 .. n /\ i - 1 \in 0 .. n /\ i \in Nat \ {0} /\ e \in Entries
    BY <1>0, <1>5
  <2>2. f[i] = Replayed(f[i - 1], e) /\ g[i] = Replayed(g[i - 1], e)
    BY <1>1, <1>2, <2>1 DEF Run
  <2>3. PICK x : f[i - 1] = Outcome(x) /\ MemOK(x) /\ x.dim \in {0, d} /\ MeasuredTo(s, w, i - 1, x.dim)
    BY <1>3, <2>1 DEF Steady
  <2>4. PICK y : g[i - 1] = Outcome(y) /\ MemOK(y) /\ y.dim \in {0, d} /\ MeasuredTo(t, w, i - 1, y.dim)
    BY <1>3, <2>1 DEF Steady
  <2>5. MeasuredTo(s, w, i, d) /\ MeasuredTo(t, w, i, d)
    BY <1>0, <2>1 DEF Measured, MeasuredTo
  <2>6. /\ IsTorn(e) => f[i] = Outcome(x)
        /\ ~IsTorn(e) => e \in Calls /\ ~Rejected(x, e) /\ f[i] = Outcome(Applied(x, e))
    <3>1. f[i] = Replayed(Outcome(x), e)
      BY <2>2, <2>3
    <3> HIDE DEF t, n, P, In
    <3>2. /\ IsTorn(w[i]) => Replayed(Outcome(x), w[i]) = Outcome(x)
          /\ ~IsTorn(w[i]) => /\ w[i] \in Calls /\ ~Rejected(x, w[i])
                              /\ Replayed(Outcome(x), w[i]) = Outcome(Applied(x, w[i]))
      BY <2>1, <2>3, <2>5, SteadyGoesOn
    <3> QED
      BY <3>1, <3>2
  <2>7. /\ IsTorn(e) => g[i] = Outcome(y)
        /\ ~IsTorn(e) => e \in Calls /\ ~Rejected(y, e) /\ g[i] = Outcome(Applied(y, e))
    <3>1. g[i] = Replayed(Outcome(y), e)
      BY <2>2, <2>4
    <3> HIDE DEF t, n, P, In
    <3>2. /\ IsTorn(w[i]) => Replayed(Outcome(y), w[i]) = Outcome(y)
          /\ ~IsTorn(w[i]) => /\ w[i] \in Calls /\ ~Rejected(y, w[i])
                              /\ Replayed(Outcome(y), w[i]) = Outcome(Applied(y, w[i]))
      BY <2>1, <2>4, <2>5, SteadyGoesOn
    <3> QED
      BY <3>1, <3>2
  <2>8. \A z : Outcome(z).mem = z
    BY DEF Outcome
  <2>9. Registers(y)[k] \in {Registers(x)[k], Registers(m)[k]}
    BY <1>5, <2>3, <2>4, <2>8
  <2> HIDE DEF e, t
  <2>10. CASE IsTorn(e)
    BY <2>1, <2>6, <2>7, <2>8, <2>9, <2>10
  <2>11. CASE ~IsTorn(e)
    <3>1. e \in Calls /\ e \in Requests /\ ~Rejected(x, e) /\ ~Rejected(y, e)
      BY <2>6, <2>7, <2>11, CallsAreRequests
    <3>2. Registers(Applied(x, e))[k] = Left(e, k, Registers(x)[k])
      <4> DEFINE h == Registers(x)
      <4>1. Registers(Applied(x, e)) = Promise!Effect(e, h)
        BY <2>3, <3>1, EffectOfCall
      <4> HIDE DEF h
      <4>2. Promise!Effect(e, h)[k] = Left(e, k, h[k])
        BY <3>1, EffectIsLeft
      <4> QED
        BY <4>1, <4>2 DEF h
    <3>3. Registers(Applied(y, e))[k] = Left(e, k, Registers(y)[k])
      <4> DEFINE h == Registers(y)
      <4>1. Registers(Applied(y, e)) = Promise!Effect(e, h)
        BY <2>4, <3>1, EffectOfCall
      <4> HIDE DEF h
      <4>2. Promise!Effect(e, h)[k] = Left(e, k, h[k])
        BY <3>1, EffectIsLeft
      <4> QED
        BY <4>1, <4>2 DEF h
    <3> DEFINE a == Registers(x)[k]
    <3> DEFINE b == Registers(y)[k]
    <3>4. Left(e, k, a) = Left(e, k, b) \/ (Left(e, k, a) = a /\ Left(e, k, b) = b)
      <4> HIDE DEF a, b
      <4> QED
        BY <3>1, LeftKeeps
    <3>5. In(f[i]) = Left(e, k, a) /\ In(g[i]) = Left(e, k, b)
      BY <2>6, <2>7, <2>8, <2>11, <3>2, <3>3
    <3> HIDE DEF a, b
    <3>6. b \in {a, Registers(m)[k]}
      BY <2>9 DEF a, b
    <3> QED
      BY <2>1, <3>4, <3>5, <3>6
  <2> QED
    BY <2>10, <2>11
<1>6. n \in P
  <2>1. 0 .. n \subseteq P
    <3> HIDE DEF P, n
    <3> QED
      BY <1>0, <1>4, <1>5, IntervalInduction
  <2> QED
    BY <1>0, <2>1
<1> QED
  BY <1>1, <1>2, <1>6 DEF Recovered

-----------------------------------------------------------------------------
(* The log                                                                  *)

LEMMA CallsAreNotTorn ==
  ASSUME NEW c \in Calls
  PROVE  ~IsTorn(c) /\ c \in Requests /\ c \in Entries
<1>1. c \in Requests
  BY CallsAreRequests
<1>2. ~IsTorn(c)
  BY <1>1, RequestKinds DEF IsTorn
<1> QED
  BY <1>1, <1>2 DEF Entries

LEMMA TornIsTorn ==
  ASSUME NEW p \in Torn
  PROVE  LET e == [op |-> "torn", part |-> p]
         IN  e \in Entries /\ IsTorn(e) /\ e.part = p
BY DEF Entries, IsTorn

TornIn(w) == {i \in DOMAIN w : IsTorn(w[i])}

LEMMA StatusIs ==
  ASSUME NEW w
  PROVE  /\ TornIn(w) = {} => Status(w) = "whole"
         /\ TornIn(w) # {} => Status(w) \in {"frayed", "broken"}
         /\ TornIn(w) # {} /\ ~(TornIn(w) = {Len(w)} /\ w[Len(w)].part = "length")
              => Status(w) = "broken"
BY DEF Status, TornIn

LEMMA StatusOfEmpty == Status(<<>>) = "whole"
<1>1. TornIn(<<>>) = {}
  BY DEF TornIn
<1> QED
  BY <1>1, StatusIs

\* An entry behind a torn one is never read.
LEMMA StatusAppend ==
  ASSUME NEW w \in Seq(Entries), NEW e \in Entries
  PROVE  LET v == Append(w, e)
         IN  /\ ~IsTorn(e) /\ Status(w) = "whole" => Status(v) = "whole"
             /\ Status(w) # "whole" => Status(v) = "broken"
             /\ Status(v) \in Promise!Worse[Status(w)]
<1> DEFINE v == Append(w, e)
<1> DEFINE n == Len(w)
<1>1. n \in Nat /\ DOMAIN w = 1 .. n /\ DOMAIN v = 1 .. n + 1 /\ v[n + 1] = e
        /\ Len(v) = n + 1 /\ \A i \in 1 .. n : v[i] = w[i]
  OBVIOUS
<1> HIDE DEF v, n
<1>2. TornIn(v) = IF IsTorn(e) THEN TornIn(w) \cup {n + 1} ELSE TornIn(w)
  BY <1>1 DEF TornIn
<1>3. n + 1 \notin TornIn(w)
  BY <1>1 DEF TornIn
<1>4. Status(w) \in {"whole", "frayed", "broken"} /\ (Status(w) = "whole" <=> TornIn(w) = {})
  BY StatusIs
<1>5. ~IsTorn(e) /\ Status(w) = "whole" => Status(v) = "whole"
  BY <1>2, <1>4, StatusIs
<1>6. Status(w) # "whole" => Status(v) = "broken"
  BY <1>1, <1>2, <1>3, <1>4, StatusIs
<1>7. Status(v) \in {"whole", "frayed", "broken"}
  BY StatusIs
<1>8. Status(v) \in Promise!Worse[Status(w)]
  BY <1>4, <1>6, <1>7 DEF Promise!Worse
<1> QED
  BY <1>5, <1>6, <1>8 DEF v

\* A call's entry has the length that memory has after it; what memory says of
\* the files before a call, it still says afterwards.
LEMMA MeasuredOn ==
  ASSUME NEW s, SavedOK(s), NEW w \in Seq(Entries), NEW m, MemOK(m), Measured(s, w, m.dim),
         NEW c \in Calls, ~Rejected(m, c)
  PROVE  LET n == Applied(m, c)
         IN  /\ MemOK(n)
             /\ Measured(s, w, n.dim)
             /\ Measured(s, Append(w, c), n.dim)
<1> DEFINE n == Applied(m, c)
<1> DEFINE v == Append(w, c)
<1> DEFINE d == m.dim
<1>0. c \in Requests
  BY CallsAreNotTorn
<1>1. MemOK(n) /\ n.dim = LengthAfter(m, c)
  BY <1>0, AppliedOK
<1>2. /\ Len(w) \in Nat /\ Len(v) = Len(w) + 1 /\ v[Len(w) + 1] = c
      /\ \A i \in 1 .. Len(w) : v[i] = w[i] /\ w[i] \in Entries
  OBVIOUS
<1>3. c.op \in {"upsert", "remember"} => c.row.dim = n.dim /\ d \in {0, n.dim}
  BY <1>1 DEF Rejected, Fits, LengthAfter
<1>4. c.op \notin {"upsert", "remember"} => n.dim = d
  BY <1>1 DEF LengthAfter
<1>5. PICK o : MemOK(o) /\ s = Saved(o)
  BY DEF SavedOK
<1>6. s.rows = o.rows
  BY <1>5 DEF Saved
<1>7. \A id \in DOMAIN s.rows : s.rows[id].dim \in Dims
  BY <1>5, <1>6 DEF MemOK, Partial, Rows
<1>8. \A i \in 1 .. Len(w) : w[i].op \in {"upsert", "remember"} => w[i].row.dim \in Dims
  <2> TAKE i \in 1 .. Len(w)
  <2>1. w[i] \in Entries
    BY <1>2
  <2>2. w[i] \in Calls \/ w[i].op = "torn"
    BY <2>1 DEF Entries
  <2> DEFINE e == w[i]
  <2>3. e \in Requests \/ e.op = "torn"
    BY <2>2, CallsAreRequests
  <2> HIDE DEF e
  <2>4. e.op \in {"upsert", "remember"} => e.row.dim \in Dims
    BY <2>3, RequestKinds DEF Rows
  <2> QED
    BY <2>4 DEF e
<1> HIDE DEF v, n
<1>9. Measured(s, w, n.dim)
  <2>1. CASE n.dim = d
    BY <2>1
  <2>2. CASE n.dim # d
    <3>1. d = 0
      BY <1>3, <1>4, <2>2
    <3>2. DOMAIN s.rows = {}
      BY <1>7, <3>1, DurableEngineAssumption DEF Measured, MeasuredTo
    <3>3. \A i \in 1 .. Len(w) : w[i].op \notin {"upsert", "remember"}
      BY <1>8, <3>1, DurableEngineAssumption DEF Measured, MeasuredTo
    <3> QED
      BY <3>2, <3>3 DEF Measured, MeasuredTo
  <2> QED
    BY <2>1, <2>2
<1>10. Measured(s, v, n.dim)
  <2>1. \A i \in 1 .. Len(v) : i \in 1 .. Len(w) \/ i = Len(w) + 1
    BY <1>2
  <2> QED
    BY <1>2, <1>3, <1>9, <2>1 DEF Measured, MeasuredTo
<1> QED
  BY <1>1, <1>9, <1>10 DEF n, v

LEMMA MeasuredTorn ==
  ASSUME NEW s, NEW w \in Seq(Entries), NEW d, Measured(s, w, d), NEW e, IsTorn(e)
  PROVE  Measured(s, Append(w, e), d)
<1> DEFINE v == Append(w, e)
<1>1. /\ Len(w) \in Nat /\ Len(v) = Len(w) + 1 /\ v[Len(w) + 1] = e
      /\ \A i \in 1 .. Len(w) : v[i] = w[i]
  OBVIOUS
<1>2. e.op \notin {"upsert", "remember"}
  BY DEF IsTorn
<1> HIDE DEF v
<1>3. \A i \in 1 .. Len(v) : i \in 1 .. Len(w) \/ i = Len(w) + 1
  BY <1>1
<1>4. Measured(s, v, d)
  BY <1>1, <1>2, <1>3 DEF Measured, MeasuredTo
<1> QED
  BY <1>4 DEF v

\* The snapshot of the memory that the log is measured by fits the log.
LEMMA MeasuredSaved ==
  ASSUME NEW s, NEW w, NEW m, MemOK(m), Measured(s, w, m.dim)
  PROVE  Measured(Saved(m), w, m.dim)
<1>1. Saved(m).rows = m.rows
  BY DEF Saved
<1>2. \A id \in DOMAIN m.rows : m.rows[id].dim = m.dim
  BY DEF MemOK, OneLength
<1> QED
  BY <1>1, <1>2 DEF Measured, MeasuredTo

\* A checkpoint leaves what is in memory.
LEMMA RecoveredSaved ==
  ASSUME NEW m, MemOK(m)
  PROVE  /\ SavedOK(Saved(m))
         /\ Registers(Recovered(Saved(m), <<>>)) = Registers(m)
         /\ Measured(Saved(m), <<>>, m.dim)
<1>1. SavedOK(Saved(m))
  BY DEF SavedOK
<1>2. Replay(Saved(m), <<>>) = Outcome(Loaded(Saved(m)))
  BY ReplayEmpty
<1>3. Recovered(Saved(m), <<>>) = Loaded(Saved(m))
  BY <1>2 DEF Recovered, Outcome
<1>4. Registers(Loaded(Saved(m))) = Registers(m)
  BY LoadedOK
<1>5. Measured(Saved(m), <<>>, m.dim)
  <2>1. Saved(m).rows = m.rows /\ Len(<<>>) = 0
    BY DEF Saved
  <2> QED
    BY <2>1 DEF Measured, MeasuredTo, MemOK, OneLength
<1> QED
  BY <1>1, <1>3, <1>4, <1>5

\* A checkpoint that replaced the snapshot and not the log leaves each
\* register as the log had it, or as it is in memory.
LEMMA HalfCheckpointed ==
  ASSUME NEW s, SavedOK(s), NEW w \in Seq(Entries), NEW m, MemOK(m), Measured(s, w, m.dim),
         NEW t \in {s, Saved(m)}
  PROVE  /\ SavedOK(t)
         /\ Measured(t, w, m.dim)
         /\ \A k \in Keys : Registers(Recovered(t, w))[k]
                              \in {Registers(Recovered(s, w))[k], Registers(m)[k]}
<1> DEFINE d == m.dim
<1>1. d \in Dims \cup {0}
  BY DEF MemOK, OneLength
<1>2. SavedOK(Saved(m))
  BY DEF SavedOK
<1>3. Measured(Saved(m), w, d)
  BY MeasuredSaved
<1>4. Measured(s, w, d)
  OBVIOUS
<1> HIDE DEF d
<1>5. \A k \in Keys : Registers(Recovered(Saved(m), w))[k]
                        \in {Registers(Recovered(s, w))[k], Registers(m)[k]}
  BY <1>1, <1>3, <1>4, HalfReplay
<1> QED
  BY <1>2, <1>3, <1>5 DEF d

-----------------------------------------------------------------------------
(* The invariant                                                            *)

\* What is in memory is in order, and the files hold vectors of the length
\* that memory knows, or none.
EInv ==
    /\ MemOK(mem)
    /\ SavedOK(snapshot)
    /\ wal \in Seq(Entries)
    /\ walSize \in Nat
    /\ Measured(snapshot, wal, mem.dim)
    /\ open \in {"up", "down", "refused"}
    /\ workload \in Workloads
    /\ acked \subseteq Keys
    /\ view = [live |-> Registers(mem), durable |-> Registers(Recovered(snapshot, wal))]

Watched == view' = [live |-> Registers(mem'), durable |-> Registers(Recovered(snapshot', wal'))]

LEMMA NextWatches == Next => Step /\ Watched
BY DEF Next, Watched

\* The registers that a step changes are those that Store sees changed.
LEMMA ChangedIs ==
  ASSUME Watched
  PROVE  /\ Changed = Promise!Changed
         /\ Changed \subseteq Keys
         /\ \A k \in Keys : k \notin Changed => Registers(mem')[k] = view.live[k]
<1> DEFINE after == Registers(mem')
<1> DEFINE S == {k \in Keys : after[k] # view.live[k]}
<1>1. {{k \in Keys : x[k] # view.live[k]} : x \in {after}} = {S}
  OBVIOUS
<1>2. Changed = CHOOSE x \in {S} : TRUE
  BY <1>1 DEF Changed
<1>3. Changed = S
  <2> HIDE DEF S
  <2> QED
    BY <1>2
<1>4. view'.live = after
  BY DEF Watched
<1>5. Promise!Changed = S
  BY <1>4 DEF Promise!Changed
<1> QED
  BY <1>3, <1>5

LEMMA WorseIsReflexive ==
  ASSUME NEW w
  PROVE  Status(w) \in Promise!Worse[Status(w)]
<1>1. Status(w) \in {"whole", "frayed", "broken"}
  BY StatusIs
<1> QED
  BY <1>1 DEF Promise!Worse

\* A register after a call is what the call writes, or what it was.
LEMMA EffectKeeps ==
  ASSUME NEW c, NEW f, NEW g, NEW k \in Keys
  PROVE  Promise!Effect(c, f)[k] \in {f[k], Promise!Effect(c, g)[k]}
BY DEF Promise!Effect

-----------------------------------------------------------------------------
(* The steps                                                                *)

\* A call that is logged: with the log whole its registers are durable when it
\* returns Ok; when it returns an error each of them may be.
LEMMA LoggedStep ==
  ASSUME EInv, Watched, open = "up", open' = open, workload' = workload,
         NEW c \in Calls, ~Rejected(mem, c),
         mem' = Applied(mem, c), Logged(c)
  PROVE  EInv' /\ (Promise!Write(c) \/ Promise!Unacknowledged(c))
<1> DEFINE n == Applied(mem, c)
<1> DEFINE v == Append(wal, c)
<1> DEFINE live == Registers(mem)
<1> DEFINE durable == Registers(Recovered(snapshot, wal))
<1>0. /\ MemOK(mem) /\ SavedOK(snapshot) /\ wal \in Seq(Entries) /\ walSize \in Nat
      /\ Measured(snapshot, wal, mem.dim) /\ acked \subseteq Keys
      /\ view.live = live /\ view.durable = durable
      /\ c \in Entries /\ c \in Requests /\ ~IsTorn(c)
      /\ RotateAt \in Nat \ {0} /\ workload \in Workloads
  BY CallsAreNotTorn, DurableEngineAssumption DEF EInv
<1>1. MemOK(n) /\ Measured(snapshot, wal, n.dim) /\ Measured(snapshot, v, n.dim)
  BY <1>0, MeasuredOn
<1>2. v \in Seq(Entries)
  BY <1>0
<1>3. Registers(n) = Promise!Effect(c, live)
  BY <1>0, EffectOfCall
<1>4. Registers(Recovered(snapshot, v)) = Promise!Effect(c, durable)
  <2> DEFINE d == n.dim
  <2>1. d \in Dims \cup {0} /\ Measured(snapshot, Append(wal, c), d)
    BY <1>1 DEF MemOK, OneLength
  <2>2. SavedOK(snapshot) /\ wal \in Seq(Entries) /\ c \in Entries /\ ~IsTorn(c)
    BY <1>0
  <2> HIDE DEF d
  <2> QED
    BY <2>1, <2>2, RecoveredAppend
<1>5. \A k \in Keys : Promise!Effect(c, durable)[k] \in {durable[k], Promise!Effect(c, live)[k]}
  <2> HIDE DEF live, durable
  <2> QED
    BY EffectKeeps
<1>6. /\ mem' = n /\ view'.live = Promise!Effect(c, live)
      /\ view'.durable = Registers(Recovered(snapshot', wal'))
  BY <1>3 DEF Watched
<1>7. Changed = Promise!Changed /\ Changed \subseteq Keys
  BY ChangedIs
<1> HIDE DEF n, v, live, durable
<1>8. CASE /\ wal' = v /\ snapshot' = snapshot /\ walSize' = walSize + 1
           /\ acked' = IF Status(wal) = "whole" THEN acked \cup Changed ELSE acked \ Changed
  <2>1. EInv'
    BY <1>0, <1>1, <1>2, <1>6, <1>7, <1>8 DEF EInv, Watched
  <2>2. view'.durable = Promise!Effect(c, durable)
    BY <1>4, <1>6, <1>8
  <2>3. CASE Status(wal) = "whole"
    <3>1. Status(v) = "whole"
      BY <1>0, <2>3, StatusAppend DEF v
    <3>2. Promise!Write(c)
      BY <1>0, <1>6, <1>7, <1>8, <2>2, <2>3, <3>1 DEF Promise!Write
    <3> QED
      BY <2>1, <3>2
  <2>4. CASE Status(wal) # "whole"
    <3>1. Status(v) \in Promise!Worse[Status(wal)]
      BY <1>0, StatusAppend DEF v
    <3>2. Promise!Unacknowledged(c)
      BY <1>0, <1>5, <1>6, <1>7, <1>8, <2>2, <2>4, <3>1 DEF Promise!Unacknowledged
    <3> QED
      BY <2>1, <3>2
  <2> QED
    BY <2>3, <2>4
<1>9. CASE snapshot' = Saved(mem') /\ wal' = <<>> /\ walSize' = 0 /\ acked' = Keys
  <2>1. /\ SavedOK(Saved(n)) /\ Registers(Recovered(Saved(n), <<>>)) = Registers(n)
        /\ Measured(Saved(n), <<>>, n.dim)
    BY <1>1, RecoveredSaved
  <2>2. <<>> \in Seq(Entries)
    OBVIOUS
  <2>3. EInv'
    BY <1>0, <1>1, <1>6, <1>9, <2>1, <2>2 DEF EInv, Watched
  <2>4. view'.durable = view'.live
    BY <1>3, <1>6, <1>9, <2>1
  <2>5. Promise!Write(c)
    BY <1>0, <1>6, <1>9, <2>4, StatusOfEmpty DEF Promise!Write
  <2> QED
    BY <2>3, <2>5
<1>10. CASE snapshot' \in {snapshot, Saved(mem')} /\ wal' = v /\ acked' = acked \ Changed
              /\ walSize' = walSize + 1
  <2>1. snapshot' \in {snapshot, Saved(n)}
    BY <1>6, <1>10
  <2>2. /\ SavedOK(snapshot') /\ Measured(snapshot', v, n.dim)
        /\ \A k \in Keys : Registers(Recovered(snapshot', v))[k]
                             \in {Registers(Recovered(snapshot, v))[k], Registers(n)[k]}
    BY <1>0, <1>1, <1>2, <2>1, HalfCheckpointed
  <2>3. EInv'
    BY <1>0, <1>1, <1>2, <1>6, <1>7, <1>10, <2>2 DEF EInv, Watched
  <2>4. \A k \in Keys : view'.durable[k] \in {durable[k], view'.live[k]}
    BY <1>3, <1>4, <1>5, <1>6, <1>10, <2>2
  <2>5. Status(v) \in Promise!Worse[Status(wal)]
    BY <1>0, StatusAppend DEF v
  <2>6. Promise!Unacknowledged(c)
    BY <1>0, <1>6, <1>7, <1>10, <2>4, <2>5 DEF Promise!Unacknowledged
  <2> QED
    BY <2>3, <2>6
<1>11. CASE /\ wal' \in {wal} \cup {Append(wal, [op |-> "torn", part |-> p]) : p \in Torn}
            /\ acked' = acked \ Changed /\ snapshot' = snapshot /\ walSize' = walSize
  <2>1. /\ wal' \in Seq(Entries)
        /\ Measured(snapshot, wal', n.dim)
        /\ Status(wal') \in Promise!Worse[Status(wal)]
        /\ Registers(Recovered(snapshot, wal')) = durable
    <3>1. CASE wal' = wal
      BY <1>0, <1>1, <3>1, WorseIsReflexive DEF durable
    <3>2. CASE \E p \in Torn : wal' = Append(wal, [op |-> "torn", part |-> p])
      <4>1. PICK p \in Torn : wal' = Append(wal, [op |-> "torn", part |-> p])
        BY <3>2
      <4> DEFINE e == [op |-> "torn", part |-> p]
      <4> DEFINE d == n.dim
      <4>2. e \in Entries /\ IsTorn(e) /\ wal' = Append(wal, e)
        BY <4>1, TornIsTorn
      <4>3. d \in Dims \cup {0} /\ Measured(snapshot, wal, d)
        BY <1>1 DEF MemOK, OneLength
      <4> HIDE DEF e, d
      <4>4. Append(wal, e) \in Seq(Entries)
        BY <1>0, <4>2
      <4>5. Measured(snapshot, Append(wal, e), d)
        BY <1>0, <4>2, <4>3, MeasuredTorn
      <4>6. Recovered(snapshot, Append(wal, e)) = Recovered(snapshot, wal)
        BY <1>0, <4>2, <4>3, <4>5, RecoveredTorn
      <4>7. Status(Append(wal, e)) \in Promise!Worse[Status(wal)]
        BY <1>0, <4>2, StatusAppend
      <4> QED
        BY <1>0, <4>2, <4>4, <4>5, <4>6, <4>7 DEF durable, d
    <3> QED
      BY <1>11, <3>1, <3>2
  <2>2. EInv'
    BY <1>0, <1>1, <1>6, <1>7, <1>11, <2>1 DEF EInv, Watched
  <2>3. view'.durable = durable
    BY <1>6, <1>11, <2>1
  <2>4. Promise!Unacknowledged(c)
    BY <1>0, <1>6, <1>7, <1>11, <2>1, <2>3 DEF Promise!Unacknowledged
  <2> QED
    BY <2>2, <2>4
<1> QED
  BY <1>8, <1>9, <1>10, <1>11 DEF Logged, Checkpointed, v

\* A delete that found no row is not logged, whatever else it removed.
LEMMA UnloggedStep ==
  ASSUME EInv, Watched, open = "up", open' = open, workload' = workload,
         NEW c \in Calls, ~Rejected(mem, c),
         mem' = Applied(mem, c), snapshot' = snapshot, wal' = wal, walSize' = walSize,
         acked' = acked \ Changed
  PROVE  EInv' /\ Promise!Unacknowledged(c)
<1> DEFINE n == Applied(mem, c)
<1> DEFINE live == Registers(mem)
<1>0. /\ MemOK(mem) /\ SavedOK(snapshot) /\ wal \in Seq(Entries) /\ walSize \in Nat
      /\ Measured(snapshot, wal, mem.dim) /\ acked \subseteq Keys
      /\ view.live = live /\ view.durable = Registers(Recovered(snapshot, wal))
      /\ c \in Requests /\ workload \in Workloads
  BY CallsAreNotTorn DEF EInv
<1>1. MemOK(n) /\ Measured(snapshot, wal, n.dim)
  BY <1>0, MeasuredOn
<1>2. Registers(n) = Promise!Effect(c, live)
  BY <1>0, EffectOfCall
<1>3. Changed = Promise!Changed /\ Changed \subseteq Keys
  BY ChangedIs
<1> HIDE DEF n, live
<1>4. mem' = n /\ view'.live = Promise!Effect(c, live) /\ view'.durable = view.durable
  BY <1>0, <1>2 DEF Watched, n
<1>5. EInv'
  BY <1>0, <1>1, <1>3, <1>4 DEF EInv, Watched
<1>6. Promise!Unacknowledged(c)
  BY <1>0, <1>3, <1>4, WorseIsReflexive DEF Promise!Unacknowledged
<1> QED
  BY <1>5, <1>6

LEMMA CallStep ==
  ASSUME EInv, Watched, open = "up", NEW c \in Calls, Call(c) \/ CallIfDeleted(c)
  PROVE  EInv' /\ (Promise!Write(c) \/ Promise!Unacknowledged(c))
<1>1. ~Rejected(mem, c)
  BY DEF Call, CallIfDeleted, Rejected
<1>2. open' = open /\ workload' = workload /\ mem' = Applied(mem, c)
  BY DEF Call, CallIfDeleted
<1>3. \/ Logged(c)
      \/ snapshot' = snapshot /\ wal' = wal /\ walSize' = walSize /\ acked' = acked \ Changed
  BY DEF Call, CallIfDeleted
<1> QED
  BY <1>1, <1>2, <1>3, LoggedStep, UnloggedStep

LEMMA CheckpointStep ==
  ASSUME EInv, Watched, open = "up", Checkpoint
  PROVE  EInv' /\ (Promise!Checkpoint \/ Promise!HalfCheckpoint)
<1> DEFINE live == Registers(mem)
<1> DEFINE durable == Registers(Recovered(snapshot, wal))
<1>0. /\ MemOK(mem) /\ SavedOK(snapshot) /\ wal \in Seq(Entries) /\ walSize \in Nat
      /\ Measured(snapshot, wal, mem.dim) /\ acked \subseteq Keys
      /\ view.live = live /\ view.durable = durable
      /\ workload \in Workloads /\ RotateAt \in Nat \ {0}
  BY DurableEngineAssumption DEF EInv
<1>1. mem' = mem /\ open' = open /\ workload' = workload /\ view'.live = view.live
        /\ view'.durable = Registers(Recovered(snapshot', wal'))
  BY <1>0 DEF Checkpoint, Watched
<1>2. Changed = {}
  <2>1. Changed = Promise!Changed
    BY ChangedIs
  <2> QED
    BY <1>1, <2>1 DEF Promise!Changed
<1>3. CASE snapshot' = Saved(mem') /\ wal' = <<>> /\ walSize' = 0 /\ acked' = Keys
  <2>1. /\ SavedOK(Saved(mem)) /\ Registers(Recovered(Saved(mem), <<>>)) = live
        /\ Measured(Saved(mem), <<>>, mem.dim)
    BY <1>0, RecoveredSaved
  <2>2. <<>> \in Seq(Entries)
    OBVIOUS
  <2> HIDE DEF live, durable
  <2>3. EInv'
    BY <1>0, <1>1, <1>3, <2>1, <2>2 DEF EInv, Watched
  <2>4. view'.durable = view.live
    BY <1>0, <1>1, <1>3, <2>1
  <2>5. Promise!Checkpoint
    BY <1>1, <1>3, <2>4, StatusOfEmpty DEF Promise!Checkpoint
  <2> QED
    BY <2>3, <2>5
<1>4. CASE /\ snapshot' \in {snapshot, Saved(mem')} /\ wal' = wal /\ walSize' = walSize
           /\ acked' = acked \ Changed
  <2>1. snapshot' \in {snapshot, Saved(mem)} /\ acked' = acked
    BY <1>1, <1>2, <1>4
  <2>2. /\ SavedOK(snapshot') /\ Measured(snapshot', wal, mem.dim)
        /\ \A k \in Keys : Registers(Recovered(snapshot', wal))[k] \in {durable[k], live[k]}
    BY <1>0, <2>1, HalfCheckpointed
  <2> HIDE DEF live, durable
  <2>3. EInv'
    BY <1>0, <1>1, <1>4, <2>1, <2>2 DEF EInv, Watched
  <2>4. Promise!HalfCheckpoint
    BY <1>0, <1>1, <1>4, <2>1, <2>2 DEF Promise!HalfCheckpoint
  <2> QED
    BY <2>3, <2>4
<1> QED
  BY <1>3, <1>4 DEF Checkpoint, Checkpointed

\* What a dream changes is not logged: records, edges and ticks.
LEMMA DreamChanges ==
  ASSUME EInv, Watched, Dream
  PROVE  /\ MemOK(mem') /\ mem'.dim = mem.dim
         /\ Changed \subseteq Volatile
<1>0. MemOK(mem) /\ workload \in Workloads /\ view.live = Registers(mem)
  BY DEF EInv
<1>1. Changed = {k \in Keys : Registers(mem')[k] # view.live[k]}
  BY ChangedIs DEF Watched, Promise!Changed
<1>2. CASE \E c \in workload.calls : c.op \in {"update", "connect"} /\ mem' = Applied(mem, c)
  <2>1. PICK c \in Calls : c.op \in {"update", "connect"} /\ mem' = Applied(mem, c)
    BY <1>0, <1>2 DEF Calls
  <2> DEFINE n == Applied(mem, c)
  <2> DEFINE f == Registers(mem)
  <2>2. c \in Requests /\ ~Rejected(mem, c)
    BY <2>1, CallsAreNotTorn DEF Rejected
  <2>3. MemOK(n) /\ n.dim = mem.dim
    <3>1. MemOK(n) /\ n.dim = LengthAfter(mem, c)
      BY <1>0, <2>2, AppliedOK
    <3> QED
      BY <2>1, <3>1 DEF LengthAfter
  <2>4. Registers(n) = Promise!Effect(c, f)
    BY <1>0, <2>1, <2>2, EffectOfCall
  <2> HIDE DEF n, f
  <2>5. ASSUME NEW k \in Keys, k[1] \notin {"record", "edge", "skg"}
        PROVE  Registers(n)[k] = f[k]
    <3>1. Registers(n)[k] = Left(c, k, f[k])
      BY <2>1, <2>4, EffectIsLeft
    <3> QED
      BY <2>1, <2>5, <3>1 DEF Left
  <2>6. mem' = n
    BY <2>1 DEF n
  <2> QED
    BY <1>0, <1>1, <2>3, <2>5, <2>6 DEF Volatile, f
<1>3. CASE mem' = [mem EXCEPT !.skg = @ + 1]
  <2> DEFINE n == [mem EXCEPT !.skg = @ + 1]
  <2>1. /\ MemOK(n) /\ n.rows = mem.rows /\ n.dim = mem.dim /\ n.records = mem.records
        /\ n.graph = mem.graph /\ n.tree = mem.tree
    BY <1>0, TickedOK
  <2>2. mem' = n
    BY <1>3
  <2> HIDE DEF n
  <2>3. ASSUME NEW k \in Keys, k[1] # "skg"
        PROVE  Registers(n)[k] = Registers(mem)[k]
    <3>1. /\ Registers(n)[k] = RegisterOf(n.rows, n.records, n.graph, n.tree, n.skg, k)
          /\ Registers(mem)[k]
               = RegisterOf(mem.rows, mem.records, mem.graph, mem.tree, mem.skg, k)
      BY RegisterIs
    <3>2. k[1] \in {"row", "record", "edge", "term"}
      BY <2>3, KeyKinds
    <3> QED
      BY <2>1, <3>1, <3>2 DEF RegisterOf
  <2> QED
    BY <1>0, <1>1, <2>1, <2>2, <2>3 DEF Volatile
<1> QED
  BY <1>2, <1>3 DEF Dream

LEMMA DreamStep ==
  ASSUME EInv, Watched, open = "up", Dream
  PROVE  EInv' /\ (Promise!Slip \/ UNCHANGED Promise!store)
<1>0. /\ MemOK(mem) /\ SavedOK(snapshot) /\ wal \in Seq(Entries) /\ walSize \in Nat
      /\ Measured(snapshot, wal, mem.dim) /\ acked \subseteq Keys
      /\ view.live = Registers(mem) /\ view.durable = Registers(Recovered(snapshot, wal))
      /\ workload \in Workloads
  BY DEF EInv
<1>1. snapshot' = snapshot /\ wal' = wal /\ walSize' = walSize /\ open' = open
        /\ workload' = workload /\ acked' = acked \ Changed
  BY DEF Dream
<1>2. MemOK(mem') /\ mem'.dim = mem.dim /\ Changed \subseteq Volatile
  BY DreamChanges
<1>3. Changed = Promise!Changed /\ Changed \subseteq Keys
  BY ChangedIs
<1>4. view'.live = Registers(mem') /\ view'.durable = view.durable
  BY <1>0, <1>1 DEF Watched
<1>5. EInv'
  BY <1>0, <1>1, <1>2, <1>3 DEF EInv, Watched
<1>6. CASE view'.live # view.live
  BY <1>1, <1>2, <1>3, <1>4, <1>5, <1>6 DEF Promise!Slip
<1>7. CASE view'.live = view.live
  <2>1. Promise!Changed = {}
    BY <1>7 DEF Promise!Changed
  <2>2. acked' = acked
    BY <1>1, <1>3, <2>1
  <2>3. Status(wal)' = Status(wal)
    BY <1>1
  <2>4. UNCHANGED Promise!store
    BY <1>1, <1>4, <1>7, <2>2, <2>3 DEF Promise!store
  <2> QED
    BY <1>5, <2>4
<1> QED
  BY <1>6, <1>7

LEMMA CrashStep ==
  ASSUME EInv, Watched, open = "up", Crash
  PROVE  EInv' /\ Promise!Crash
<1>1. /\ open' = "down" /\ mem' = mem /\ snapshot' = snapshot /\ wal' = wal
      /\ walSize' = walSize
      /\ workload' = workload /\ acked' = acked
  BY DEF Crash
<1>2. view' = view
  BY <1>1 DEF EInv, Watched
<1> QED
  BY <1>1, <1>2 DEF EInv, Watched, Promise!Crash

LEMMA OpenStep ==
  ASSUME EInv, Watched, open # "up", Open
  PROVE  EInv' /\ Promise!Reopen
<1> DEFINE m == Recovered(snapshot, wal)
<1> DEFINE d == mem.dim
<1>0. /\ MemOK(mem) /\ SavedOK(snapshot) /\ wal \in Seq(Entries) /\ walSize \in Nat
      /\ Measured(snapshot, wal, d) /\ d \in Dims \cup {0}
      /\ view.durable = Registers(m)
      /\ workload \in Workloads
  BY DEF EInv, MemOK, OneLength
<1>1. /\ Status(wal) # "broken" /\ mem' = m /\ open' = "up" /\ acked' = Keys
      /\ snapshot' = snapshot /\ wal' = wal /\ workload' = workload
      /\ walSize' \in Nat
  BY <1>0 DEF Open, CanOpen
<1>2. MemOK(m) /\ Measured(snapshot, wal, m.dim)
  <2> HIDE DEF d
  <2> QED
    BY <1>0, LegibleGives DEF Legible, Gives
<1>3. view'.live = view.durable /\ view'.durable = view.durable
  BY <1>0, <1>1 DEF Watched
<1> HIDE DEF m
<1>4. EInv'
  BY <1>0, <1>1, <1>2 DEF EInv, Watched
<1>5. Promise!Reopen
  BY <1>1, <1>3 DEF Promise!Reopen
<1> QED
  BY <1>4, <1>5

\* open fails for nothing but what an append left torn.
LEMMA OpenFailsStep ==
  ASSUME EInv, Watched, open # "up", OpenFails
  PROVE  EInv' /\ Promise!Refuse
<1> DEFINE d == mem.dim
<1>1. Legible(snapshot, wal, d)
  BY DEF EInv, Legible, MemOK, OneLength
<1>2. ~ReplayRejects(snapshot, wal)
  <2> HIDE DEF d
  <2> QED
    BY <1>1, LegibleGives
<1>3. Status(wal) = "broken"
  BY <1>2 DEF OpenFails, CanOpen
<1>4. /\ open' = "refused" /\ mem' = mem /\ snapshot' = snapshot /\ wal' = wal
      /\ walSize' = walSize /\ workload' = workload /\ acked' = acked
  BY DEF OpenFails
<1>5. view' = view
  BY <1>4 DEF EInv, Watched
<1> QED
  BY <1>3, <1>4, <1>5 DEF EInv, Watched, Promise!Refuse

LEMMA StartsOK ==
  ASSUME Init
  PROVE  EInv /\ Promise!StoreInit
<1>1. /\ mem = Empty /\ snapshot = Saved(Empty) /\ wal = <<>> /\ open = "up"
      /\ walSize = 0 /\ workload \in Workloads /\ acked = Keys
      /\ view = [live |-> Registers(Empty), durable |-> Registers(Empty)]
  BY DEF Init
<1>2. MemOK(Empty)
  BY EmptyOK
<1>3. /\ SavedOK(Saved(Empty)) /\ Registers(Recovered(Saved(Empty), <<>>)) = Registers(Empty)
      /\ Measured(Saved(Empty), <<>>, Empty.dim)
  BY <1>2, RecoveredSaved
<1>4. <<>> \in Seq(Entries)
  OBVIOUS
<1>5. EInv
  BY <1>1, <1>2, <1>3, <1>4, DurableEngineAssumption DEF EInv
<1>6. \A k \in Keys : Registers(Empty)[k] = {}
  <2> TAKE k \in Keys
  <2>1. /\ Empty.rows = <<>> /\ Empty.records = <<>> /\ Empty.graph.edges = {}
        /\ Empty.tree = <<>> /\ Empty.skg = 0
    BY DEF Empty, NoGraph, NoTree
  <2>2. Registers(Empty)[k]
          = RegisterOf(Empty.rows, Empty.records, Empty.graph, Empty.tree, Empty.skg, k)
    BY RegisterIs
  <2>3. At(<<>>, k[2]) = {} /\ SearchExact(<<>>, k[2][1]) = {}
    BY DEF At, SearchExact
  <2>4. k[1] \in {"row", "record", "edge", "term", "skg"}
    BY KeyKinds
  <2> QED
    BY <2>1, <2>2, <2>3, <2>4 DEF RegisterOf, Between
<1>7. Registers(Empty) = [k \in Keys |-> {}]
  <2> DEFINE f == Registers(Empty)
  <2>1. f = [k \in Keys |-> f[k]]
    BY RegistersAreAFunction
  <2> HIDE DEF f
  <2>2. \A k \in Keys : f[k] = {}
    BY <1>6 DEF f
  <2>3. f = [k \in Keys |-> {}]
    BY <2>1, <2>2
  <2> QED
    BY <2>3 DEF f
<1>8. Promise!StoreInit
  BY <1>1, <1>7, StatusOfEmpty DEF Promise!StoreInit
<1> QED
  BY <1>5, <1>8

LEMMA StepOK ==
  ASSUME EInv, [Next]_vars
  PROVE  EInv' /\ [Promise!StoreNext]_(Promise!store)
<1>1. CASE Next
  <2>1. Step /\ Watched
    BY <1>1, NextWatches
  <2>2. workload \in Workloads
    BY DEF EInv
  <2>3. CASE open = "up" /\ \E c \in workload.calls : (Call(c) \/ CallIfDeleted(c))
    <3>1. PICK c \in Calls : Call(c) \/ CallIfDeleted(c)
      BY <2>2, <2>3 DEF Calls
    <3>2. EInv' /\ (Promise!Write(c) \/ Promise!Unacknowledged(c))
      BY <2>1, <2>2, <2>3, <3>1, CallStep
    <3> QED
      BY <3>2 DEF Promise!StoreNext
  <2>4. CASE open = "up" /\ Checkpoint
    <3>1. EInv' /\ (Promise!Checkpoint \/ Promise!HalfCheckpoint)
      BY <2>1, <2>2, <2>4, CheckpointStep
    <3> QED
      BY <3>1 DEF Promise!StoreNext
  <2>5. CASE open = "up" /\ Dream
    <3>1. EInv' /\ (Promise!Slip \/ UNCHANGED Promise!store)
      BY <2>1, <2>2, <2>5, DreamStep
    <3> QED
      BY <3>1 DEF Promise!StoreNext
  <2>6. CASE open = "up" /\ Crash
    <3>1. EInv' /\ Promise!Crash
      BY <2>1, <2>2, <2>6, CrashStep
    <3> QED
      BY <3>1 DEF Promise!StoreNext
  <2>7. CASE open # "up" /\ Open
    <3>1. EInv' /\ Promise!Reopen
      BY <2>1, <2>7, OpenStep
    <3> QED
      BY <3>1 DEF Promise!StoreNext
  <2>8. CASE open # "up" /\ OpenFails
    <3>1. EInv' /\ Promise!Refuse
      BY <2>1, <2>8, OpenFailsStep
    <3> QED
      BY <3>1 DEF Promise!StoreNext
  <2> QED
    BY <2>1, <2>3, <2>4, <2>5, <2>6, <2>7, <2>8 DEF Step
<1>2. CASE UNCHANGED vars
  <2>1. /\ mem' = mem /\ snapshot' = snapshot /\ wal' = wal /\ open' = open
        /\ walSize' = walSize /\ workload' = workload /\ acked' = acked /\ view' = view
    BY <1>2 DEF vars
  <2>2. EInv'
    BY <2>1 DEF EInv
  <2>3. UNCHANGED Promise!store
    BY <2>1 DEF Promise!store
  <2> QED
    BY <2>2, <2>3
<1> QED
  BY <1>1, <1>2

LEMMA InvAgrees ==
  ASSUME EInv
  PROVE  ViewsAgree
<1>0. /\ MemOK(mem) /\ SavedOK(snapshot) /\ wal \in Seq(Entries) /\ walSize \in Nat
      /\ Measured(snapshot, wal, mem.dim) /\ acked \subseteq Keys
  BY DEF EInv
<1>1. IndexMatchesRows
  BY <1>0 DEF MemOK, Indexed, IndexMatchesRows
<1>2. EveryEdgeIsVisible
  BY <1>0 DEF MemOK, GraphOK, EveryEdgeIsVisible
<1>3. RecoveryIsNeverRejected
  <2> DEFINE d == mem.dim
  <2>1. Legible(snapshot, wal, d)
    BY <1>0 DEF Legible, MemOK, OneLength
  <2> HIDE DEF d
  <2> QED
    BY <2>1, LegibleGives DEF RecoveryIsNeverRejected
<1>4. TypeOK
  <2>1. DOMAIN mem.rows \subseteq Nodes /\ Range(mem.rows) \subseteq Rows
    BY <1>0 DEF MemOK, Partial, Range
  <2>2. DOMAIN mem.records \subseteq Nodes /\ Range(mem.records) \subseteq Records
    BY <1>0 DEF MemOK, Partial, Range
  <2>3. mem.graph.edges \subseteq Edges
    BY <1>0 DEF MemOK, GraphOK, Graphs
  <2>4. \A t \in DOMAIN mem.tree : NodeOK(mem.tree[t])
    BY <1>0 DEF MemOK, TreeOK
  <2> QED
    BY <1>0, <2>1, <2>2, <2>3, <2>4 DEF TypeOK, NodeOK, EInv
<1> QED
  BY <1>1, <1>2, <1>3, <1>4 DEF ViewsAgree

-----------------------------------------------------------------------------

\* For every workload, every limit and a log that outgrew it, whatever is torn,
\* half checkpointed or replayed: the tag index says what the rows say, every edge
\* can be walked, and a log is never refused for the length of a vector.
THEOREM ViewsStayAgreed == Spec => []ViewsAgree
<1>1. Init => EInv
  BY StartsOK
<1>2. EInv /\ [Next]_vars => EInv'
  BY StepOK
<1>3. EInv => ViewsAgree
  BY InvAgrees
<1> QED
  BY <1>1, <1>2, <1>3, PTL DEF Spec

\* The engine implements Store: replaying the log over the snapshot, also over
\* a newer one than its own, gives back what the calls that returned Ok wrote.
THEOREM EngineKeepsItsPromise == Spec => KeepsItsPromise
<1>1. Init => EInv /\ Promise!StoreInit
  BY StartsOK
<1>2. EInv /\ [Next]_vars => EInv' /\ [Promise!StoreNext]_(Promise!store)
  BY StepOK
<1>3. Spec => Promise!StoreSpec
  BY <1>1, <1>2, PTL DEF Spec, Promise!StoreSpec
<1> QED
  BY <1>3 DEF KeepsItsPromise

\* A restart that succeeds gives back what a call acknowledged, and one is refused
\* only where an append since the last checkpoint was cut short: by the refinement,
\* and the theorem of Store.
THEOREM AcknowledgedComesBack == Spec => AcknowledgedSurvives
<1>1. Spec => Promise!StoreSpec
  BY EngineKeepsItsPromise DEF KeepsItsPromise
<1>2. Promise!StoreSpec => Promise!AcknowledgedSurvives
  BY Promise!RestartGivesBack
<1> QED
  BY <1>1, <1>2 DEF AcknowledgedSurvives
=============================================================================
