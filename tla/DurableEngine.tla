------------------------------- MODULE DurableEngine -------------------------------
(***************************************************************************)
(* The durable engine (ferricula-core/src/persist.rs): rows with their tag *)
(* index, memory records, the memory graph and the term tree in memory, a  *)
(* snapshot, and a write-ahead log that is replayed over it.  Every call   *)
(* changes memory first and appends to the log afterwards; a log of        *)
(* RotateAt entries or more ends the call with a checkpoint, and goes on   *)
(* growing for as long as the checkpoints fail.                            *)
(*                                                                         *)
(* A call and its log entry are the same record.  Row, record, label and   *)
(* weight are cut down to what tells two writes apart.  The older snapshot *)
(* and log layouts, which load converts, are left out.                     *)
(***************************************************************************)
EXTENDS Integers, FiniteSets, Functions, Sequences, SequencesExt, MemoryGraph

-----------------------------------------------------------------------------
(***************************************************************************)
(* The prime-partitioned term tree (ferricula-core/src/prime_tree.rs): for *)
(* each term a root that owns memory ids; a leaf root with more members    *)
(* than its prime splits by the next prime, and merge folds it back.       *)
(*                                                                         *)
(* insert looks at the root alone when it decides to split, so a tree is   *)
(* two levels deep: buckets never split.  A tree is a function from terms  *)
(* to [members, children], children a function from bucket numbers to      *)
(* non-empty sets of ids.  Node ids are left out: nothing reads them but   *)
(* the lookup of a child.                                                  *)
(***************************************************************************)

CONSTANTS
    Terms,
    RootPrime,     \* PRIMES[0]
    ChildPrime     \* PRIMES[1]

ASSUME PrimeTreeAssumption == RootPrime \in Nat /\ ChildPrime \in Nat \ {0}

NoTree == <<>>
NewRoot == [members |-> {}, children |-> <<>>]

Bucket(id) == id % ChildPrime

\* insert_into: a split root passes the id to its bucket, and keeps it where
\* it has no such bucket.
Routed(node, id) ==
    IF Bucket(id) \in DOMAIN node.children
    THEN [node EXCEPT !.children[Bucket(id)] = @ \cup {id}]
    ELSE [node EXCEPT !.members = @ \cup {id}]

\* split
Split(node) ==
    LET buckets == {Bucket(id) : id \in node.members}
    IN  IF Cardinality(node.members) <= 1 \/ DOMAIN node.children # {} \/ Cardinality(buckets) <= 1
        THEN node
        ELSE [members |-> {},
              children |-> [b \in buckets |-> {id \in node.members : Bucket(id) = b}]]

\* maybe_split
MaybeSplit(node) ==
    IF DOMAIN node.children = {} /\ Cardinality(node.members) > RootPrime THEN Split(node) ELSE node

\* insert
Inserted(tree, term, id) ==
    LET root == IF term \in DOMAIN tree THEN tree[term] ELSE NewRoot
    IN  [t \in DOMAIN tree \cup {term} |->
            IF t = term THEN MaybeSplit(Routed(root, id)) ELSE tree[t]]

\* collect_members
Members(node) == node.members \cup UNION {node.children[b] : b \in DOMAIN node.children}

\* remove_member and prune_empty_leaves: the empty leaves are listed before
\* any is pruned, so a root that loses its last bucket stays, empty, until
\* the next removal.
WithoutMember(tree, id) ==
    LET kept == [t \in DOMAIN tree |->
                    [members |-> tree[t].members \ {id},
                     children |-> [b \in DOMAIN tree[t].children |-> tree[t].children[b] \ {id}]]]
        pruned == [t \in DOMAIN tree |->
                    [kept[t] EXCEPT !.children =
                        Restrict(@, {b \in DOMAIN @ : @[b] # {}})]]
    IN  Restrict(pruned, {t \in DOMAIN tree : DOMAIN kept[t].children # {} \/ kept[t].members # {}})

\* merge
Merged(tree, term) ==
    [tree EXCEPT ![term] = [members |-> Members(@), children |-> <<>>]]

\* search_exact
SearchExact(tree, term) == IF term \in DOMAIN tree THEN Members(tree[term]) ELSE {}

-----------------------------------------------------------------------------

CONSTANTS
    Tags, Dims,     \* a row has one tag and a vector of one length
    Records,        \* values of a memory record
    Workloads,      \* kinds of caller: the calls one makes, does it dream, and
                    \* the bound maxWal: it calls with no log file this long
    RotateAt,       \* WAL_ROTATE_BYTES, in entries
    MaxTicks        \* bound on the ticks of the term graph

Rows == [tag : Tags, dim : Dims]

\* The calls that can be made, with the fields that each of them reads.
Requests ==
    [op : {"upsert"}, id : Nodes, row : Rows]
       \cup [op : {"remember"}, id : Nodes, row : Rows, record : Records]
       \cup [op : {"update"}, id : Nodes, record : Records]
       \cup [op : {"delete", "remove"}, id : Nodes]
       \cup [op : {"connect"}, edge : Edges]
       \cup [op : {"disconnect"}, pair : {Pair(e) : e \in Edges}]
       \cup [op : {"term"}, term : Terms, id : Nodes]

\* No vector has the length 0, which stands for a vector_dim of None.
ASSUME DurableEngineAssumption ==
    /\ RotateAt \in Nat \ {0} /\ MaxTicks \in Nat
    /\ 0 \notin Dims
    /\ \A w \in Workloads : 
          w.calls \subseteq Requests /\ w.dreams \in BOOLEAN /\ w.maxWal \in Nat

VARIABLES
    mem,        \* engine, memory_store, graph, prime_tree, skg
    snapshot,   \* the snapshot file
    wal,        \* the log file: calls, and what is left of a torn append
    walSize,    \* wal_bytes, in entries: what the process thinks the log holds
    open,       \* "up", "down", or "refused" when the last open failed
    workload,   \* its caller
    acked,      \* registers whose last change was acknowledged (see Store)
    view        \* the registers in memory, and those a restart would give

vars == <<mem, snapshot, wal, walSize, open, workload, acked, view>>

\* Rows and records are functions on the ids that have one.
Empty ==
    [rows |-> <<>>, dim |-> 0, index |-> [t \in Tags |-> {}], records |-> <<>>,
     graph |-> NoGraph, tree |-> NoTree, skg |-> 0]

Put(f, x, v) == [y \in DOMAIN f \cup {x} |-> IF y = x THEN v ELSE f[y]]
Without(f, x) == Restrict(f, DOMAIN f \ {x})

-----------------------------------------------------------------------------
(* What a call does to memory                                               *)

\* validate_vector_dim: the first vector fixes the length.
Fits(m, row) == m.dim \in {0, row.dim}

\* Mutant: the index keeps the tag of the row that was replaced.
UpsertedOver(m, id, row) ==
    [m EXCEPT !.rows = Put(@, id, row), !.dim = row.dim, !.index[row.tag] = @ \cup {id}]

\* Engine::upsert
Upserted(m, id, row) ==
    [m EXCEPT !.rows = Put(@, id, row), !.dim = row.dim,
              !.index = [t \in Tags |-> IF t = row.tag THEN @[t] \cup {id} ELSE @[t] \ {id}]]

\* Engine::delete
Deleted(m, id) ==
    [m EXCEPT !.rows = Without(@, id), !.index = [t \in Tags |-> @[t] \ {id}]]

\* remove_memory, in memory
Forgotten(m, id) ==
    [Deleted(m, id) EXCEPT
        !.records = Without(@, id),
        !.graph = Removed(@, id),
        !.tree = WithoutMember(@, id)]

\* The effect of a call, and of its entry when the log is replayed
\* (apply_wal_entry).
Applied(m, c) ==
    CASE c.op = "upsert" -> Upserted(m, c.id, c.row)
      [] c.op = "delete" -> Deleted(m, c.id)
      [] c.op = "remember" -> [Upserted(m, c.id, c.row) EXCEPT !.records = Put(@, c.id, c.record)]
      [] c.op = "update" -> [m EXCEPT !.records = Put(@, c.id, c.record)]
      [] c.op = "remove" -> Forgotten(m, c.id)
      [] c.op = "connect" -> [m EXCEPT !.graph = Connected(@, c.edge)]
      [] c.op = "disconnect" -> [m EXCEPT !.graph = Disconnected(@, c.pair)]
      [] c.op = "term" -> [m EXCEPT !.tree = Inserted(@, c.term, c.id)]

\* Is the call refused before it changes anything?
Rejected(m, c) == c.op \in {"upsert", "remember"} /\ ~Fits(m, c.row)

-----------------------------------------------------------------------------
(* The two files                                                            *)

Torn == {"length", "payload"}

IsTorn(e) == e.op = "torn"

\* read_wal stops at the end of the file or inside a length, and fails
\* inside a payload.  A torn append is never cut off, so what is appended to
\* it is read at the wrong offset.
Status(w) ==
    LET torn == {i \in DOMAIN w : IsTorn(w[i])}
    IN  IF torn = {} THEN "whole"
        ELSE IF torn = {Len(w)} /\ w[Len(w)].part = "length" THEN "frayed"
        ELSE "broken"

\* What checkpoint writes, and load reads back: indexes are rebuilt, the
\* length of vectors is that of the rows.
Saved(m) ==
    [rows |-> m.rows, records |-> m.records, edges |-> m.graph.edges,
     tree |-> m.tree, skg |-> m.skg]

Loaded(s) ==
    [rows |-> s.rows,
     dim |-> IF DOMAIN s.rows = {} THEN 0 ELSE s.rows[CHOOSE id \in DOMAIN s.rows : TRUE].dim,
     index |-> [t \in Tags |-> {id \in DOMAIN s.rows : s.rows[id].tag = t}],
     records |-> s.records, graph |-> Rebuilt(s.edges), tree |-> s.tree, skg |-> s.skg]

\* apply_wal_entry on what the entries before it left: memory, and whether one
\* of them was refused (before is evaluated once).
Replayed(before, e) ==
    CHOOSE r \in {IF IsTorn(e) THEN p
                  ELSE IF Rejected(p.mem, e) THEN [p EXCEPT !.refused = TRUE]
                  ELSE [p EXCEPT !.mem = Applied(p.mem, e)]
                   : p \in {before}} : TRUE

\* load, for a log that can be read
Replay(s, w) ==
    LET after[i \in 0 .. Len(w)] ==
            IF i = 0 THEN [mem |-> Loaded(s), refused |-> FALSE]
            ELSE Replayed(after[i - 1], w[i])
    IN  after[Len(w)]

Recovered(s, w) == Replay(s, w).mem

\* Is some entry of the log refused when it is replayed?  Then open fails.
ReplayRejects(s, w) == Replay(s, w).refused

-----------------------------------------------------------------------------
(* The registers of Store                                                   *)

Calls == UNION {w.calls : w \in Workloads}

\* The registers a call names; remove_memory names those of a memory.
Named(c) ==
    CASE c.op \in {"upsert", "delete"} -> {<<"row", c.id>>}
      [] c.op = "remember" -> {<<"row", c.id>>, <<"record", c.id>>}
      [] c.op = "update" -> {<<"record", c.id>>}
      [] c.op = "remove" -> {<<"row", c.id>>, <<"record", c.id>>}
      [] c.op = "connect" -> {<<"edge", Pair(c.edge)>>}
      [] c.op = "disconnect" -> {<<"edge", c.pair>>}
      [] c.op = "term" -> {<<"term", <<c.term, c.id>>>>}

Keys == (UNION {Named(c) : c \in Calls}) \cup {<<"skg", 0>>}

IsAbout(k, id) ==
    \/ k[1] \in {"row", "record"} /\ k[2] = id
    \/ k[1] = "edge" /\ id \in k[2]
    \/ k[1] = "term" /\ k[2][2] = id

At(f, x) == IF x \in DOMAIN f THEN {f[x]} ELSE {}

Registers(m) ==
    [k \in Keys |->
        CASE k[1] = "row" -> At(m.rows, k[2])
          [] k[1] = "record" -> At(m.records, k[2])
          [] k[1] = "edge" -> {e \in m.graph.edges : Pair(e) = k[2]}
          [] k[1] = "term" -> SearchExact(m.tree, k[2][1]) \cap {k[2][2]}
          [] k[1] = "skg" -> {m.skg} \ {0}]

Volatile == {k \in Keys : k[1] \in {"record", "edge", "skg"}}

Written ==
    [c \in Calls |->
        IF c.op = "remove" THEN [k \in {x \in Keys : IsAbout(x, c.id)} |-> {}]
        ELSE IF c.op \in {"delete", "disconnect"} THEN [k \in Named(c) |-> {}]
        ELSE [k \in Named(c) |->
                CASE k[1] = "row" -> {c.row}
                  [] k[1] = "record" -> {c.record}
                  [] k[1] = "edge" -> {c.edge}
                  [] k[1] = "term" -> {c.id}]]

Changed ==
    CHOOSE S \in {{k \in Keys : after[k] # view.live[k]} : after \in {Registers(mem')}} : TRUE

-----------------------------------------------------------------------------

Init ==
    /\ mem = Empty
    /\ snapshot = Saved(Empty)
    /\ wal = <<>>
    /\ walSize = 0
    /\ open = "up"
    /\ workload \in Workloads
    /\ acked = Keys
    /\ view = [live |-> Registers(Empty), durable |-> Registers(Empty)]

\* Mutant: the log is emptied before the snapshot is in its place.
CheckpointedLogFirst(w, size) ==
    \/ snapshot' = Saved(mem') /\ wal' = <<>> /\ walSize' = 0 /\ acked' = Keys
    \/ snapshot' = snapshot /\ wal' = <<>> /\ walSize' = 0 /\ acked' = acked \ Changed

\* checkpoint at the end of a call that made the log w: the snapshot is
\* written beside the old one and renamed, then the log is emptied; either
\* may fail, and then the log stays and is counted on.
Checkpointed(w, size) ==
    \/ snapshot' = Saved(mem') /\ wal' = <<>> /\ walSize' = 0 /\ acked' = Keys
    \/ /\ snapshot' \in {snapshot, Saved(mem')}
       /\ wal' = w /\ walSize' = size /\ acked' = acked \ Changed

\* Mutant: the caller hears nothing of a failed append.
LoggedQuietly(c) ==
    /\ wal' \in {wal, Append(wal, c)}
    /\ walSize' = walSize + 1
    /\ acked' = acked \cup Changed
    /\ snapshot' = snapshot

\* append_wal and maybe_rotate, at the end of a call that changed memory.
Logged(c) ==
    \/ /\ walSize + 1 < RotateAt
       /\ wal' = Append(wal, c) /\ walSize' = walSize + 1
       /\ acked' = IF Status(wal) = "whole" THEN acked \cup Changed ELSE acked \ Changed
       /\ snapshot' = snapshot
    \/ /\ walSize + 1 >= RotateAt
       /\ Checkpointed(Append(wal, c), walSize + 1)
    \* nothing, or a part of the entry, was written; it is not counted
    \/ /\ wal' \in {wal} \cup {Append(wal, [op |-> "torn", part |-> p]) : p \in Torn}
       /\ acked' = acked \ Changed
       /\ UNCHANGED <<snapshot, walSize>>

\* upsert, remember, update_record, connect, disconnect, insert_term
Call(c) ==
    /\ c.op \notin {"delete", "remove"}
    /\ ~Rejected(mem, c)
    /\ mem' = Applied(mem, c)
    /\ Logged(c)
    /\ UNCHANGED <<open, workload>>

\* delete, remove_memory: only a call that deleted a row is logged.
CallIfDeleted(c) ==
    /\ c.op \in {"delete", "remove"}
    /\ mem' = Applied(mem, c)
    /\ IF c.id \in DOMAIN mem.rows THEN Logged(c)
       ELSE UNCHANGED <<snapshot, wal, walSize>> /\ acked' = acked \ Changed
    /\ UNCHANGED <<open, workload>>

\* checkpoint, called by itself
Checkpoint ==
    /\ mem' = mem
    /\ Checkpointed(wal, walSize)
    /\ UNCHANGED <<open, workload>>

\* memory_store_mut, graph_mut and skg_mut, as the dream uses them.
Dream ==
    /\ workload.dreams
    /\ \/ \E c \in workload.calls :
             /\ c.op \in {"update", "connect"}
             /\ c.op = "update" => c.id \in DOMAIN mem.records
             /\ mem' = Applied(mem, c)
       \/ mem.skg < MaxTicks /\ mem' = [mem EXCEPT !.skg = @ + 1]
    /\ acked' = acked \ Changed
    /\ UNCHANGED <<snapshot, wal, walSize, open, workload>>

\* The process ends; one that ends inside append_wal has torn it before.
Crash ==
    /\ open' = "down"
    /\ UNCHANGED <<mem, snapshot, wal, walSize, workload, acked>>

CanOpen == Status(wal) # "broken" /\ ~ReplayRejects(snapshot, wal)

\* open: the length of the log file is read with it, torn ends included.
Open ==
    /\ CanOpen
    /\ mem' = Recovered(snapshot, wal)
    /\ walSize' = Len(wal)
    /\ open' = "up"
    /\ acked' = Keys
    /\ UNCHANGED <<snapshot, wal, workload>>

\* open fails on a log that it cannot read, and repairs nothing.
OpenFails ==
    /\ ~CanOpen
    /\ open' = "refused"
    /\ UNCHANGED <<mem, snapshot, wal, walSize, workload, acked>>

Step ==
    \/ /\ open = "up"
       /\ \/ \E c \in workload.calls : Len(wal) < workload.maxWal /\ (Call(c) \/ CallIfDeleted(c))
          \/ Checkpoint
          \/ Dream
          \/ Crash
    \/ open # "up" /\ (Open \/ OpenFails)

Next ==
    /\ Step
    /\ \E m \in {Recovered(snapshot', wal')} :
          view' = [live |-> Registers(mem'), durable |-> Registers(m)]

Spec == Init /\ [][Next]_vars

-----------------------------------------------------------------------------

\* Memory has its shape, and the term tree is well formed.
TypeOK ==
    /\ DOMAIN mem.rows \subseteq Nodes /\ Range(mem.rows) \subseteq Rows
    /\ DOMAIN mem.records \subseteq Nodes /\ Range(mem.records) \subseteq Records
    /\ mem.graph.edges \subseteq Edges
    /\ walSize \in Nat /\ open \in {"up", "down", "refused"}
    /\ acked \subseteq Keys
    \* an id is in its bucket, and a bucket is never empty
    /\ \A t \in DOMAIN mem.tree : LET node == mem.tree[t] IN
          /\ \A id \in node.members : Bucket(id) \notin DOMAIN node.children
          /\ \A b \in DOMAIN node.children :
                node.children[b] # {} /\ \A id \in node.children[b] : Bucket(id) = b

\* The tag index says what the rows say, through replacements, deletions and
\* replays.
IndexMatchesRows ==
    \A t \in Tags : mem.index[t] = {id \in DOMAIN mem.rows : mem.rows[id].tag = t}

\* Every edge can be walked and cleaned up, whatever was connected again with
\* another kind, disconnected or removed before.
EveryEdgeIsVisible == EdgesAreIndexed(mem.graph)

\* A log that can be read is never refused on replay for the length of a
\* vector, also when half a checkpoint left it beside a newer snapshot.
RecoveryIsNeverRejected == ~ReplayRejects(snapshot, wal)

\* The engine keeps the promise of Store.
Promise ==
    INSTANCE Store WITH
        live <- view.live, durable <- view.durable,
        log <- Status(wal), up <- open

KeepsItsPromise == Promise!StoreSpec

\* A restart gives back what a call acknowledged, or it is refused, which it is
\* only when an append since the last checkpoint was cut short.  Then what was
\* acknowledged stays out of reach, for nothing repairs the log.  (append_wal,
\* checkpoint, read_wal.)
AcknowledgedSurvives == Promise!AcknowledgedSurvives

\* What is derived agrees with what it is derived from: the tag index with the
\* rows, the walk with the edges, the replay with the log, also with a log that
\* outgrew its limit because the checkpoints failed.
ViewsAgree ==
    /\ TypeOK
    /\ IndexMatchesRows
    /\ EveryEdgeIsVisible
    /\ RecoveryIsNeverRejected
=============================================================================
