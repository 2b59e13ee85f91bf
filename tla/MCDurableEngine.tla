--------------------------- MODULE MCDurableEngine ---------------------------
(***************************************************************************)
(* DurableEngine for TLC.  Four kinds of caller, each with few calls: rows *)
(* of two lengths, memories with their records, the graph of two memories, *)
(* and a term with enough members to split its root and miss a bucket.     *)
(* The first goes on with a log whose checkpoints failed.                  *)
(***************************************************************************)
EXTENDS DurableEngine

MCRow(t, d) == [tag |-> t, dim |-> d]

MCWorkloads ==
    LET upsert(id, row) == [op |-> "upsert", id |-> id, row |-> row]
        remember(id, r) == [op |-> "remember", id |-> id, row |-> MCRow("x", 3), record |-> r]
        connect(f, t, k) == [op |-> "connect", edge |-> [from |-> f, to |-> t, kind |-> k]]
        remove(id) == [op |-> "remove", id |-> id]
        caller(dreams, longest, calls) == [calls |-> calls, dreams |-> dreams, maxWal |-> longest]
    IN  {caller(FALSE, 3, {upsert(1, MCRow(t, 3)) : t \in Tags}
                          \cup {upsert(2, MCRow("x", d)) : d \in Dims}
                          \cup {[op |-> "delete", id |-> id] : id \in {1, 2}}),
         caller(TRUE, 2, {remember(1, "new"), remove(1),
                       [op |-> "update", id |-> 1, record |-> "worn"],
                       connect(1, 2, "Semantic")}),
         caller(FALSE, 2, {connect(1, 2, "Semantic"), connect(1, 2, "Causal"), connect(2, 1, "Causal")}
                          \cup {[op |-> "disconnect", pair |-> {1, 2}], remember(1, "new"), remove(1)}),
         caller(FALSE, 2, {[op |-> "term", term |-> "t", id |-> id] : id \in Nodes}
                          \cup {remember(1, "new"), remove(1)})}
=============================================================================
