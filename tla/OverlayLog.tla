----------------------------- MODULE OverlayLog -----------------------------
(***************************************************************************)
(* The append-only overlay of write intentions over the recovered base     *)
(* memory (ferricula-episode/src/overlay.rs): what append accepts, which   *)
(* events are effective, what the projection tells the union engine, and   *)
(* what survives a restart.                                                *)
(*                                                                         *)
(* An event id commits to the whole chain before it (a hash), so an event  *)
(* is identified here by its position; the id, the parent id and the       *)
(* sequence number are that position.  Texts, tags, relations, notes and   *)
(* the three reinforcement kinds are left out: only their shape is         *)
(* validated.  A base memory is a member of Bases, a proposed one the      *)
(* position of its proposal.                                               *)
(***************************************************************************)
EXTENDS Integers, Sequences, FiniteSets

CONSTANTS
    Bases,       \* ids of records of the recovered base
    MaxEvents,   \* config.max_events
    MaxMembers,  \* config.max_dream_members
    MaxTime,     \* a bound on the caller's clock, for TLC
    Requests     \* the payloads callers ask to append

EventIds == 1..MaxEvents
Memories == Bases \cup EventIds

LifecycleStates == {"Active", "Forgiven", "Archived", "Pruned"}

\* transition_class, one set of edges per class.
ForwardMoves    == {<<"Active", "Forgiven">>, <<"Forgiven", "Archived">>}
Restore         == {<<"Forgiven", "Active">>}
Promotion       == {<<"Archived", "Active">>}
Destructive     == {"Active", "Forgiven", "Archived"} \X {"Pruned"}

Proposals       == [kind : {"propose"}, keystone : BOOLEAN]
Touches         == [kind : {"reinforce"}, target : Memories]
Transitions     ==
    {t \in [kind : {"lifecycle"}, target : Memories,
            from : LifecycleStates, to : LifecycleStates] :
        <<t.from, t.to>> \in ForwardMoves \cup Restore \cup Promotion \cup Destructive}
GraphEdges      ==
    {e \in [kind : {"edge"}, from : Memories, to : Memories, action : {"add", "remove"}] :
        e.from # e.to}
DreamCandidates ==
    [kind : {"dream"}, members : {m \in SUBSET Memories : Cardinality(m) \in 2..MaxMembers}]
Notes           == [kind : {"note"}]
Approvals       == [kind : {"approval"}, target : EventIds, decision : {"approved", "rejected"}]

\* The payloads validate_bounds lets through.
Payloads ==
    Proposals \cup Touches \cup Transitions \cup GraphEdges \cup DreamCandidates \cup Notes \cup Approvals

Events == [payload : Payloads, at : Nat]

ASSUME OverlayAssumption ==
    /\ MaxEvents \in Nat \ {0}
    /\ MaxMembers \in Nat
    /\ MaxTime \in Nat
    /\ Bases \cap Nat = {}
    /\ Requests \subseteq Payloads

RequiresApproval(p) ==
    \/ p.kind = "propose" /\ p.keystone
    \/ p.kind = "lifecycle" /\ <<p.from, p.to>> \in Destructive \cup Promotion
    \/ p.kind = "edge" /\ p.action = "remove"
    \/ p.kind = "dream"

-----------------------------------------------------------------------------
(* Approval folding over a log l                                           *)

Decides(l, a, i) == l[a].payload.kind = "approval" /\ l[a].payload.target = i

Decided(l, i) == \E a \in DOMAIN l : Decides(l, a, i)

\* decision_for: the first decision in the chain.
DecisionIs(l, i, d) ==
    \E a \in DOMAIN l :
        /\ Decides(l, a, i)
        /\ l[a].payload.decision = d
        /\ \A b \in DOMAIN l : Decides(l, b, i) => a <= b

Effective(l, i) ==
    ~RequiresApproval(l[i].payload) \/ DecisionIs(l, i, "approved")

Pending(l, i) ==
    RequiresApproval(l[i].payload) /\ ~Decided(l, i)

-----------------------------------------------------------------------------
(* What the overlay says of one memory and of one edge                     *)

LifecycleOf(l, m) ==
    {i \in DOMAIN l : l[i].payload.kind = "lifecycle" /\ l[i].payload.target = m}

EdgeEvents(l, e) ==
    {i \in DOMAIN l : /\ l[i].payload.kind = "edge"
                      /\ <<l[i].payload.from, l[i].payload.to>> = e}

LatestOf(S, i) == i \in S /\ \A j \in S : j <= i

\* effective_lifecycle(m) = Some(s)
LifecycleIs(l, m, s) ==
    \E i \in DOMAIN l :
        /\ LatestOf({j \in LifecycleOf(l, m) : Effective(l, j)}, i)
        /\ l[i].payload.to = s

\* edge_state(e) = Some(a)
EdgeIs(l, e, a) ==
    \E i \in DOMAIN l :
        /\ LatestOf({j \in EdgeEvents(l, e) : Effective(l, j)}, i)
        /\ l[i].payload.action = a

\* Mutant: a proposal that still awaits its approval counts.
LiveOncePending(l, m) ==
    /\ m \in EventIds => m \in DOMAIN l /\ l[m].payload.kind = "propose"
    /\ ~LifecycleIs(l, m, "Pruned")

\* require_live_target
Live(l, m) ==
    /\ m \in EventIds =>
        /\ m \in DOMAIN l
        /\ l[m].payload.kind = "propose"
        /\ Effective(l, m)
    /\ ~LifecycleIs(l, m, "Pruned")

-----------------------------------------------------------------------------
(* validate_payload, one operator per payload                              *)

TouchAllowed(l, p) == Live(l, p.target)

TransitionAllowedWhilePending(l, p) ==
    /\ Live(l, p.target)
    /\ \A s \in LifecycleStates : LifecycleIs(l, p.target, s) => s = p.from

TransitionAllowed(l, p) ==
    /\ Live(l, p.target)
    /\ \A i \in LifecycleOf(l, p.target) : ~Pending(l, i)
    /\ \A s \in LifecycleStates : LifecycleIs(l, p.target, s) => s = p.from

EdgeAllowed(l, p) ==
    LET e == <<p.from, p.to>>
    IN  /\ Live(l, p.from) /\ Live(l, p.to)
        /\ ~EdgeIs(l, e, p.action)
        /\ p.action = "remove" => \A i \in EdgeEvents(l, e) : ~Pending(l, i)

DreamAllowed(l, p) == \A m \in p.members : Live(l, m)

\* Mutant: a decided event can be decided again.
ApprovalAllowedTwice(l, p) ==
    /\ p.target \in DOMAIN l
    /\ RequiresApproval(l[p.target].payload)

ApprovalAllowed(l, p) ==
    /\ p.target \in DOMAIN l
    /\ RequiresApproval(l[p.target].payload)
    /\ ~Decided(l, p.target)

Allowed(l, p) ==
    \/ p \in Proposals \cup Notes
    \/ p \in Touches /\ TouchAllowed(l, p)
    \/ p \in Transitions /\ TransitionAllowed(l, p)
    \/ p \in GraphEdges /\ EdgeAllowed(l, p)
    \/ p \in DreamCandidates /\ DreamAllowed(l, p)
    \/ p \in Approvals /\ ApprovalAllowed(l, p)

-----------------------------------------------------------------------------
(* verify: the audit load and save run over the whole chain                *)

Verifies(l) ==
    /\ Len(l) <= MaxEvents
    /\ \A i, j \in DOMAIN l : i < j => l[i].at <= l[j].at
    /\ \A a \in DOMAIN l : l[a].payload.kind = "approval" =>
        /\ l[a].payload.target \in 1..(a - 1)
        /\ RequiresApproval(l[l[a].payload.target].payload)
        /\ \A b \in DOMAIN l : Decides(l, b, l[a].payload.target) => b = a

-----------------------------------------------------------------------------

VARIABLES
    events,  \* OverlayLog::events, in memory
    disk     \* the events of the saved document; <<>> before the first save

overlayVars == <<events, disk>>

OverlayInit == events = <<>> /\ disk = <<>>

\* append, at the caller's clock reading.
AppendEvent(p, now) ==
    /\ Len(events) < MaxEvents
    /\ events # <<>> => events[Len(events)].at <= now
    /\ Allowed(events, p)
    /\ events' = Append(events, [payload |-> p, at |-> now])
    /\ UNCHANGED disk

\* save: verify, write a sibling file, rename it over the document.  A save
\* that fails at any of these changes neither the log nor the document.
Save ==
    /\ Verifies(events)
    /\ disk' = events
    /\ UNCHANGED events

\* Mutant: a restart always starts an empty log.
RestartEmpty == events' = <<>> /\ UNCHANGED disk

\* A restart loads the document, or starts an empty log when there is none.
OverlayRestart ==
    /\ Verifies(disk)
    /\ events' = disk
    /\ UNCHANGED disk

OverlayNext ==
    \/ \E p \in Requests, now \in 0..MaxTime : AppendEvent(p, now)
    \/ Save
    \/ OverlayRestart

OverlaySpec == OverlayInit /\ [][OverlayNext]_overlayVars

-----------------------------------------------------------------------------
(* Properties                                                              *)

(* The in-memory log and the saved document are chains of valid events, no *)
(* longer than the configured cap.                                         *)
OverlayTypeOK ==
    /\ events \in Seq(Events) /\ Len(events) <= MaxEvents
    /\ disk \in Seq(Events) /\ Len(disk) <= MaxEvents

(* append checks each event against the log as it stands, verify audits    *)
(* the whole chain, and save and load refuse a chain that fails the audit. *)
(* Whatever append accepted passes: no accepted event can make a log that  *)
(* can no longer be saved, or a document that can no longer be loaded.     *)
EveryLogVerifies == Verifies(events) /\ Verifies(disk)

(* The effective lifecycle events of a memory, in chain order, form a path *)
(* of the lifecycle graph: each starts where the one before it ended, even *)
(* though a gated transition takes effect at its old place in the chain    *)
(* when its approval arrives, possibly many events later.                  *)
PathOf(l, S) ==
    \A i, j \in S :
        (i < j /\ ~\E k \in S : i < k /\ k < j) => l[i].payload.to = l[j].payload.from

LifecycleIsAPath ==
    \A m \in Memories :
        PathOf(events, {i \in LifecycleOf(events, m) : Effective(events, i)})

(* projection() reports tombstones as a set that only grows in the fold    *)
(* and lifecycle overrides as the last state.  The two views agree: a      *)
(* memory is tombstoned exactly when its last effective state is Pruned,   *)
(* so nothing comes back after an approved prune.                          *)
Tombstones(l) ==
    {m \in Memories : \E i \in LifecycleOf(l, m) : Effective(l, i) /\ l[i].payload.to = "Pruned"}

TombstonesAreTheDead ==
    Tombstones(events) = {m \in Memories : LifecycleIs(events, m, "Pruned")}

(* Additions and removals of one edge alternate among the effective        *)
(* events, whatever the order in which gated removals are decided, so the  *)
(* overlay never counts one edge as added twice or removed twice.          *)
Alternates(l, S) ==
    \A i, j \in S :
        (i < j /\ ~\E k \in S : i < k /\ k < j) => l[i].payload.action # l[j].payload.action

EdgeActionsAlternate ==
    \A m, n \in Memories :
        Alternates(events, {i \in EdgeEvents(events, <<m, n>>) : Effective(events, i)})

(* A keystone proposal that is pending or was rejected has never been the  *)
(* subject of another event: no reinforcement, transition, edge or dream   *)
(* names a memory that does not exist for the union engine.                *)
Mentioned(p) ==
    CASE p.kind \in {"reinforce", "lifecycle"} -> {p.target}
      [] p.kind = "edge" -> {p.from, p.to}
      [] p.kind = "dream" -> p.members
      [] OTHER -> {}

OnlyEffectiveMemoriesAreUsed ==
    \A i \in DOMAIN events : \A m \in Mentioned(events[i].payload) \ Bases :
        m < i /\ events[m].payload.kind = "propose" /\ Effective(events, m)

(* A save extends the saved chain and never replaces any of it, across     *)
(* restarts that lose unsaved events and saves that failed in between.     *)
SavedHistoryOnlyGrows ==
    [][/\ Len(disk) <= Len(disk')
       /\ \A i \in DOMAIN disk : disk'[i] = disk[i]]_disk

\* The effective history of every memory and every edge joins up, whatever was
\* approved late, rejected or written after a restart.
HistoriesJoinUp ==
    /\ OverlayTypeOK
    /\ LifecycleIsAPath
    /\ TombstonesAreTheDead
    /\ EdgeActionsAlternate
=============================================================================
