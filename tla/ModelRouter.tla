----------------------------- MODULE ModelRouter -----------------------------
(***************************************************************************)
(* The model router and its ledger (ferricula-server model.rs), as the     *)
(* threads of the server use them: complete_with_budget walks the steps of *)
(* a route, asks one provider after the other, records what an answer cost *)
(* and the caller writes the ledger to its file.                           *)
(*                                                                         *)
(* No lock is held over a call: each look at the ledger is an action of    *)
(* its own, and so are the provider's answer, the record and the file.     *)
(* Money is counted in units; what the texts of requests and answers say   *)
(* is left out.                                                            *)
(***************************************************************************)
EXTENDS Naturals, Sequences, FiniteSets, FiniteSetsExt

CONSTANTS
    Threads,       \* threads that call models
    Route,         \* profiles of a route, in order, up to its no-model fallback
    Free,          \* profiles that run here and cost nothing
    Estimate,      \* what a paid call is expected to cost
    Costs,         \* what it may turn out to cost
    StepCap,       \* daily_budget_usd of a route step
    DayCap,        \* max_model_usd_per_day
    CallCap,       \* max_usd of a sleep proposal
    LastDay        \* bound on the days

\* ModelRoutingConfig::validate: no price and no budget is negative; the
\* fallback without a model that ends every route is the end of Route.
ValidRouting ==
    /\ Len(Route) \in Nat /\ DOMAIN Route = 1 .. Len(Route)
    /\ Free \subseteq {Route[i] : i \in DOMAIN Route}
    /\ Estimate \in Nat \ {0} /\ Costs \subseteq Nat /\ Costs # {} /\ IsFiniteSet(Costs)
    /\ StepCap \in Nat /\ DayCap \in Nat /\ CallCap \in Nat /\ LastDay \in Nat \ {0}

ASSUME ModelRouterAssumption == ValidRouting /\ IsFiniteSet(Threads) /\ "chat" \in Threads

VARIABLES
    today,
    ledger,        \* entries, oldest first
    usage_file,    \* model-usage.json
    calls          \* thread -> its call

router_vars == <<today, ledger, usage_file, calls>>

\* Nobody calls: what the last call came to, and its entry in the ledger.
NoCall == [pc |-> "none", step |-> 0, day |-> 0, cap |-> 0, local |-> FALSE, result |-> "none", at |-> 0]

InCall(t, pc) == calls[t].pc = pc
Set(t, r) == calls' = [calls EXCEPT ![t] = r]
GoTo(t, pc) == Set(t, [calls[t] EXCEPT !.pc = pc])

Asked(t) == Route[calls[t].step]

-----------------------------------------------------------------------------
(* The ledger                                                               *)

\* The sum over the entries of l at the places S.
CostOf(l, S) ==
    LET sum[i \in 0 .. Len(l)] ==
            IF i = 0 THEN 0 ELSE sum[i - 1] + (IF i \in S THEN l[i].cost ELSE 0)
    IN  sum[Len(l)]

Entries(d) == {i \in DOMAIN ledger : ledger[i].day = d}
SpentBy(p, d) == CostOf(ledger, {i \in Entries(d) : ledger[i].profile = p})
Total(d) == CostOf(ledger, Entries(d))

\* has_unreported_usage_today
Unreported(p, d) == \E i \in Entries(d) : ledger[i].profile = p /\ ledger[i].estimated

Expected(p) == IF p \in Free THEN 0 ELSE Estimate

-----------------------------------------------------------------------------
(* complete_with_budget                                                     *)

\* A thread begins a call under a cap of its own; a chat may ask only what
\* runs here.
Begin(t, cap, local) ==
    /\ InCall(t, "none")
    /\ Set(t, [NoCall EXCEPT !.pc = "select", !.step = 1, !.day = today, !.cap = cap, !.local = local])
    /\ UNCHANGED <<today, ledger, usage_file>>

\* filter_step: the profile is skipped for what it lacks, for usage it did
\* not report today, or for its own budget.
Filtered(t, p) ==
    \/ calls[t].local /\ p \notin Free
    \/ p \notin Free /\ Unreported(p, calls[t].day)
    \/ p \notin Free /\ SpentBy(p, calls[t].day) + Expected(p) > StepCap

Skip(t) == Set(t, [calls[t] EXCEPT !.pc = "select", !.step = @ + 1])

\* select_from, for one step; after the last one there is no model, which is
\* an answer of its own and is recorded.
Select(t) ==
    /\ InCall(t, "select")
    /\ IF calls[t].step > Len(Route)
       THEN /\ ledger' = Append(ledger, [profile |-> "no_model", day |-> calls[t].day, cost |-> 0, estimated |-> FALSE])
            /\ Set(t, [calls[t] EXCEPT !.pc = "recorded", !.result = "no model", !.at = Len(ledger')])
       ELSE /\ IF Filtered(t, Asked(t)) THEN Skip(t) ELSE GoTo(t, "selected")
            /\ UNCHANGED ledger
    /\ UNCHANGED <<today, usage_file>>

WithinCap(t) == Total(calls[t].day) + Expected(Asked(t)) <= calls[t].cap

\* The look at the cap of the day.
CheckCap(t) ==
    /\ InCall(t, "selected")
    /\ IF WithinCap(t) THEN GoTo(t, "asking") ELSE Skip(t)
    /\ UNCHANGED <<today, ledger, usage_file>>

\* An entry of the ledger: running here costs nothing.
UsageEntry(p, day, cost, estimated) ==
    [profile |-> p, day |-> day, cost |-> IF p \in Free THEN 0 ELSE cost, estimated |-> estimated]

\* The provider answers, and reports its usage or does not.
Answers(t) ==
    /\ InCall(t, "asking")
    /\ \E e \in {UsageEntry(Asked(t), calls[t].day, cost, FALSE) : cost \in Costs}
                \cup {UsageEntry(Asked(t), calls[t].day, Estimate, TRUE)} : ledger' = Append(ledger, e)
    /\ Set(t, [calls[t] EXCEPT !.pc = "recorded", !.result = "answer", !.at = Len(ledger')])
    /\ UNCHANGED <<today, usage_file>>

\* It fails: the next step is tried, after the last profile the fallback
\* without a model, which every route has.
Fails(t) ==
    /\ InCall(t, "asking")
    /\ Skip(t)
    /\ UNCHANGED <<today, ledger, usage_file>>

\* Mutant: the entries are taken from the ledger before the lock of the file
\* is held.
PersistStale(t) ==
    /\ InCall(t, "recorded")
    /\ usage_file' = SubSeq(ledger, 1, calls[t].at)
    /\ GoTo(t, "done")
    /\ UNCHANGED <<today, ledger>>

\* persist_model_usage: the whole ledger, under the lock of its file.
Persist(t) ==
    /\ InCall(t, "recorded")
    /\ usage_file' = ledger
    /\ GoTo(t, "done")
    /\ UNCHANGED <<today, ledger>>

\* The write fails, and the call with it.
PersistFails(t) ==
    /\ InCall(t, "recorded")
    /\ Set(t, [calls[t] EXCEPT !.pc = "done", !.result = "error", !.at = 0])
    /\ UNCHANGED <<today, ledger, usage_file>>

\* The caller takes the result.
Return(t) ==
    /\ InCall(t, "done")
    /\ Set(t, NoCall)

-----------------------------------------------------------------------------

RouterInit ==
    /\ today = 1
    /\ ledger = <<>> /\ usage_file = <<>>
    /\ calls = [t \in Threads |-> NoCall]

\* SteveRuntime::open: the ledger is what its file says.
RouterRestarts ==
    /\ ledger' = usage_file
    /\ calls' = [t \in Threads |-> NoCall]
    /\ UNCHANGED <<today, usage_file>>

MidnightPasses ==
    /\ today < LastDay
    /\ today' = today + 1
    /\ UNCHANGED <<ledger, usage_file, calls>>

CallStep(t) == Select(t) \/ CheckCap(t) \/ Answers(t) \/ Fails(t) \/ Persist(t)

-----------------------------------------------------------------------------

\* Types, and: what a chat says is sent to no provider elsewhere.
RouterTypeOK ==
    /\ today \in 1 .. LastDay
    /\ \A t \in Threads :
          /\ calls[t].step \in 0 .. Len(Route) + 1 /\ calls[t].at \in 0 .. Len(ledger)
          /\ calls[t].pc \in {"none", "select", "selected", "asking", "recorded", "done"}
          /\ InCall(t, "asking") /\ calls[t].local => Asked(t) \in Free
    /\ \A i \in DOMAIN ledger : ledger[i].day <= today

\* Threads that found room under the cap at the same time exceed it by what
\* their calls cost, and by no more: what a day costs is bounded.
DayIsBounded ==
    \A d \in 1 .. LastDay : Total(d) + Estimate <= DayCap + Cardinality(Threads) * Max(Costs \cup {Estimate})

\* A profile that answers without its usage is asked again on that day only
\* by calls that were already under way.
UnreportedStops ==
    \A d \in 1 .. LastDay, p \in {Route[i] : i \in DOMAIN Route} \ Free :
        Cardinality({i \in Entries(d) : ledger[i].profile = p /\ ledger[i].estimated}) <= Cardinality(Threads)

\* What a caller was told to be recorded stays in the file, whichever of two
\* callers writes last, and the file never says what the ledger does not.
UsageIsKept ==
    /\ usage_file = SubSeq(ledger, 1, Len(usage_file))
    /\ \A t \in Threads : InCall(t, "done") => calls[t].at <= Len(usage_file)

\* The ledger that two threads share bounds what a day costs and keeps what a
\* caller was told it keeps.
LedgerIsBounded ==
    /\ RouterTypeOK
    /\ DayIsBounded
    /\ UnreportedStops
    /\ UsageIsKept
=============================================================================
