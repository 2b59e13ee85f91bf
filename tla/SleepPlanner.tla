----------------------------- MODULE SleepPlanner -----------------------------
(***************************************************************************)
(* The planner of sleep cognition (ferricula-server sleep_cycle.rs) as the *)
(* runtime uses it (runtime.rs): a wake in sleep plans kinds of work under *)
(* the policy and the ledger of cooldowns, what is planned becomes a task, *)
(* and the ledger is noted when the task starts.  Ledger and tasks are in  *)
(* one state file; a write that fails is passed over, and a restart reads  *)
(* the file as it was last written.  The clock may be set back.            *)
(*                                                                         *)
(* Time is counted in units of Day \div Day; a negative usd stands for one *)
(* that is negative or not finite.  The spacing of cycles and the merge of *)
(* two ledgers are called by tests only and are left out.  Finished tasks  *)
(* are all retained: the 200 the code keeps are never reached here.        *)
(***************************************************************************)
EXTENDS Naturals, Integers, Sequences, FiniteSets

CONSTANTS
    Kinds,              \* ProposalKind::ALL, in priority order
    Policies,           \* the policies a configuration may hold
    Day, MinSpacing, MinCooldown,       \* 86400, 60 and 300 seconds
    MaxCalls, MaxUsd, PlannerTokens, MaxExcerpt,
    MaxPlanned,         \* 16, the ceiling of max_proposals_per_cycle
    LastTime, Setbacks, \* bounds: the clock stops here, and goes back so often
    Mishaps             \* bound: failed writes and restarts together

VARIABLES
    sleeper,            \* [policy, ledger, tasks, working]: the runtime in memory
    file,               \* [ledger, tasks] as last written
    clock,
    ran,                \* history: when each kind really started last
    forgotten,          \* history: kinds whose last start a restart did not find
    spent               \* [setbacks, mishaps] so far

sleepVars == <<sleeper, file, clock, ran, forgotten, spent>>

KindSet == {Kinds[i] : i \in DOMAIN Kinds}
Never == -1

Lesser(a, b) == IF a < b THEN a ELSE b
Greater(a, b) == IF a > b THEN a ELSE b

-----------------------------------------------------------------------------
\* PrivacyEnvelope::hardened
HardenedPrivacy(p) ==
    LET share == p.share /\ p.redact
    IN  [share |-> share, redact |-> TRUE, excerpt |-> Greater(1, Lesser(p.excerpt, MaxExcerpt))]

\* ProposalBudget::hardened: no calls, no money and no tokens go together.
HardenedBudget(b) ==
    LET usd == IF b.usd < 0 THEN 0 ELSE Lesser(b.usd, MaxUsd)
        calls == IF usd = 0 THEN 0 ELSE Lesser(b.calls, MaxCalls)
    IN  IF calls = 0 THEN [calls |-> 0, tokens |-> 0, usd |-> 0]
        ELSE [calls |-> calls, tokens |-> Greater(1, Lesser(b.tokens, PlannerTokens)), usd |-> usd]

Base(policy) == Greater(Day \div Greater(policy.perDay, 1), MinSpacing)
Cooldown(policy, kind) == Greater(policy.cooldown[kind], MinCooldown)

Valid(policy) ==
    /\ policy.perDay \in 1..24
    /\ policy.jitter <= Base(policy) \div 2
    /\ policy.cap \in 1..MaxPlanned
    /\ policy.ttl \in MinSpacing..Base(policy)
    /\ \A kind \in KindSet : policy.cooldown[kind] >= MinCooldown
    /\ policy.budget.usd \in 0..MaxUsd
    /\ policy.budget.calls <= MaxCalls
    /\ policy.budget.tokens <= PlannerTokens
    /\ policy.budget.calls > 0 => policy.budget.tokens > 0
    /\ policy.privacy.excerpt \in 1..MaxExcerpt
    /\ policy.privacy.share => policy.privacy.redact

-----------------------------------------------------------------------------
\* CooldownLedger
Ready(ledger, policy, kind, now) ==
    ledger[kind] = Never \/ (now >= ledger[kind] /\ now - ledger[kind] >= Cooldown(policy, kind))

\* A time that is earlier than the last changes nothing.
Noted(ledger, kind, now) == [ledger EXCEPT ![kind] = Greater(@, now)]

\* plan_cycle_gated at a wake in sleep, where its gate is open: nothing under a
\* policy that is off or does not validate, else the ready kinds up to the cap.
Proposable(policy, ledger, now) ==
    IF ~policy.on \/ ~Valid(policy) THEN <<>>
    ELSE LET ready == SelectSeq(Kinds, LAMBDA kind : Ready(ledger, policy, kind, now))
         IN  SubSeq(ready, 1, Lesser(policy.cap, Len(ready)))

\* The identity of a proposal is its kind and when its cycle began.
Proposal(policy, kind, now) ==
    [kind |-> kind, at |-> now, expires |-> now + Greater(policy.ttl, MinSpacing),
     budget |-> HardenedBudget(policy.budget), privacy |-> HardenedPrivacy(policy.privacy),
     private |-> HardenedPrivacy(policy.privacy).share, status |-> "queued"]

IsLive(task) == task.status \in {"queued", "running"}

\* enqueue_sleep_proposals: not what was planned before, and nothing beside a
\* task of its kind that is queued or running.
IsNew(tasks, p) ==
    \A i \in DOMAIN tasks :
        /\ <<tasks[i].kind, tasks[i].at>> # <<p.kind, p.at>>
        /\ IsLive(tasks[i]) => tasks[i].kind # p.kind

-----------------------------------------------------------------------------
\* persist_locked: one file holds ledger and tasks.  A write may fail, and the
\* runtime goes on from memory.
Persisted ==
    \/ file' = [ledger |-> sleeper'.ledger, tasks |-> sleeper'.tasks] /\ UNCHANGED spent
    \/ spent.mishaps < Mishaps /\ spent' = [spent EXCEPT !.mishaps = @ + 1] /\ UNCHANGED file

\* pre_execute_hooks at a wake while the runtime is asleep.
PlanCycle ==
    /\ LET kinds == Proposable(sleeper.policy, sleeper.ledger, clock)
           planned == [i \in DOMAIN kinds |-> Proposal(sleeper.policy, kinds[i], clock)]
       IN  sleeper' = [sleeper EXCEPT !.tasks = @ \o SelectSeq(planned, LAMBDA p : IsNew(sleeper.tasks, p))]
    /\ Persisted
    /\ UNCHANGED <<clock, ran, forgotten>>

\* claim_queued_task: what has expired is cancelled up to the first task that
\* has not, which starts and is noted.
Claim ==
    LET tasks == sleeper.tasks
        queued == {i \in DOMAIN tasks : tasks[i].status = "queued"}
        alive == {i \in queued : clock < tasks[i].expires}
        chosen == {i \in alive : \A j \in alive : i <= j}
        lapsed == {i \in queued \ alive : \A j \in chosen : i < j}
        starts == {tasks[i].kind : i \in chosen}
    IN  /\ sleeper.working = 0
        /\ chosen \union lapsed # {}
        /\ sleeper' = [sleeper EXCEPT
                !.tasks = [i \in DOMAIN tasks |->
                    [tasks[i] EXCEPT !.status =
                        IF i \in chosen THEN "running" ELSE IF i \in lapsed THEN "finished" ELSE @]],
                !.ledger = IF starts = {} THEN @ ELSE Noted(@, CHOOSE kind \in starts : TRUE, clock),
                !.working = IF chosen = {} THEN 0 ELSE CHOOSE i \in chosen : TRUE]
        /\ ran' = [kind \in KindSet |-> IF kind \in starts THEN Greater(ran[kind], clock) ELSE ran[kind]]
        /\ forgotten' = forgotten \ {kind \in starts : clock >= ran[kind]}
        /\ Persisted
        /\ UNCHANGED clock

\* finish
TaskEnds ==
    /\ sleeper.working # 0
    /\ sleeper' = [sleeper EXCEPT !.tasks[sleeper.working].status = "finished", !.working = 0]
    /\ Persisted
    /\ UNCHANGED <<clock, ran, forgotten>>

\* Any other operation of the runtime that writes its state.
Save ==
    /\ file' = [ledger |-> sleeper.ledger, tasks |-> sleeper.tasks]
    /\ UNCHANGED <<sleeper, clock, ran, forgotten, spent>>

\* open: the file as it is, with tasks that were queued when it was written, and
\* with one marked running that no worker runs.
Restart ==
    /\ spent.mishaps < Mishaps
    /\ spent' = [spent EXCEPT !.mishaps = @ + 1]
    /\ sleeper' = [sleeper EXCEPT !.ledger = file.ledger, !.tasks = file.tasks, !.working = 0]
    /\ forgotten' = forgotten \union {kind \in KindSet : file.ledger[kind] # sleeper.ledger[kind]}
    /\ UNCHANGED <<file, clock, ran>>

ClockMoves ==
    /\ \/ clock < LastTime /\ clock' = clock + 1 /\ UNCHANGED spent
       \/ /\ clock > 0 /\ spent.setbacks < Setbacks
          /\ clock' = clock - 1
          /\ spent' = [spent EXCEPT !.setbacks = @ + 1]
    /\ UNCHANGED <<sleeper, file, ran, forgotten>>

SleepInit ==
    /\ clock = 0
    /\ \E policy \in Policies :
        sleeper = [policy |-> policy, ledger |-> [k \in KindSet |-> Never], tasks |-> <<>>, working |-> 0]
    /\ file = [ledger |-> [k \in KindSet |-> Never], tasks |-> <<>>]
    /\ ran = [k \in KindSet |-> Never] /\ forgotten = {}
    /\ spent = [setbacks |-> 0, mishaps |-> 0]

SleepNext == PlanCycle \/ Claim \/ TaskEnds \/ Save \/ Restart \/ ClockMoves

-----------------------------------------------------------------------------
\* Invariant 5 of the module, "Restart-safe ledger": no kind is planned within
\* its cooldown of the last time it really started, though the clock was set
\* back in between, writes failed and the runtime restarted.  Excepted is a kind
\* whose last start no file recorded before a restart: claim_next passes over a
\* write that fails, and the restart has neither the note nor the start.
CooldownsHold ==
    [][\A i \in DOMAIN sleeper'.tasks \ DOMAIN sleeper.tasks :
        LET kind == sleeper'.tasks[i].kind
        IN  kind \in forgotten \/ ran[kind] = Never \/ clock - ran[kind] >= Cooldown(sleeper.policy, kind)]_sleepVars

\* What a task ships is safe on its own: excerpts are redacted, sharing demands
\* the capability, and a budget either has calls, tokens and money or none of
\* them.  Hardening a hardened envelope or budget changes nothing.
ProposalsAreHardened ==
    \A i \in DOMAIN sleeper.tasks :
        LET p == sleeper.tasks[i]
        IN  /\ p.privacy.redact /\ p.private = p.privacy.share
            /\ p.budget = HardenedBudget(p.budget) /\ p.privacy = HardenedPrivacy(p.privacy)
            /\ (p.budget.calls = 0) = (p.budget.usd = 0)
            /\ (p.budget.calls = 0) = (p.budget.tokens = 0)
=============================================================================
