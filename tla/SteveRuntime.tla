----------------------------- MODULE SteveRuntime -----------------------------
(***************************************************************************)
(* The runtime of ferricula-server (runtime.rs): one worker, one scheduler  *)
(* and the operator's HTTP calls, sharing one durable state behind a mutex. *)
(* A step is one holding of the mutex, one suspension point (notified(),    *)
(* a model call, a read of the feed), or a check made without the mutex.    *)
(*                                                                         *)
(* Instants are kept relative to the present: an instant still to come is   *)
(* the seconds until it, a past one minus the seconds since, both clamped   *)
(* where nothing tells older from old.  The machine is therefore always     *)
(* read at instant 0.  Its lastChat stays NoTime because no trigger the      *)
(* runtime applies reads it, and MaxLeaseId = 1 forgets which lease is which *)
(* since the runtime never compares ids.                                    *)
(***************************************************************************)
EXTENDS AutonomyMachine, SequencesExt

CONSTANTS Mentions,         \* payloads of direct mentions, each posted once
          NoMention,
          SleepKinds,       \* kinds of sleep proposal, in planning order
          Workloads,        \* what a run may do, see WorkloadOK
          InitialMode,      \* config.initial_mode
          Spacing,          \* seconds between scheduled wakes, jitter included
          Cooldown,         \* seconds between runs of a sleep kind
          ProposalSecs,     \* policy.proposal_ttl_secs
          MaxDeferred,      \* MAX_DEFERRED_MENTIONS
          MaxTasks          \* bound: no new task is offered to a queue this long

Modes == {"paused", "asleep", "peripheral", "engaged", "deliberative"}
TaskKinds == {"wake", "mention", "read"} \cup ToSet(SleepKinds)

\* A run's configuration (schedule and sleep cycle enabled, the model of time,
\* see Second), what the operator may do (tasks, modes, values of
\* schedule.enabled), and bounds on mentions, restarts and failed writes.
WorkloadOK(w) ==
  /\ w.schedule \in BOOLEAN /\ w.sleeps \in BOOLEAN /\ w.prompt \in BOOLEAN
  /\ w.tasks \subseteq {"wake", "read"} /\ w.modes \subseteq Modes
  /\ w.settings \subseteq BOOLEAN
  /\ w.readings \subseteq BOOLEAN /\ FALSE \in w.readings
  /\ w.mentions \in Nat /\ w.crashes \in Nat /\ w.failures \in Nat

\* ProposalKind::ALL lists each kind once.
ASSUME RuntimeAssumption ==
  /\ NoMention \notin Mentions
  /\ SleepKinds \in Seq({"reflection", "dream", "consolidation"})
  /\ \A i, j \in DOMAIN SleepKinds : SleepKinds[i] = SleepKinds[j] => i = j
  /\ \A w \in Workloads : WorkloadOK(w)
  /\ InitialMode \in Modes
  /\ Spacing \in Nat \ {0} /\ Cooldown \in Nat \ {0} /\ ProposalSecs \in Nat \ {0}
  /\ MaxDeferred \in Nat \ {0} /\ MaxTasks \in Nat

VARIABLES rt,          \* DurableRuntimeState, in memory
          saved,       \* and as runtime-state.json has it
          worker,      \* where run_worker is, and with which task
          permit,      \* Notify holds a permit
          scheduler,   \* where run_scheduler is, and the mention it holds
          overBudget,  \* the day's model spend is at the cap
          fate,        \* history: what became of each mention
          sinceWake,   \* history: age of the last scheduled wake, or Owed
          burst,       \* history: considerations since the machine last slept
          ran,         \* history: age of the last start of each sleep kind
          forgotten,   \* history: kinds whose last start a restart did not find
          crashes, failures,
          workload     \* the workload of this run

vars == <<rt, saved, worker, permit, scheduler, overBudget,
          fate, sinceWake, burst, ran, forgotten, crashes, failures, workload>>
disk == <<saved, failures>>
history == <<fate, sinceWake, burst>>
sleepHistory == <<ran, forgotten>>
beyond == <<scheduler, overBudget, sinceWake, crashes>>  \* what most steps of the worker leave alone

Owed == Spacing + 1
NewTask(kind, mention, expires) ==
  [kind |-> kind, mention |-> mention, expires |-> expires, status |-> "queued"]
Idle == [at |-> "idle", kind |-> "read", mention |-> NoMention, model |-> FALSE]
Ticking == [at |-> "ticking", held |-> NoMention]
Resting == [Ticking EXCEPT !.at = IF workload.prompt THEN "sleeping" ELSE @]

Init ==
  /\ workload \in Workloads
  /\ rt = [mode |-> InitialMode, machine |-> Fresh, tasks |-> <<>>,
           lastWake |-> NoTime, deferred |-> <<>>, schedule |-> workload.schedule,
           ranAt |-> [k \in ToSet(SleepKinds) |-> NoTime]]
  /\ saved = rt
  /\ worker = Idle
  /\ permit = FALSE
  /\ scheduler = Ticking
  /\ overBudget = FALSE
  /\ fate = [m \in Mentions |-> "new"]
  /\ sinceWake = Spacing
  /\ burst = 0
  /\ ran = rt.ranAt
  /\ forgotten = {}
  /\ crashes = 0
  /\ failures = 0

-----------------------------------------------------------------------------
(* Pieces shared by the steps.                                             *)

\* persist_locked: memory moves to r; the file follows, or the write fails.
Save(r) ==
  /\ rt' = r
  /\ \/ saved' = r /\ UNCHANGED failures
     \/ failures < workload.failures /\ failures' = failures + 1 /\ UNCHANGED saved

SaveFailed == failures' # failures

\* Mutant: the snapshot is used as it was left.
SyncedStale(r) == SetBudget(r.machine, overBudget)

\* sync_budget_into_autonomy, which recovers the machine before it reads.
Synced(r) == SetBudget(Recover(r.machine, 0), overBudget)

IsPaused(r) == r.mode = "paused" \/ Recover(r.machine, 0).state = "paused"

\* note_chat, its instant forgotten (see above).
NoteMention(m) == [NoteChat(m, 0) EXCEPT !.lastChat = NoTime]

\* The elements of seq at the indexes in I, in their order.
Nth(I, k) == CHOOSE i \in I : Cardinality({j \in I : j < i}) = k - 1
Picked(seq, I) == [k \in 1..Cardinality(I) |-> seq[Nth(I, k)]]

Lapsed(t) == t.kind \in ToSet(SleepKinds) /\ t.expires = 0
IsQueued(t) == t.status = "queued"
IsRunning(t) == t.status = "running"
Runnable(t) == IsQueued(t) /\ ~Lapsed(t)

\* Notify::notify_one wakes the waiting worker or leaves it a permit;
\* notify_waiters wakes only a worker that is already waiting.
NotifyOne ==
  IF worker.at = "waiting"
  THEN worker' = Idle /\ UNCHANGED permit
  ELSE permit' = TRUE /\ UNCHANGED worker

NotifyWaiters ==
  /\ worker' = IF worker.at = "waiting" THEN Idle ELSE worker
  /\ UNCHANGED permit

\* Mutants: a deferred mention goes nowhere; the pen has no bound.
DeferForgets(pen, mention) == pen
DeferUnbounded(pen, mention) == Append(pen, mention)

\* defer_mention: drop-oldest.
Defer(pen, mention) ==
  LET longer == Append(pen, mention)
  IN IF Len(longer) > MaxDeferred THEN Tail(longer) ELSE longer

-----------------------------------------------------------------------------
(* Enqueueing: the operator's API and the scheduler.                        *)

\* A mention is noted as chat only when the machine accepts it, which it does
\* exactly when it changes phase.
Enqueued(r, kind, mention) ==
  LET m    == Synced(r)
      woke == Apply(m, Trigger("direct_mention"), 0)
  IN [r EXCEPT
       !.machine =
          CASE kind = "mention" -> IF woke.state = m.state THEN m ELSE NoteMention(woke)
            [] kind = "wake" -> Apply(m, Trigger("scheduled_wake"), 0)
            [] OTHER -> m,
       !.tasks = Append(@, NewTask(kind, mention, 0))]

\* enqueue: a failed write keeps the task and loses the notification.
Enqueue(kind, mention) ==
  /\ Save(Enqueued(rt, kind, mention))
  /\ IF SaveFailed THEN UNCHANGED <<worker, permit>> ELSE NotifyOne

\* A machine found asleep or paused has ended the burst it worked.
Slept(m) == IF IsWorking(m) THEN burst ELSE 0

PostMention(m) ==
  /\ fate[m] = "new"
  /\ Cardinality({n \in Mentions : fate[n] # "new"}) < workload.mentions
  /\ Len(rt.tasks) < MaxTasks
  /\ Enqueue("mention", m)
  /\ fate' = [fate EXCEPT ![m] = "waiting"]
  /\ burst' = Slept(Synced(rt))
  /\ UNCHANGED <<scheduler, overBudget, sinceWake, crashes>>

PostTask(kind) ==
  /\ Len(rt.tasks) < MaxTasks
  /\ Enqueue(kind, NoMention)
  /\ burst' = Slept(Synced(rt))
  /\ UNCHANGED <<scheduler, overBudget, fate, sinceWake, crashes>>

\* Mutant: a paused machine is sent the wake alone.
ConvergedWithoutStart(m, mode) ==
  CASE mode = "paused" -> Apply(m, Trigger("operator_pause"), 0)
    [] mode \in {"engaged", "deliberative"} -> Apply(m, Trigger("api_wake"), 0)
    [] OTHER -> m

\* mode_transition_plan, applied.
Converged(m, mode) ==
  LET started == IF m.state = "paused"
                 THEN Apply(m, Trigger("operator_start"), 0) ELSE m
  IN CASE mode = "paused" -> Apply(m, Trigger("operator_pause"), 0)
       [] mode \in {"engaged", "deliberative"} -> Apply(started, Trigger("api_wake"), 0)
       [] OTHER -> started

SetMode(mode) ==
  /\ Save([rt EXCEPT !.mode = mode, !.machine = Converged(Synced(rt), mode)])
  /\ IF SaveFailed THEN UNCHANGED <<worker, permit>> ELSE NotifyWaiters
  /\ burst' = Slept(Synced(rt))
  /\ UNCHANGED <<scheduler, overBudget, fate, sinceWake, crashes>>

SetSchedule ==
  /\ \E enabled \in workload.settings : Save([rt EXCEPT !.schedule = enabled])
  /\ UNCHANGED <<worker, permit, scheduler, overBudget, history, crashes>>

-----------------------------------------------------------------------------
(* The scheduler: run_scheduler, one tick of its 60 s interval.             *)

\* scheduled_wake_due; jittered_spacing is a fixed hash of the last wake.
WakeDue(r) ==
  /\ r.schedule /\ ~IsPaused(r)
  /\ r.lastWake = NoTime \/ -r.lastWake >= Spacing

Tick ==
  /\ scheduler.at = "ticking"
  /\ scheduler' = [scheduler EXCEPT
       !.at = IF WakeDue(rt) /\ Len(rt.tasks) < MaxTasks THEN "waking" ELSE "retrying"]
  /\ UNCHANGED <<rt, disk, worker, permit, overBudget, history, crashes>>

EnqueueWake ==
  /\ scheduler.at = "waking"
  /\ Enqueue("wake", NoMention)
  /\ scheduler' = [scheduler EXCEPT !.at = IF SaveFailed THEN "retrying" ELSE "marking"]
  /\ sinceWake' = 0
  /\ burst' = Slept(Synced(rt))
  /\ UNCHANGED <<overBudget, fate, crashes>>

\* Mutant: the wake is not marked.
MarkedNever(r) == r

Marked(r) == [r EXCEPT !.lastWake = 0]

\* A second holding of the mutex, after the wake is in the queue.
MarkWake ==
  /\ scheduler.at = "marking"
  /\ Save(Marked(rt))
  /\ scheduler' = [scheduler EXCEPT !.at = "retrying"]
  /\ UNCHANGED <<worker, permit, overBudget, history, crashes>>

\* Mutant: the mention stays in the pen.
PoppedKept(r) == r

Popped(r) == [r EXCEPT !.deferred = Tail(@)]

\* At most one deferred mention leaves the pen, once pause and quiet are over.
Retry ==
  /\ scheduler.at = "retrying"
  /\ IF \/ rt.deferred = <<>> \/ IsPaused(rt)
        \/ QuietActive(Recover(rt.machine, 0), 0)
     THEN scheduler' = Resting /\ UNCHANGED <<rt, disk>>
     ELSE /\ scheduler' = [at |-> "requeueing", held |-> Head(rt.deferred)]
          /\ Save(Popped(rt))
  /\ UNCHANGED <<worker, permit, overBudget, history, crashes>>

Requeue ==
  /\ scheduler.at = "requeueing"
  /\ Enqueue("mention", scheduler.held)
  /\ scheduler' = Resting
  /\ burst' = Slept(Synced(rt))
  /\ UNCHANGED <<overBudget, fate, sinceWake, crashes>>

-----------------------------------------------------------------------------
(* The worker: run_worker.                                                 *)

\* Mutant: the start is not noted.
ClaimedUnnoted(r) ==
  LET i       == SelectInSeq(r.tasks, Runnable)
      started == [r.tasks EXCEPT ![i].status = "running"]
  IN [r EXCEPT !.tasks = Picked(started, {j \in DOMAIN started : j >= i \/ IsRunning(started[j])})]

\* claim_queued_task: the first task that may run starts; the lapsed proposals
\* before it are cancelled, which is to say gone.
Claimed(r) ==
  LET i       == SelectInSeq(r.tasks, Runnable)
      started == [r.tasks EXCEPT ![i].status = "running"]
  IN [r EXCEPT !.tasks = Picked(started, {j \in DOMAIN started : j >= i \/ IsRunning(started[j])}),
               !.ranAt = [k \in DOMAIN @ |-> IF k = r.tasks[i].kind THEN 0 ELSE @[k]]]

ClaimNext ==
  /\ worker.at = "idle"
  /\ ~IsPaused(rt)
  /\ SelectInSeq(rt.tasks, Runnable) # 0
  /\ Save(Claimed(rt))
  /\ LET task == rt.tasks[SelectInSeq(rt.tasks, Runnable)]
     IN /\ worker' = [Idle EXCEPT !.at = "claimed", !.kind = task.kind, !.mention = task.mention]
        /\ ran' = [k \in DOMAIN ran |-> IF k = task.kind THEN 0 ELSE ran[k]]
        /\ forgotten' = forgotten \ {task.kind}
  /\ UNCHANGED <<permit, beyond, fate, burst>>

\* Nothing to claim: paused, or no task left once lapsed ones are cancelled.
ClaimNothing ==
  /\ worker.at = "idle"
  /\ worker' = [worker EXCEPT !.at = "parking"]
  /\ \/ IsPaused(rt) /\ UNCHANGED <<rt, disk>>
     \/ /\ ~IsPaused(rt)
        /\ SelectInSeq(rt.tasks, Runnable) = 0
        /\ LET kept == Picked(rt.tasks, {j \in DOMAIN rt.tasks : IsRunning(rt.tasks[j])})
           IN IF kept = rt.tasks THEN UNCHANGED <<rt, disk>>
              ELSE Save([rt EXCEPT !.tasks = kept])
  /\ UNCHANGED <<permit, beyond, fate, burst>>

\* notify.notified().await: a permit is taken at once, else the worker waits.
Park ==
  /\ worker.at = "parking"
  /\ permit' = FALSE
  /\ worker' = IF permit THEN Idle ELSE [worker EXCEPT !.at = "waiting"]
  /\ UNCHANGED <<rt, disk, beyond, fate, burst>>

IsLive(r, kind) == \E i \in DOMAIN r.tasks : r.tasks[i].kind = kind
IsReady(r, kind) == r.ranAt[kind] = NoTime \/ -r.ranAt[kind] >= Cooldown

\* plan_cycle_gated, which proposes nothing when it is not enabled, and
\* enqueue_sleep_proposals.
Proposals(r) ==
  LET planned == Picked(SleepKinds, {i \in DOMAIN SleepKinds :
                           workload.sleeps /\ IsReady(r, SleepKinds[i]) /\ ~IsLive(r, SleepKinds[i])})
  IN [i \in DOMAIN planned |-> NewTask(planned[i], NoMention, ProposalSecs)]

NeedsLease(kind) == kind # "read"
NeedsModel(kind) == kind \notin {"wake", "read"}

\* The machine the worker meets, given the input if the task is gated.
Met ==
  IF NeedsLease(worker.kind)
  THEN Apply(Synced(rt), Trigger("process_input"), 0) ELSE Synced(rt)

Admitted == NeedsLease(worker.kind) => IsWorking(Met) /\ HasLiveLease(Met, 0)

\* pre_execute_hooks without a live lease: a wake re-arms the scheduler, a
\* mention is deferred, anything else is over.
Skip ==
  /\ ~Admitted
  /\ Save([rt EXCEPT
       !.machine = Met,
       !.lastWake = IF worker.kind = "wake" THEN NoTime ELSE @,
       !.deferred = IF worker.kind = "mention" THEN Defer(@, worker.mention) ELSE @])
  /\ worker' = [worker EXCEPT !.at = "finishing"]
  /\ fate' = [m \in Mentions |->
       IF m \in ToSet(rt.deferred) \ ToSet(rt'.deferred) THEN "dropped" ELSE fate[m]]
  /\ sinceWake' = IF worker.kind = "wake" THEN Owed ELSE sinceWake
  /\ burst' = Slept(Met)

\* pre_execute_hooks with one: a mention spends a step, a wake in mode asleep
\* plans the sleep work; a failed write fails the task.
Proceed ==
  /\ Admitted
  /\ Save([rt EXCEPT
       !.machine = IF worker.kind = "mention" THEN RecordStep(Met, 0) ELSE Met,
       !.tasks = IF worker.kind = "wake" /\ rt.mode = "asleep"
                 THEN @ \o Proposals(rt) ELSE @])
  /\ worker' = [worker EXCEPT
       !.model = MayCallModel(Met, 0),
       !.at = IF SaveFailed THEN "finishing"
              ELSE IF NeedsModel(worker.kind) THEN "deciding" ELSE "calling"]
  /\ fate' = IF SaveFailed /\ worker.kind = "mention"
             THEN [fate EXCEPT ![worker.mention] = "failed"] ELSE fate
  /\ burst' = IF worker.kind = "mention" THEN Slept(Met) + 1 ELSE Slept(Met)
  /\ UNCHANGED sinceWake

PreExecute ==
  /\ worker.at = "claimed"
  /\ Skip \/ Proceed
  /\ UNCHANGED <<permit, scheduler, overBudget, crashes>>

\* The gates before a model call.  A mention reads the machine again
\* (deliberate_mention); a sleep proposal goes by what PreExecute read
\* (run_sleep_reflection).
ModelGate ==
  /\ ~overBudget
  /\ IF worker.kind = "mention"
     THEN MayCallModel(Recover(rt.machine, 0), 0)
     ELSE /\ worker.model
          /\ \E i \in DOMAIN rt.tasks :
               /\ rt.tasks[i].kind = worker.kind
               /\ IsRunning(rt.tasks[i]) /\ ~Lapsed(rt.tasks[i])

Decide ==
  /\ worker.at = "deciding"
  /\ worker' = [worker EXCEPT !.at = IF ModelGate THEN "cleared" ELSE "finishing"]
  /\ fate' = IF worker.kind = "mention" /\ ~ModelGate
             THEN [fate EXCEPT ![worker.mention] = "refused"] ELSE fate
  /\ UNCHANGED <<rt, disk, permit, beyond, burst>>

\* The call begins, the mutex long released.
BeginCall ==
  /\ worker.at = "cleared"
  /\ worker' = [worker EXCEPT !.at = "calling"]
  /\ UNCHANGED <<rt, disk, permit, beyond, fate, burst>>

\* The call, or the read of a feed, ends: with a decision, or with no model, an
\* error or an answer that is not a decision.
CallReturns ==
  /\ worker.at = "calling"
  /\ worker' = [worker EXCEPT !.at = "finishing"]
  /\ IF worker.kind = "mention"
     THEN \E f \in {"deliberated", "failed"} : fate' = [fate EXCEPT ![worker.mention] = f]
     ELSE UNCHANGED fate
  /\ UNCHANGED <<rt, disk, permit, beyond, burst>>

Performs(t) == IsRunning(t) /\ t.kind = worker.kind /\ t.mention = worker.mention

\* The queue of r without the task of index i.
Without(r, i) ==
  LET left == Picked(r.tasks, DOMAIN r.tasks \ {i})
  IN [r EXCEPT !.tasks = left,
               !.machine = IF left = <<>>
                           THEN Apply(Recover(@, 0), Trigger("queue_empty"), 0) ELSE @]

\* finish: the task leaves the queue, and with none left the machine may sleep.
Finish ==
  /\ worker.at = "finishing"
  /\ Save(Without(rt, SelectInSeq(rt.tasks, Performs)))
  /\ worker' = Idle
  /\ UNCHANGED <<permit, beyond, fate, burst>>

-----------------------------------------------------------------------------
(* The world: chat spends and midnight, time, and a crash.                  *)

LedgerMoves ==
  /\ overBudget' \in workload.readings
  /\ UNCHANGED <<rt, disk, worker, permit, scheduler, history, crashes>>

Sooner(n) == IF n > 0 THEN n - 1 ELSE 0
Older(n, most) == IF n = NoTime \/ n = -most THEN n ELSE n - 1

Shortened(x) == [x EXCEPT !.expires = Sooner(@)]

Aged(r) ==
  [r EXCEPT !.machine.lease = IF @ = NoLease THEN @ ELSE Shortened(@),
            !.machine.quietUntil = Sooner(@),
            !.tasks = [i \in DOMAIN @ |-> Shortened(@[i])],
            !.lastWake = Older(@, Spacing),
            !.ranAt = [k \in DOMAIN @ |-> Older(@[k], Cooldown)]]

\* A unit of time passes.  Without prompt at any moment: the worker may be slow
\* and the scheduler's interval, which makes up for missed ticks, may fire at
\* any time.  Under prompt the unit is the interval's 60 s: the scheduler ticks
\* once in each, the worker's own steps take none, and a feed is read (30 s at
\* most) well within a lease (120 s), so only waiting and model calls take time.
Second ==
  /\ workload.prompt => (worker.at = "waiting" \/ (worker.at = "calling" /\ NeedsModel(worker.kind)))
  /\ rt' = Aged(rt) /\ saved' = Aged(saved)
  /\ sinceWake' = IF sinceWake < Spacing THEN sinceWake + 1 ELSE sinceWake
  /\ scheduler' = IF scheduler.at = "sleeping" THEN Ticking ELSE scheduler
  /\ ran' = [k \in DOMAIN ran |-> Older(ran[k], Cooldown)]
  /\ UNCHANGED <<worker, permit, overBudget, fate, burst, forgotten, crashes, failures>>

\* SteveRuntime::open on what the last process left.
Restart ==
  /\ crashes < workload.crashes
  /\ crashes' = crashes + 1
  /\ rt' = [saved EXCEPT !.machine = Synced(saved)]
  /\ saved' = rt'
  /\ worker' = Idle
  /\ permit' = FALSE
  /\ scheduler' = Ticking
  /\ burst' = Slept(Synced(saved))
  /\ forgotten' = forgotten \cup {k \in DOMAIN ran : saved.ranAt[k] # rt.ranAt[k]}
  /\ UNCHANGED <<overBudget, fate, sinceWake, ran, failures>>

Next ==
  /\ UNCHANGED workload
  /\ \/ /\ UNCHANGED sleepHistory
        /\ \/ \E m \in Mentions : PostMention(m)
           \/ \E kind \in workload.tasks : PostTask(kind)
           \/ \E mode \in workload.modes : SetMode(mode)
           \/ SetSchedule
           \/ Tick \/ EnqueueWake \/ MarkWake \/ Retry \/ Requeue
           \/ ClaimNothing \/ Park
           \/ PreExecute \/ Decide \/ BeginCall \/ CallReturns \/ Finish
           \/ LedgerMoves
     \/ ClaimNext \/ Second \/ Restart

Spec == Init /\ [][Next]_vars

WorkerStep ==
  \/ ClaimNext
  \/ /\ UNCHANGED sleepHistory
     /\ \/ ClaimNothing \/ Park
        \/ PreExecute \/ Decide \/ BeginCall \/ CallReturns \/ Finish
SchedulerStep ==
  /\ UNCHANGED sleepHistory
  /\ Tick \/ EnqueueWake \/ MarkWake \/ Retry \/ Requeue

\* The two spawned tasks are polled again and again, a call returns (the
\* transport has a timeout), and time goes on even if the operator's calls keep
\* waking the worker.  The operator owes nothing.
FairSpec ==
  /\ Spec
  /\ WF_vars(WorkerStep /\ UNCHANGED workload)
  /\ WF_vars(SchedulerStep /\ UNCHANGED workload)
  /\ SF_vars(Second /\ UNCHANGED workload)

-----------------------------------------------------------------------------
(* Properties.                                                             *)

Tasks == [kind : TaskKinds, mention : Mentions \cup {NoMention},
          expires : 0..ProposalSecs, status : {"queued", "running"}]

DurableStates ==
  [mode : Modes, machine : Snapshots, tasks : Seq(Tasks),
   lastWake : (-Spacing..0) \cup {NoTime}, deferred : Seq(Mentions),
   schedule : BOOLEAN, ranAt : [ToSet(SleepKinds) -> (-Cooldown..0) \cup {NoTime}]]

\* The state is of its shape, and the pen of deferred mentions never holds
\* more than MAX_DEFERRED_MENTIONS, in memory or in the file.
TypeOK ==
  /\ rt \in DurableStates /\ saved \in DurableStates
  /\ Len(rt.deferred) <= MaxDeferred /\ Len(saved.deferred) <= MaxDeferred
  /\ worker \in [at : {"idle", "parking", "waiting", "claimed", "deciding",
                       "cleared", "calling", "finishing"},
                 kind : TaskKinds, mention : Mentions \cup {NoMention}, model : BOOLEAN]
  /\ permit \in BOOLEAN
  /\ scheduler \in [at : {"sleeping", "ticking", "waking", "marking", "retrying",
                          "requeueing"},
                    held : Mentions \cup {NoMention}]
  /\ overBudget \in BOOLEAN
  /\ fate \in [Mentions ->
       {"new", "waiting", "dropped", "refused", "failed", "deliberated"}]
  /\ sinceWake \in 0..Owed
  /\ burst \in Nat
  /\ ran \in [ToSet(SleepKinds) -> (-Cooldown..0) \cup {NoTime}] /\ forgotten \subseteq ToSet(SleepKinds)
  /\ crashes \in 0..workload.crashes /\ failures \in 0..workload.failures
  /\ workload \in Workloads

\* The runtime's mode and the machine's phase are two records of one decision
\* of the operator, and agree in memory and in the file whatever else the
\* worker, the scheduler, a failed write or a restart does: a paused mode
\* never sits on a machine that may work, nor an engaged mode on a machine
\* that rejects every wake.  (set_mode, mode_transition_plan, open.)
ModeAndMachineAgree ==
  \A r \in {rt, saved} : (r.mode = "paused") <=> (r.machine.state = "paused")

InHand(m) == worker.mention = m /\ worker.at \in {"claimed", "deciding", "cleared", "calling"}

Places(m) ==
  Cardinality({i \in DOMAIN rt.tasks : rt.tasks[i].mention = m /\ IsQueued(rt.tasks[i])})
  + Cardinality({i \in DOMAIN rt.deferred : rt.deferred[i] = m})
  + (IF scheduler.held = m THEN 1 ELSE 0)
  + (IF InHand(m) THEN 1 ELSE 0)

\* Without crashes and failed writes, a mention that waits is in exactly one
\* place, and one that is settled in none: it is neither lost nor considered
\* twice as it goes between the queue, the worker, the pen and the scheduler.
MentionsAreConserved ==
  \A m \in Mentions : Places(m) = IF fate[m] = "waiting" THEN 1 ELSE 0

\* However triggers and recoveries interleave, the machine works through at
\* most one step budget of considerations before it sleeps.  The
\* bare machine does not promise this, for enter_work replaces a lease whose
\* steps are used up: it holds because the runtime recovers the snapshot, which
\* puts such a machine to sleep, before every use.  (enter_work: "a stream of
\* ProcessInput events must consume ONE step budget".)
BurstWithinOneBudget == burst <= LeaseSteps

\* Sleep work of one kind really starts at most once within its cooldown,
\* though the cooldown is read when the work is planned and noted when it
\* starts, with other work, time and restarts between.  One case is excepted,
\* since there the code does start it again: claim_next ignores a failed write
\* of the start it noted, and a restart before any later write brings back the
\* queued task together with the older note; the kind is then forgotten until
\* it starts next.  (plan_cycle_gated, enqueue_sleep_proposals, claim_next.)
SleepWorkCoolsDown ==
  [][ClaimNext /\ worker'.kind \in ToSet(SleepKinds) \ forgotten =>
       ran[worker'.kind] = NoTime \/ -ran[worker'.kind] >= Cooldown]_vars

\* The scheduler's wakes are Spacing apart, unless one was skipped and is owed.
\* ("restarts cannot reroll or bunch the schedule", docs/STEVE_RUNTIME.md.)  A
\* crash or a failed write between a wake and its mark repeats the wake.
WakesAreSpaced ==
  [][EnqueueWake /\ workload.crashes = 0 /\ workload.failures = 0 => sinceWake >= Spacing]_vars

\* Work that is queued and held by nothing is eventually claimed or held.
\* (set_mode: "pause -> engage can never leave the worker stalled".)
HasWork == SelectInSeq(rt.tasks, Runnable) # 0
QueuedWorkResumes == (HasWork /\ ~IsPaused(rt)) ~> (~HasWork \/ IsPaused(rt))

\* Every mention posted is settled in the end, however often quiet windows and
\* leases that run out send it back to the pen.
MentionsSettle ==
  \A m \in Mentions : (fate[m] = "waiting") ~> (fate[m] # "waiting")
=============================================================================
