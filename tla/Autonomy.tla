------------------------------ MODULE Autonomy ------------------------------
(***************************************************************************)
(* The autonomy machine on its own: any caller may apply any trigger at any *)
(* time, chat and budget readings arrive between triggers, the clock moves,  *)
(* and the process may restart from the snapshot it saved.  SteveRuntime is  *)
(* one particular caller; what holds here holds for every caller.           *)
(***************************************************************************)
EXTENDS AutonomyMachine

CONSTANTS MaxNow,   \* bound on the clock
          Claims    \* idle seconds and lease ids a caller may claim

ASSUME ClaimsAssumption == Claims \subseteq Nat /\ MaxNow \in Nat

VARIABLES machine,  \* the snapshot
          now,      \* the clock, in seconds
          outcome,  \* the last TransitionOutcome: from, trigger, to
          ended     \* history: ids of the leases that are over

autonomyVars == <<machine, now, outcome, ended>>

Kinds == SimpleKinds \cup {"idle_resume", "idle_threshold_for_dream", "lease_expired"}
NoOutcome == [from |-> "asleep", trigger |-> "none", to |-> "asleep"]

AutonomyInit ==
  /\ machine = Fresh
  /\ now = 0
  /\ outcome = NoOutcome
  /\ ended = {}

\* The machine moves to m; a lease that is no longer in force is over.
MoveTo(m) ==
  /\ machine' = m
  /\ ended' = IF /\ machine.lease # NoLease
                 /\ m.lease = NoLease \/ m.lease.id # machine.lease.id
              THEN ended \cup {machine.lease.id} ELSE ended
  /\ UNCHANGED now

Stimulus(t) ==
  /\ MoveTo(Apply(machine, t, now))
  /\ outcome' = [from |-> machine.state, trigger |-> t.kind, to |-> machine'.state]

DirectMention == Stimulus(Trigger("direct_mention"))
ApiWake == Stimulus(Trigger("api_wake"))
ScheduledWake == Stimulus(Trigger("scheduled_wake"))
IdleResume == \E c \in Claims : Stimulus(Claim("idle_resume", c))
OperatorStart == Stimulus(Trigger("operator_start"))
ProcessInput == Stimulus(Trigger("process_input"))
IdleThresholdForDream == \E c \in Claims : Stimulus(Claim("idle_threshold_for_dream", c))
DreamComplete == Stimulus(Trigger("dream_complete"))
QueueEmpty == Stimulus(Trigger("queue_empty"))
LeaseExpired == \E c \in Claims : Stimulus(Claim("lease_expired", c))
OperatorPause == Stimulus(Trigger("operator_pause"))
OperatorStop == Stimulus(Trigger("operator_stop"))
TickTrigger == Stimulus(Trigger("tick"))

\* The other calls an integrator makes between triggers.
ChatNoted ==
  /\ MoveTo(NoteChat(machine, now))
  /\ UNCHANGED outcome

StepRecorded ==
  /\ MoveTo(RecordStep(machine, now))
  /\ UNCHANGED outcome

BudgetRead ==
  /\ \E blocks \in BOOLEAN : MoveTo(SetBudget(machine, blocks))
  /\ UNCHANGED outcome

\* The snapshot is read back, by a new process or by the next locked call.
AutonomyRestart ==
  /\ MoveTo(Recover(machine, now))
  /\ outcome' = NoOutcome

TimePasses ==
  /\ now < MaxNow
  /\ now' = now + 1
  /\ UNCHANGED <<machine, outcome, ended>>

AutonomyNext ==
  \/ DirectMention \/ ApiWake \/ ScheduledWake \/ IdleResume
  \/ OperatorStart \/ ProcessInput \/ IdleThresholdForDream
  \/ DreamComplete \/ QueueEmpty \/ LeaseExpired
  \/ OperatorPause \/ OperatorStop \/ TickTrigger
  \/ ChatNoted \/ StepRecorded \/ BudgetRead \/ AutonomyRestart \/ TimePasses

AutonomySpec == AutonomyInit /\ [][AutonomyNext]_autonomyVars

-----------------------------------------------------------------------------
(* Properties.                                                             *)

AutonomyTypeOK ==
  /\ machine \in Snapshots
  /\ now \in Nat
  /\ outcome \in [from : States, trigger : Kinds \cup {"none"}, to : States]
  /\ ended \subseteq Nat

\* Work authority and phase agree: the machine holds a lease exactly while it
\* works, and the lease is for the phase it works in, through halts, expiry,
\* phase changes and recovery.  (autonomy.rs, recover: "a working state
\* requires a live lease for that state"; enter_paused: "halt cancels work
\* authority".)
AuthorityMatchesPhase ==
  IF IsWorking(machine)
  THEN machine.lease # NoLease /\ machine.lease.state = machine.state
  ELSE machine.lease = NoLease

\* A lease is a bounded permission: it never runs past LeaseSecs from the
\* present nor past LeaseSteps, whatever retains it and whenever it is read
\* back.  (WorkLease, issue_lease and the retained lease in enter_work.)
LeaseIsBounded ==
  machine.lease # NoLease =>
    /\ machine.lease.expires <= now + LeaseSecs
    /\ machine.lease.steps <= LeaseSteps

\* An authority that was withdrawn stays withdrawn: no later lease carries
\* the id of one that is over, across restarts too, until the ids saturate.
\* (recover: "a restart cannot mint duplicate lease ids".)
RevokedStaysRevoked ==
  machine.lease # NoLease /\ machine.lease.id < MaxLeaseId =>
    machine.lease.id \notin ended

\* A halt is undone by the operator only, and into a phase that holds no
\* authority: no trigger, restart or passing time ends a pause.  (apply:
\* "While paused, only OperatorStart matters"; leave_paused.)
PauseIsSticky ==
  [][machine.state = "paused" /\ machine'.state # "paused" =>
       OperatorStart /\ machine'.state = "asleep" /\ machine'.lease = NoLease]_autonomyVars

\* Inside the quiet window only the operator's explicit wake takes the machine
\* out of sleep; mentions, schedules and idle claims wait.  (apply, "From
\* Asleep".)
QuietDefersAutonomousWakes ==
  [][machine.state = "asleep" /\ QuietActive(machine, now) /\ machine'.state # "asleep" =>
       outcome'.trigger \in {"api_wake"} \cup Halts]_autonomyVars

\* However long an idle time is claimed, dreaming and idle resumption start
\* only after that much silence since the last chat.  (effective_idle: "a
\* forged or stale claim cannot bypass the quiet/dream idle gates".)
IdleClaimsAreClamped ==
  [][machine.lastChat # NoTime /\ machine'.state # machine.state =>
       /\ outcome'.trigger = "idle_resume" =>
            now - machine.lastChat >= IdleResumeSecs
       /\ outcome'.trigger = "idle_threshold_for_dream" =>
            now - machine.lastChat >= DreamIdleSecs]_autonomyVars

\* Authority is bounded in phase, time, steps and identity, whoever calls.
AuthorityIsBounded ==
  /\ AutonomyTypeOK
  /\ AuthorityMatchesPhase
  /\ LeaseIsBounded
  /\ RevokedStaysRevoked

\* No trigger gets past a pause, a quiet window or an idle gate that holds.
GatesHold ==
  /\ PauseIsSticky
  /\ QuietDefersAutonomousWakes
  /\ IdleClaimsAreClamped
=============================================================================
