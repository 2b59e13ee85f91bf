--------------------------- MODULE AutonomyMachine ---------------------------
(***************************************************************************)
(* The autonomy machine of ferricula-server (autonomy.rs): a pure function  *)
(* from a durable snapshot and a trigger to the next snapshot.  Nothing here *)
(* is a state variable; Autonomy drives the machine alone and SteveRuntime  *)
(* drives it from the worker, the scheduler and the operator's calls.       *)
(*                                                                         *)
(* A snapshot m is a record                                                *)
(*   state       phase of the machine                                      *)
(*   resume      phase a halt interrupted, NoState when there is none       *)
(*   lease       the work lease in force, NoLease when there is none        *)
(*   lastChat    instant of the last chat, NoTime before the first          *)
(*   quietUntil  end of the quiet window                                   *)
(*   blocked     budget_blocks_model(): pressure at the gate, or exhausted  *)
(*   nextId      next lease id, saturating at MaxLeaseId (u64::MAX)         *)
(* transition_count, idle_secs, queue_depth and last_transition_at are      *)
(* only reported and never read by a transition, so they are left out.     *)
(***************************************************************************)
EXTENDS Integers

CONSTANTS LeaseSecs,       \* policy.lease_secs
          LeaseSteps,      \* policy.lease_steps
          QuietSecs,       \* policy.quiet_secs
          IdleResumeSecs,  \* policy.idle_resume_secs
          DreamIdleSecs,   \* policy.dream_idle_secs
          HonorQuiet,      \* policy.honor_quiet_period
          MaxLeaseId,      \* where saturating_add stops: u64::MAX
          NoLease, NoTime

\* AutonomyPolicy::validate, and the two sentinels stand for Option::None.
ASSUME PolicyAssumption ==
  /\ LeaseSecs \in Nat \ {0}
  /\ LeaseSteps \in Nat \ {0}
  /\ QuietSecs \in Nat
  /\ IdleResumeSecs \in Nat
  /\ DreamIdleSecs \in Nat
  /\ HonorQuiet \in BOOLEAN
  /\ MaxLeaseId \in Nat \ {0}
  /\ NoTime \notin Int

WorkingStates == {"awake", "deliberating", "dreaming"}
States == WorkingStates \cup {"asleep", "paused"}
NoState == "none"

Leases == [id : Nat, state : States, expires : Int, steps : Nat, model : BOOLEAN]

ASSUME NoLeaseAssumption == NoLease \notin Leases

Snapshots ==
  [state      : States,
   resume     : States \cup {NoState},
   lease      : Leases \cup {NoLease},
   lastChat   : Int \cup {NoTime},
   quietUntil : Int,
   blocked    : BOOLEAN,
   nextId     : Nat]

Fresh ==
  [state |-> "asleep", resume |-> NoState, lease |-> NoLease,
   lastChat |-> NoTime, quietUntil |-> 0, blocked |-> FALSE, nextId |-> 1]

SimpleKinds ==
  {"direct_mention", "api_wake", "scheduled_wake", "operator_start",
   "process_input", "dream_complete", "queue_empty", "operator_pause",
   "operator_stop", "tick"}

\* A trigger: its kind, and the claim three kinds carry (a lease id for
\* lease_expired, a number of idle seconds for the two idle kinds).
Trigger(kind) == [kind |-> kind, claim |-> 0]
Claim(kind, n) == [kind |-> kind, claim |-> n]
Halts == {"operator_pause", "operator_stop"}

-----------------------------------------------------------------------------
(* What the machine reads.                                                 *)

SatSucc(n) == IF n < MaxLeaseId THEN n + 1 ELSE MaxLeaseId

IsWorking(m) == m.state \in WorkingStates
IsExpired(l, now) == now >= l.expires \/ l.steps >= LeaseSteps
HasLiveLease(m, now) == m.lease # NoLease /\ ~IsExpired(m.lease, now)
QuietActive(m, now) == HonorQuiet /\ now < m.quietUntil

MayCallModel(m, now) ==
  /\ m.state # "paused"
  /\ HasLiveLease(m, now)
  /\ m.lease.model
  /\ ~m.blocked

MayWriteOverlay(m, now) == m.state # "paused" /\ HasLiveLease(m, now)

\* A claimed idle time counts for no more than the machine's own record.
EffectiveIdle(m, claim, now) ==
  IF m.lastChat # NoTime /\ now - m.lastChat < claim
  THEN now - m.lastChat ELSE claim

-----------------------------------------------------------------------------
(* What a transition does.                                                 *)

EnterPaused(m) ==
  [m EXCEPT !.resume = IF m.state = "paused" THEN @ ELSE m.state,
            !.state = "paused", !.lease = NoLease]

\* The interrupted phase is forgotten: a working one is never resumed, and
\* the only other one is asleep.
LeavePaused(m) ==
  [m EXCEPT !.resume = NoState, !.state = "asleep", !.lease = NoLease]

SleepClear(m) ==
  [m EXCEPT !.resume = NoState, !.state = "asleep", !.lease = NoLease]

ExpireLease(m) == [m EXCEPT !.state = "asleep", !.lease = NoLease]

NewLease(m, to, now) ==
  [id |-> m.nextId, state |-> to, expires |-> now + LeaseSecs,
   steps |-> 0, model |-> ~m.blocked]

\* Mutant: the id counter does not move.
EnterWorkReusesId(m, to, now, quietGated) ==
  IF \/ quietGated /\ QuietActive(m, now)
     \/ to = m.state /\ HasLiveLease(m, now) /\ m.lease.state = to
  THEN m
  ELSE [m EXCEPT !.state = to, !.lease = NewLease(m, to, now)]

\* Deferred by the quiet window, continued under the lease in force, or
\* granted a new one.
EnterWork(m, to, now, quietGated) ==
  IF \/ quietGated /\ QuietActive(m, now)
     \/ to = m.state /\ HasLiveLease(m, now) /\ m.lease.state = to
  THEN m
  ELSE [m EXCEPT !.state = to, !.lease = NewLease(m, to, now),
                 !.nextId = SatSucc(@)]

\* The phases a trigger moves the machine to when no halt, pause or expiry
\* comes first; every pair it does not name leaves the machine alone.
Advance(m, t, now) ==
  CASE m.state = "asleep" /\ t.kind = "direct_mention" ->
         EnterWork(m, "awake", now, TRUE)
    [] m.state = "asleep" /\ t.kind = "api_wake" ->
         EnterWork(m, "awake", now, FALSE)
    [] m.state = "asleep" /\ t.kind = "scheduled_wake" ->
         EnterWork(m, "deliberating", now, TRUE)
    [] /\ m.state = "asleep" /\ t.kind = "idle_resume"
       /\ EffectiveIdle(m, t.claim, now) >= IdleResumeSecs ->
         EnterWork(m, "deliberating", now, TRUE)
    [] m.state \in {"awake", "deliberating"} /\ t.kind = "process_input" ->
         EnterWork(m, "deliberating", now, FALSE)
    [] m.state = "awake" /\ t.kind \in {"direct_mention", "scheduled_wake"} ->
         EnterWork(m, "deliberating", now, TRUE)
    [] /\ m.state = "deliberating" /\ t.kind = "idle_threshold_for_dream"
       /\ EffectiveIdle(m, t.claim, now) >= DreamIdleSecs ->
         EnterWork(m, "dreaming", now, FALSE)
    [] \/ IsWorking(m) /\ t.kind = "queue_empty"
       \/ m.state = "dreaming" /\ t.kind = "dream_complete" ->
         SleepClear(m)
    [] OTHER -> m

\* Mutant: the operator's wake also ends a pause.
ApplyWakesPaused(m, t, now) ==
  IF t.kind \in Halts THEN EnterPaused(m)
  ELSE IF m.state = "paused"
       THEN IF t.kind \in {"operator_start", "api_wake"} THEN LeavePaused(m) ELSE m
  ELSE Advance(m, t, now)

\* AutonomyMachine::apply.
Apply(m, t, now) ==
  IF t.kind \in Halts THEN EnterPaused(m)
  ELSE IF m.state = "paused"
       THEN IF t.kind = "operator_start" THEN LeavePaused(m) ELSE m
  ELSE IF t.kind \in {"tick", "lease_expired"} /\ m.lease # NoLease
       THEN IF IsExpired(m.lease, now) THEN ExpireLease(m) ELSE m
  ELSE Advance(m, t, now)

NoteChat(m, now) ==
  [m EXCEPT !.lastChat = now,
            !.quietUntil = IF HonorQuiet THEN now + QuietSecs ELSE @]

\* record_step: an error, and no change, without a live lease.
RecordStep(m, now) ==
  IF HasLiveLease(m, now) THEN [m EXCEPT !.lease.steps = @ + 1] ELSE m

SetBudget(m, blocks) == [m EXCEPT !.blocked = blocks]

\* AutonomyMachine::recover: what a snapshot read back at `now` becomes.
Recover(m, now) ==
  LET halted  == IF m.state = "paused" THEN NoLease ELSE m.lease
      kept    == IF /\ halted # NoLease
                    /\ ~IsExpired(halted, now) /\ halted.state = m.state
                 THEN halted ELSE NoLease
      dropped == IsWorking(m) /\ kept = NoLease
      pastId  == IF halted # NoLease /\ m.nextId <= halted.id
                 THEN SatSucc(halted.id) ELSE m.nextId
  IN [m EXCEPT !.lease  = kept,
               !.state  = IF dropped THEN "asleep" ELSE @,
               !.resume = IF dropped \/ @ = "paused" THEN NoState ELSE @,
               !.nextId = pastId]
=============================================================================
