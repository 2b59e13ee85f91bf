-------------------------------- MODULE Store --------------------------------
(***************************************************************************)
(* What the durable engine promises: a set of registers, one for a row, a  *)
(* record, an edge of a pair, a term of a memory.  A call writes the       *)
(* registers it is about and no other; what it acknowledged survives a     *)
(* restart, unless the log cannot be read: then there is none.  A register *)
(* holds the set of its value, empty when it is absent; durable is what    *)
(* the files have of it, readable or not.                                  *)
(*                                                                         *)
(*    whole    every append so far is in the log                           *)
(*    frayed   it ends in a torn append that is read as its end            *)
(*    broken   it cannot be read                                           *)
(***************************************************************************)
EXTENDS TLAPS

CONSTANTS
    Keys,        \* registers
    Calls,       \* calls that are logged
    Written,     \* call -> register -> what the call writes to it
    Volatile     \* the registers that also change without a call

VARIABLES live, durable, log, up, acked

store == <<live, durable, log, up, acked>>

\* The registers f after the call.
Effect(c, f) == [k \in Keys |-> IF k \in DOMAIN Written[c] THEN Written[c][k] ELSE f[k]]

Changed == {k \in Keys : live'[k] # live[k]}

\* What can become of the log when an append fails.
Worse == [whole |-> {"whole", "frayed", "broken"}, frayed |-> {"frayed", "broken"},
          broken |-> {"broken"}]

StoreInit ==
    /\ live = [k \in Keys |-> {}]
    /\ durable = live
    /\ log = "whole"
    /\ up = "up"
    /\ acked = Keys

\* A call that returned Ok: its registers are written and, when the log is
\* whole, they are durable.  The append may have made the log long enough
\* for a checkpoint.
Write(c) ==
    /\ up = "up"
    /\ live' = Effect(c, live)
    /\ \/ /\ log = "whole"
          /\ log' = "whole"
          /\ durable' = Effect(c, durable)
          /\ acked' = acked \cup Changed
       \/ /\ log # "whole"
          /\ log' = "broken"
          /\ durable' = durable
          /\ acked' = acked \ Changed
       \/ /\ log' = "whole"
          /\ durable' = live'
          /\ acked' = Keys
    /\ up' = up

\* A call that returned an error, or changed memory without being logged:
\* some of its registers, or none, became durable.
Unacknowledged(c) ==
    /\ up = "up"
    /\ live' = Effect(c, live)
    /\ \A k \in Keys : durable'[k] \in {durable[k], live'[k]}
    /\ log' \in Worse[log]
    /\ acked' = acked \ Changed
    /\ up' = up

\* Memory changed behind the log's back.
Slip ==
    /\ up = "up"
    /\ live' # live
    /\ Changed \subseteq Volatile
    /\ acked' = acked \ Changed
    /\ UNCHANGED <<durable, log, up>>

Checkpoint ==
    /\ up = "up"
    /\ durable' = live
    /\ log' = "whole"
    /\ acked' = Keys
    /\ UNCHANGED <<live, up>>

\* The snapshot was replaced and the log not emptied: a register that the
\* log still writes stays as the log has it, the others are as in memory.
HalfCheckpoint ==
    /\ up = "up"
    /\ \A k \in Keys : durable'[k] \in {durable[k], live[k]}
    /\ UNCHANGED <<live, log, up, acked>>

Crash ==
    /\ up = "up"
    /\ up' = "down"
    /\ UNCHANGED <<live, durable, log, acked>>

Reopen ==
    /\ up # "up"
    /\ log # "broken"
    /\ live' = durable
    /\ up' = "up"
    /\ acked' = Keys
    /\ UNCHANGED <<durable, log>>

\* Nothing repairs a broken log.
Refuse ==
    /\ up # "up"
    /\ log = "broken"
    /\ up' = "refused"
    /\ UNCHANGED <<live, durable, log, acked>>

StoreNext ==
    \/ \E c \in Calls : Write(c) \/ Unacknowledged(c)
    \/ Slip
    \/ Checkpoint
    \/ HalfCheckpoint
    \/ Crash
    \/ Reopen
    \/ Refuse

-----------------------------------------------------------------------------

\* What was acknowledged is durable.
AckedIsDurable == \A k \in acked : durable[k] = live[k]

\* A restart that succeeds gives back what was acknowledged, also when it comes
\* between the two halves of a checkpoint or after an append that was cut inside
\* its length.  One is refused only on a log that is not whole: an append since
\* the last checkpoint was cut inside its payload, or one came after a cut one.
AcknowledgedSurvives ==
    /\ [][up' = "up" /\ up # "up" => \A k \in acked : live'[k] = live[k]]_store
    /\ [](up = "refused" => log # "whole")

StoreSpec == StoreInit /\ [][StoreNext]_store

-----------------------------------------------------------------------------
(* The proofs, for any registers and calls                                  *)

Inv == acked \subseteq Keys /\ AckedIsDurable

\* A call writes the same value to the registers it is about, whatever they
\* held, so it keeps two copies equal where they were equal.
LEMMA EffectAgrees ==
    ASSUME NEW c, NEW f, NEW g, NEW k \in Keys, f[k] = g[k]
    PROVE  Effect(c, f)[k] = Effect(c, g)[k]
  BY DEF Effect

LEMMA EffectLeaves ==
    ASSUME NEW c, NEW f, NEW k \in Keys, k \notin DOMAIN Written[c]
    PROVE  Effect(c, f)[k] = f[k]
  BY DEF Effect

LEMMA EffectWrites ==
    ASSUME NEW c, NEW f, NEW g, NEW k \in Keys, k \in DOMAIN Written[c]
    PROVE  Effect(c, f)[k] = Effect(c, g)[k]
  BY DEF Effect

\* A call that was acknowledged: what it changed was written to both copies,
\* or the whole of memory was.
LEMMA WriteKeepsInv ==
    ASSUME NEW c \in Calls, Inv, Write(c)
    PROVE  Inv'
  <1>1. CASE /\ log = "whole"
             /\ durable' = Effect(c, durable)
             /\ acked' = acked \cup Changed
    <2>1. acked' \subseteq Keys
      BY <1>1 DEF Inv, Changed
    <2>2. ASSUME NEW k \in acked'
          PROVE  durable'[k] = live'[k]
      <3>1. k \in Keys
        BY <2>1
      <3>2. CASE k \in DOMAIN Written[c]
        BY <1>1, <3>1, <3>2, EffectWrites DEF Write
      <3>3. CASE k \notin DOMAIN Written[c]
        <4>1. live'[k] = live[k] /\ durable'[k] = durable[k]
          BY <1>1, <3>1, <3>3, EffectLeaves DEF Write
        <4>2. k \in acked
          BY <1>1, <4>1 DEF Changed
        <4>. QED
          BY <4>1, <4>2 DEF Inv, AckedIsDurable
      <3>. QED
        BY <3>2, <3>3
    <2>. QED
      BY <2>1, <2>2 DEF Inv, AckedIsDurable
  <1>2. CASE durable' = durable /\ acked' = acked \ Changed
    BY <1>2 DEF Inv, AckedIsDurable, Changed
  <1>3. CASE durable' = live' /\ acked' = Keys
    BY <1>3 DEF Inv, AckedIsDurable
  <1>. QED
    BY <1>1, <1>2, <1>3 DEF Write

\* Every other step leaves an acknowledged register alone, in memory and in
\* the files, or makes the two copies equal.
LEMMA StepKeepsInv ==
    ASSUME Inv, [StoreNext]_store
    PROVE  Inv'
  <1>1. ASSUME NEW c \in Calls, Write(c)
        PROVE  Inv'
    BY <1>1, WriteKeepsInv
  <1>2. ASSUME NEW c \in Calls, Unacknowledged(c)
        PROVE  Inv'
    <2>1. acked' \subseteq acked
      BY <1>2 DEF Unacknowledged
    <2>2. ASSUME NEW k \in acked'
          PROVE  durable'[k] = live'[k]
      <3>1. k \in Keys /\ durable[k] = live[k]
        BY <2>1 DEF Inv, AckedIsDurable
      <3>2. live'[k] = live[k]
        BY <1>2, <3>1 DEF Unacknowledged, Changed
      <3>3. durable'[k] \in {durable[k], live'[k]}
        BY <1>2, <3>1 DEF Unacknowledged
      <3>. QED
        BY <3>1, <3>2, <3>3
    <2>. QED
      BY <2>1, <2>2 DEF Inv, AckedIsDurable
  <1>3. CASE Slip
    BY <1>3 DEF Slip, Inv, AckedIsDurable, Changed
  <1>4. CASE Checkpoint
    BY <1>4 DEF Checkpoint, Inv, AckedIsDurable
  <1>5. CASE HalfCheckpoint
    <2>1. ASSUME NEW k \in acked
          PROVE  durable'[k] = live[k]
      BY <1>5, <2>1 DEF HalfCheckpoint, Inv, AckedIsDurable
    <2>. QED
      BY <1>5, <2>1 DEF HalfCheckpoint, Inv, AckedIsDurable
  <1>6. CASE Crash
    BY <1>6 DEF Crash, Inv, AckedIsDurable
  <1>7. CASE Reopen
    BY <1>7 DEF Reopen, Inv, AckedIsDurable
  <1>8. CASE Refuse
    BY <1>8 DEF Refuse, Inv, AckedIsDurable
  <1>9. CASE UNCHANGED store
    BY <1>9 DEF store, Inv, AckedIsDurable
  <1>. QED
    BY <1>1, <1>2, <1>3, <1>4, <1>5, <1>6, <1>7, <1>8, <1>9 DEF StoreNext

\* What a call acknowledged is durable: memory and files agree on it, through
\* failed appends, half checkpoints, changes behind the log and restarts.
THEOREM AckedStaysDurable == StoreSpec => []AckedIsDurable
  <1>1. StoreInit => Inv
    BY DEF StoreInit, Inv, AckedIsDurable
  <1>2. Inv => AckedIsDurable
    BY DEF Inv
  <1>. QED
    BY <1>1, <1>2, StepKeepsInv, PTL DEF StoreSpec

\* Once refused, the log is broken, and stays so.
LEMMA RefusedIsBroken ==
    ASSUME up = "refused" => log = "broken", [StoreNext]_store
    PROVE  up' = "refused" => log' = "broken"
  BY DEF StoreNext, Write, Unacknowledged, Slip, Checkpoint, HalfCheckpoint, Crash, Reopen, Refuse, store

\* A restart that succeeds gives back what was acknowledged, after a stop at any
\* point of checkpoint or a cut append that can still be read, and one is refused
\* only after a cut append (append_wal, read_wal, load).
THEOREM RestartGivesBack == StoreSpec => AcknowledgedSurvives
  <1> DEFINE Kept == up' = "up" /\ up # "up" => \A k \in acked : live'[k] = live[k]
  <1> DEFINE Closed == up = "refused" => log = "broken"
  <1> DEFINE Whole == up = "refused" => log # "whole"
  <1>1. StoreInit => Inv /\ Closed
    BY DEF StoreInit, Inv, AckedIsDurable
  <1>2. Inv /\ [StoreNext]_store => [Kept]_store
    <2> SUFFICES ASSUME Inv, [StoreNext]_store PROVE [Kept]_store
      OBVIOUS
    <2>1. CASE Reopen
      BY <2>1 DEF Reopen, Inv, AckedIsDurable
    <2>2. CASE UNCHANGED store
      BY <2>2
    <2>3. CASE StoreNext /\ ~Reopen
      BY <2>3 DEF StoreNext, Write, Unacknowledged, Slip, Checkpoint, HalfCheckpoint, Crash, Refuse
    <2>. QED
      BY <2>1, <2>2, <2>3
  <1>3. Closed /\ [StoreNext]_store => Closed'
    BY RefusedIsBroken
  <1>4. Inv /\ [StoreNext]_store => Inv'
    BY StepKeepsInv
  <1>5. Closed => Whole
    OBVIOUS
  <1>6. StoreSpec => [][Kept]_store /\ []Whole
    <2> HIDE DEF Kept, Closed, Whole
    <2> QED
      BY <1>1, <1>2, <1>3, <1>4, <1>5, PTL DEF StoreSpec
  <1>. QED
    BY <1>6 DEF AcknowledgedSurvives
=============================================================================
