------------------------------ MODULE MCState ------------------------------
(***************************************************************************)
(* The three durable states of the server for TLC: the autonomy machine,    *)
(* the overlay log and the episode projection.  They share nothing, so a    *)
(* behaviour runs one of them, chosen in Init, and the others rest.         *)
(*                                                                         *)
(* On the overlay, callers work on one base memory and on a proposal that   *)
(* comes first in the chain; a dream and an edge join the two.  Another     *)
(* edge leads to a second base memory, so that the events of an edge need   *)
(* no proposal before them.                                                *)
(***************************************************************************)
EXTENDS Autonomy, OverlayLog, Episodes, TLC

CONSTANTS b1, b2

MCClaims == {0, 1, 3}

MCRequests ==
    {p \in Payloads :
        \/ Mentioned(p) \subseteq {b1, 1} /\ p.kind # "note" /\ (p.kind = "edge" => p.action = "add")
        \/ p.kind = "edge" /\ p.from = b1 /\ p.to = b2}

EpisodeSymmetry == {p @@ q : p \in Permutations(Reports), q \in Permutations(Hypotheses)}

VARIABLE busy   \* the one of the three that runs

Init ==
    /\ busy \in {"autonomy", "overlay", "episodes"}
    /\ AutonomyInit
    /\ OverlayInit
    /\ EpisodesInit

\* Appends are spelled out for TLC, which then evaluates Requests only once;
\* the clock may move on when half the log is written.
Next ==
    \/ busy = "autonomy" /\ AutonomyNext /\ UNCHANGED <<busy, overlayVars, episodesVars>>
    \/ \E p \in Requests, t \in 0..MaxTime :
        /\ busy = "overlay" /\ (t > 0 => 2 * Len(events) >= MaxEvents)
        /\ AppendEvent(p, t)
        /\ UNCHANGED <<busy, autonomyVars, episodesVars>>
    \/ busy = "overlay" /\ (Save \/ OverlayRestart) /\ UNCHANGED <<busy, autonomyVars, episodesVars>>
    \/ busy = "episodes" /\ EpisodesNext /\ UNCHANGED <<busy, autonomyVars, overlayVars>>

Spec == Init /\ [][Next]_<<busy, autonomyVars, overlayVars, episodesVars>>
=============================================================================
