------------------------------ MODULE Episodes ------------------------------
(***************************************************************************)
(* The episode projection (ferricula-episode/src/adapter.rs and            *)
(* projection.rs): observations, hypotheses that explain them, links, and  *)
(* the evidence-gated changes of a hypothesis's status.                    *)
(*                                                                         *)
(* One action per kind of item.  A commit validates the item, appends it   *)
(* to a copy of the log, folds it into a copy of the projection, saves the *)
(* log and only then publishes both, under the adapter's mutex: it happens *)
(* as a whole or, when any of these refuses, not at all.  The log is not   *)
(* kept here, since a reopened adapter folds the same events in the same   *)
(* order by the same function; its cap and its clock are OverlayLog's.     *)
(*                                                                         *)
(* An event is identified by the id of its item, which the adapter keeps   *)
(* unique.  Of a relation only its power to authorize evidence is kept, of *)
(* an observation its flag and whether its search can settle anything.     *)
(***************************************************************************)
EXTENDS Naturals, FiniteSets

CONSTANTS
    Reports,       \* report ids
    Hypotheses,    \* hypothesis ids
    Goals,         \* goal ids
    NoHypothesis,  \* superseding_id = None
    MaxLinks,      \* a bound on the links, for TLC
    MaxCited       \* a bound on the references of a proposal, for TLC

ASSUME EpisodesAssumption ==
    /\ MaxLinks \in Nat
    /\ MaxCited \in Nat
    /\ NoHypothesis \notin Hypotheses
    /\ Reports \cap Hypotheses = {}

Statuses == {"Candidate", "Supported", "Disconfirmed", "Superseded"}

\* conclusive: no scoped search, or one that found something.
Observations == [flagged : BOOLEAN, conclusive : BOOLEAN]

StoredHypotheses ==
    [target : Reports, status : Statuses, support : SUBSET Reports,
     against : SUBSET Reports, by : Hypotheses \cup {NoHypothesis}]

VARIABLES
    observations,  \* report id -> what it reports
    goals,         \* ids of recorded goals
    hypotheses,    \* hypothesis id -> StoredHypothesis
    links,         \* <<from, to>> joined by a relation that authorizes evidence
    unresolved     \* unresolved_episodes

episodesVars == <<observations, goals, hypotheses, links, unresolved>>

Put(f, x, v) == [y \in DOMAIN f \cup {x} |-> IF y = x THEN v ELSE f[y]]

Entities == DOMAIN observations \cup goals \cup DOMAIN hypotheses

EpisodesInit ==
    /\ observations = [r \in {} |-> 0]
    /\ goals = {}
    /\ hypotheses = [h \in {} |-> 0]
    /\ links = {}
    /\ unresolved = {}

-----------------------------------------------------------------------------
(* What counts as evidence, and when an episode is open                    *)

\* evidence_has_authorizing_link: some authorizing link joins r to the
\* hypothesis or to the episode it explains, in either direction.
Authorized(h, r) ==
    \E x \in {h, hypotheses[h].target} \ {r} : <<x, r>> \in links \/ <<r, x>> \in links

\* An observation that can move h: not the report it explains.
Independent(h, r) ==
    /\ r # hypotheses[h].target
    /\ observations[r].conclusive
    /\ Authorized(h, r)

\* Mutant: one reference that exists is enough.
CorroboratesUnchecked(h, ev) == ev # {} /\ ev \subseteq DOMAIN observations

\* The transition's evidence_refs, which must hold one independent report.
Corroborates(h, ev) ==
    /\ ev \subseteq DOMAIN observations
    /\ \E r \in ev : Independent(h, r)

HasHypothesis(hs, r, s) == \E h \in DOMAIN hs : hs[h].target = r /\ hs[h].status = s

StaysUnresolved(hs, r) ==
    \/ HasHypothesis(hs, r, "Candidate")
    \/ observations[r].flagged /\ ~HasHypothesis(hs, r, "Supported")

\* Mutant: the registry is not touched while the observation keeps its flag.
RecomputedUnlessFlagged(hs, r) ==
    IF StaysUnresolved(hs, r) \/ observations[r].flagged
    THEN unresolved \cup {r} ELSE unresolved \ {r}

\* recompute_episode_resolution, with the hypotheses as they are after the step.
Recomputed(hs, r) ==
    IF StaysUnresolved(hs, r) THEN unresolved \cup {r} ELSE unresolved \ {r}

-----------------------------------------------------------------------------

CommitObservation(r, o) ==
    /\ r \notin DOMAIN observations
    /\ observations' = Put(observations, r, o)
    /\ unresolved' = IF o.flagged THEN unresolved \cup {r} ELSE unresolved
    /\ UNCHANGED <<goals, hypotheses, links>>

CommitGoal(g) ==
    /\ g \notin goals
    /\ goals' = goals \cup {g}
    /\ UNCHANGED <<observations, hypotheses, links, unresolved>>

CommitHypothesis(h, r, support, against) ==
    /\ h \notin DOMAIN hypotheses
    /\ r \in DOMAIN observations
    /\ support \cup against \subseteq DOMAIN observations
    /\ hypotheses' = Put(hypotheses, h,
          [target |-> r, status |-> "Candidate", support |-> support,
           against |-> against, by |-> NoHypothesis])
    /\ unresolved' = unresolved \cup {r}
    /\ UNCHANGED <<observations, goals, links>>

\* A link with a relation that authorizes evidence; all of those are
\* directed.  A link that is there already, or one with another relation,
\* leaves this state as it is.
CommitLink(x, y) ==
    /\ {x, y} \subseteq Entities
    /\ links' = links \cup {<<x, y>>}
    /\ UNCHANGED <<observations, goals, hypotheses, unresolved>>

\* A status transition that sets hypothesis h to v.
Moved(h, v) ==
    LET hs == [hypotheses EXCEPT ![h] = v]
    IN  /\ hypotheses' = hs
        /\ unresolved' = Recomputed(hs, hypotheses[h].target)
        /\ UNCHANGED <<observations, goals, links>>

\* Mutant: the status is only ever compared with the new one.
SupportUnlessSupported(h, ev) ==
    /\ h \in DOMAIN hypotheses /\ Corroborates(h, ev)
    /\ hypotheses[h].status # "Supported"
    /\ Moved(h, [hypotheses[h] EXCEPT !.status = "Supported", !.support = @ \cup ev])

Support(h, ev) ==
    /\ h \in DOMAIN hypotheses /\ Corroborates(h, ev)
    /\ hypotheses[h].status = "Candidate"
    /\ Moved(h, [hypotheses[h] EXCEPT !.status = "Supported", !.support = @ \cup ev])

Disconfirm(h, ev) ==
    /\ h \in DOMAIN hypotheses /\ Corroborates(h, ev)
    /\ hypotheses[h].status # "Disconfirmed"
    /\ Moved(h, [hypotheses[h] EXCEPT !.status = "Disconfirmed", !.against = @ \cup ev])

Supersede(h, by, ev) ==
    /\ h \in DOMAIN hypotheses /\ Corroborates(h, ev)
    /\ by # h /\ by \in DOMAIN hypotheses
    /\ Moved(h, [hypotheses[h] EXCEPT !.status = "Superseded", !.by = by])

EpisodesNext ==
    \/ \E r \in Reports, o \in Observations : CommitObservation(r, o)
    \/ \E g \in Goals : CommitGoal(g)
    \/ \E h \in Hypotheses, r \in Reports, s, a \in SUBSET Reports :
          Cardinality(s) + Cardinality(a) <= MaxCited /\ CommitHypothesis(h, r, s, a)
    \/ \E x, y \in Reports \cup Goals \cup Hypotheses :
          (<<x, y>> \in links \/ Cardinality(links) < MaxLinks) /\ CommitLink(x, y)
    \/ \E h \in Hypotheses, ev \in SUBSET Reports :
          \/ Support(h, ev)
          \/ Disconfirm(h, ev)
          \/ \E by \in Hypotheses : Supersede(h, by, ev)

EpisodesSpec == EpisodesInit /\ [][EpisodesNext]_episodesVars

-----------------------------------------------------------------------------
(* Properties                                                              *)

(* The projection's maps hold entries of their types. *)
EpisodesTypeOK ==
    /\ DOMAIN observations \subseteq Reports
    /\ \A r \in DOMAIN observations : observations[r] \in Observations
    /\ goals \subseteq Goals
    /\ DOMAIN hypotheses \subseteq Hypotheses
    /\ \A h \in DOMAIN hypotheses :
          /\ hypotheses[h] \in StoredHypotheses
          /\ {hypotheses[h].target} \cup hypotheses[h].support \cup hypotheses[h].against
                \subseteq DOMAIN observations
    /\ links \subseteq Entities \X Entities
    /\ unresolved \subseteq DOMAIN observations

(* A verdict keeps its grounds: a supported hypothesis has among its       *)
(* supporting references, a disconfirmed one among those against it, an    *)
(* observation other than the one it explains, that settles something, and *)
(* that an authorizing link joins to the hypothesis or to its episode.     *)
VerdictsRestOnEvidence ==
    \A h \in DOMAIN hypotheses :
        /\ hypotheses[h].status = "Supported" =>
              \E r \in hypotheses[h].support : Independent(h, r)
        /\ hypotheses[h].status = "Disconfirmed" =>
              \E r \in hypotheses[h].against : Independent(h, r)

(* The registry of unresolved episodes is kept by separate updates at      *)
(* three kinds of commit, and recomputed for one episode only.  It always  *)
(* is what the hypotheses as a whole say: an episode is in it exactly when *)
(* one of its hypotheses is still a candidate, or when it was reported as  *)
(* unresolved and none of them is supported.                               *)
RegistryIsExact ==
    unresolved = {r \in DOMAIN observations : StaysUnresolved(hypotheses, r)}

(* A verdict is not taken back: a hypothesis never becomes a candidate     *)
(* again, and one that was disconfirmed or superseded is never supported.  *)
VerdictsAreNotTakenBack ==
    [][\A h \in DOMAIN hypotheses :
          /\ h \in DOMAIN hypotheses'
          /\ hypotheses[h].status # "Candidate" => hypotheses'[h].status # "Candidate"
          /\ hypotheses[h].status \in {"Disconfirmed", "Superseded"} =>
                hypotheses'[h].status # "Supported"]_hypotheses

=============================================================================
