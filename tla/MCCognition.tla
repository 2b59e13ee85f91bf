------------------------------ MODULE MCCognition ------------------------------
EXTENDS Bhavana, DriftMonitors, Affect, Curation
MCSimilar == {{1, 2}, {1, 3}, {1, 4}, {2, 3}}
MCOrders == {<<1, 2, 3, 4>>, <<2, 4, 3, 1>>}
Asleep == [nights |-> FALSE, known |-> {}, anchors |-> {}, learn |-> {}, decide |-> {}, tie |-> {}, reloads |-> 0, sink |-> 0, refusals |-> 0, verdicts |-> {"same"}]
MCNights ==
    {[Asleep EXCEPT !.nights = TRUE, !.known = {1, 2, 3}, !.learn = {4}, !.decide = {2}, !.tie = {{1, 3}}],
     [Asleep EXCEPT !.nights = TRUE, !.known = 1..4, !.sink = 1, !.refusals = 1,
                    !.verdicts = {"same", "abstained"}],
     [Asleep EXCEPT !.nights = TRUE, !.known = {1, 3, 4}, !.anchors = {3}, !.reloads = 1, !.decide = {3}]}

Silent == [slots |-> 0, refusals |-> 0, rests |-> FALSE]

MCRecalls == {[Silent EXCEPT !.slots = 1], [Silent EXCEPT !.slots = 2, !.refusals = 1]}

MCAllNights == MCNights \union {Asleep}
MCAllRecalls == MCRecalls \union {Silent}

Serene == [stimuli |-> 0, pressures |-> {}, decays |-> FALSE]

MCMoods == {Serene, [Serene EXCEPT !.stimuli = 3, !.decays = TRUE],
            [Serene EXCEPT !.stimuli = 3, !.pressures = {50, 75, 90}]}

MCTerms(id) == CASE id = 1 -> {"a", "b"} [] id = 2 -> {"b", "c"} [] OTHER -> {"a", "b", "c"}

Dreamless == [nights |-> 0, toggles |-> 0, learn |-> {}, known |-> {}]

MCDreams == {Dreamless, [nights |-> 6, toggles |-> 3, learn |-> {3}, known |-> {1, 2}]}

Shape == [id |-> 1, agent |-> "steve", text |-> "x", state |-> "Active", pool |-> "Success",
          sealed |-> FALSE, finite |-> TRUE, score |-> 1, gate |-> [says |-> "none", p |-> 0]]
MCShapes ==
    {Shape, [Shape EXCEPT !.sealed = TRUE], [Shape EXCEPT !.state = "Forgiven"],
     [Shape EXCEPT !.id = 2, !.score = 2], [Shape EXCEPT !.id = 2, !.agent = "other"],
     [Shape EXCEPT !.id = 2, !.pool = "Failure", !.text = "y"],
     [Shape EXCEPT !.id = 3, !.finite = FALSE],
     [Shape EXCEPT !.id = 3, !.gate = [says |-> "answer", p |-> 1]],
     [Shape EXCEPT !.id = 3, !.score = 3, !.gate.says = "abstain"]}
Sound(id, score, p) ==
    [Shape EXCEPT !.id = id, !.score = score, !.gate.says = IF p > 0 THEN "answer" ELSE "none", !.gate.p = p]
MCCandidates ==
    [1..2 -> MCShapes]
    \union {<<Sound(1, 3, 0), Sound(2, 1, a), Sound(3, 2, b)>> : a, b \in 0..2}

Nothing == [agent |-> "steve", k |-> 1, failures |-> FALSE, candidates |-> <<>>]
MCRequests ==
    {Nothing} \union
    {[Nothing EXCEPT !.k = k, !.failures = f, !.candidates = cs] :
        k \in 1..2, f \in {FALSE}, cs \in MCCandidates}

Resting == <<left = Asleep, agent = Silent, mood = Serene, dreams = Dreamless, request = Nothing>>

\* One of the components is busy.
MCInit ==
    /\ NightInit /\ SatiInit /\ AffectInit /\ TermInit /\ CurationInit
    /\ \E busy \in 1..5 : \A k \in (1..5) \ {busy} : Resting[k]

MCNext ==
    \/ NightNext /\ UNCHANGED <<satiVars, affectVars, termVars, curationVars>>
    \/ SatiNext /\ UNCHANGED <<nightVars, affectVars, termVars, curationVars>>
    \/ AffectNext /\ UNCHANGED <<nightVars, satiVars, termVars, curationVars>>
    \/ TermNext /\ UNCHANGED <<nightVars, satiVars, affectVars, curationVars>>
    \/ CurationNext /\ UNCHANGED <<nightVars, satiVars, affectVars, termVars>>

MCSpec ==
    /\ MCInit /\ [][MCNext]_<<nightVars, satiVars, affectVars, termVars, curationVars>>
    /\ NightFairness

\* Over many nights: anchors and links stay, and what faded is proposed;
\* over many recalls damping needs a streak and drift ends.
CognitionGoesOn ==
    /\ DampedByAStreak
    /\ DriftEnds
    /\ AnchorsStayApart
    /\ LinksSurvive
    /\ FadedIsProposed

\* Drift is bounded by what is under way and measured on what really came
\* last; the mood that is shown, and the model it asks for, are justified by
\* the scores and the budget.
MeasuresAreTrue ==
    /\ SatiTypeOK
    /\ ChainIsBounded
    /\ HarnessAgrees
    /\ RingHoldsTheLatest
    /\ RateIsOfTheLastTwo
    /\ AffectTypeOK
    /\ LabelIsJustified
    /\ DemandFitsTheBudget
================================================================================
