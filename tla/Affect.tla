--------------------------------- MODULE Affect ---------------------------------
(***************************************************************************)
(* Steve's affect (ferricula-cognition emotion.rs): eight scores that      *)
(* stimuli move, the label they resolve to, and the classes of model the   *)
(* label asks for under the pressure of the budget.                        *)
(*                                                                         *)
(* A score of 1.0 is 1000.  The stimuli are those the runtime applies      *)
(* (runtime.rs), and the failures, friction, pressure and decay it could:  *)
(* nothing in the repository applies a decay outside tests, so a mood need *)
(* not pass.  The smoothed body state and the wording are left out.        *)
(***************************************************************************)
EXTENDS Integers, SequencesExt

CONSTANTS
    Moods               \* per behaviour: stimuli left, pressures, decay

ASSUME MoodAssumption == \A m \in Moods : m.stimuli \in Nat /\ m.decays \in BOOLEAN

VARIABLES
    scores,             \* emotion -> score
    label,              \* one emotion, or the two of a dyad
    pressure,           \* spent share of the budget, in percent
    mood                \* bounds

affectVars == <<scores, label, pressure, mood>>

\* BaseEmotion::ALL; ties go to the earlier one.
ALL == <<"joy", "trust", "fear", "surprise", "sadness", "boredom", "anger", "interest">>
Emotions == ToSet(ALL)
Baseline == "interest"

\* Dyad::components
Dyads ==
    {{"joy", "trust"}, {"joy", "interest"}, {"joy", "surprise"}, {"trust", "fear"},
     {"trust", "anger"}, {"fear", "surprise"}, {"sadness", "interest"}, {"sadness", "surprise"},
     {"boredom", "sadness"}, {"anger", "interest"}, {"anger", "surprise"}, {"interest", "surprise"}}

-----------------------------------------------------------------------------
\* clamp_scores
Within(x) == IF x < 0 THEN 0 ELSE IF x > 1500 THEN 1500 ELSE x

\* What a stimulus adds to each score; the strength is one the runtime uses.
Moves(stimulus) ==
    CASE stimulus = "idle" -> [boredom |-> 80]
      [] stimulus = "idle_long" -> [boredom |-> 370, interest |-> -40, sadness |-> 30]
      [] stimulus = "mention" -> [surprise |-> 260, interest |-> 205, fear |-> 35, boredom |-> -100]
      [] stimulus = "succeeded" -> [joy |-> 180, interest |-> 24, trust |-> 50, anger |-> -60, fear |-> -40]
      [] stimulus = "failed" -> [anger |-> 270, sadness |-> 180, surprise |-> 50, joy |-> -80]
      [] stimulus = "friction" -> [anger |-> 300, sadness |-> 80, surprise |-> 60, trust |-> -100]
      [] stimulus = "novelty" -> [interest |-> 200, surprise |-> 160, boredom |-> -48]
      [] stimulus = "reflection" ->
            [sadness |-> 40, interest |-> 60, trust |-> 30, anger |-> -40, surprise |-> -30]
      [] OTHER -> [fear |-> 30, interest |-> -20]

Stimuli == {"idle", "idle_long", "mention", "succeeded", "failed", "friction", "novelty", "reflection"}

Moved(s, stimulus) ==
    LET by == Moves(stimulus)
    IN  [e \in Emotions |-> IF e \in DOMAIN by THEN Within(s[e] + by[e]) ELSE s[e]]

\* decay_once
Decayed(s) ==
    [e \in Emotions |-> (88 * s[e] + 12 * (IF e = Baseline THEN 450 ELSE 80)) \div 100]

Times(n, s) ==
    LET after[k \in 0 .. n] == IF k = 0 THEN s ELSE Decayed(after[k - 1])
    IN  after[n]

\* The emotion that comes first by score, the earlier one of equals.
Foremost(s, among) ==
    ALL[CHOOSE k \in 1..8 : /\ ALL[k] \in among
                            /\ \A j \in 1..8 : ALL[j] \in among =>
                                s[ALL[j]] < s[ALL[k]] \/ (s[ALL[j]] = s[ALL[k]] /\ k <= j)]

\* resolve_label_and_intensity
Resolved(s) ==
    LET top == Foremost(s, Emotions)
        second == Foremost(s, Emotions \ {top})
    IN  IF 100 * s[second] >= 72 * s[top] /\ {top, second} \in Dyads THEN {top, second} ELSE {top}

-----------------------------------------------------------------------------
\* model_demand_for
Preferred(l) ==
    CASE l \in {{"joy"}, {"joy", "surprise"}, {"sadness", "surprise"}} -> <<"Standard", "Cheap">>
      [] l \in {{"trust"}, {"interest"}, {"trust", "fear"}} -> <<"Broad", "Standard">>
      [] l = {"fear"} -> <<"Fast", "Lite", "Cheap">>
      [] l \in {{"surprise"}, {"anger"}, {"anger", "surprise"}} -> <<"Fast", "Lite">>
      [] l \in {{"sadness"}, {"joy", "trust"}, {"joy", "interest"}, {"trust", "anger"},
                {"fear", "surprise"}} -> <<"Frontier", "Deep">>
      [] l = {"boredom"} -> <<"Lite", "Fast", "Local">>
      [] l = {"sadness", "interest"} -> <<"Deep", "Standard">>
      [] l = {"boredom", "sadness"} -> <<"Deep", "Local">>
      [] l = {"anger", "interest"} -> <<"Standard", "Fast">>
      [] OTHER -> <<"Broad", "Fast">>

Without(classes, dropped) ==
    LET kept[k \in 0 .. Len(classes)] ==
            IF k = 0 THEN <<>>
            ELSE IF classes[k] \in dropped THEN kept[k - 1] ELSE Append(kept[k - 1], classes[k])
    IN  kept[Len(classes)]
OrElse(classes, default) == IF classes = <<>> THEN default ELSE classes

\* demote_for_budget
Demoted(classes, p) ==
    IF p < 50 THEN classes
    ELSE IF p < 75 THEN OrElse(Without(classes, {"Frontier"}), <<"Standard", "Deep">>)
    ELSE IF p >= 90 THEN <<"Local", "Cheap", "Lite">>
    ELSE LET kept == OrElse(Without(classes, {"Frontier", "Deep"}), <<"Lite", "Cheap">>)
         IN  IF Contains(kept, "Cheap") THEN kept ELSE Append(kept, "Cheap")

ModelDemand == Demoted(Preferred(label), pressure)

-----------------------------------------------------------------------------
\* apply: whatever the stimulus, the label is resolved anew.
Stimulus(stimulus) ==
    /\ mood.stimuli > 0
    /\ mood' = [mood EXCEPT !.stimuli = @ - 1]
    /\ scores' = Moved(scores, stimulus)
    /\ label' = Resolved(scores')
    /\ UNCHANGED pressure

BudgetPressure(p) ==
    /\ mood.stimuli > 0 /\ p \in mood.pressures
    /\ mood' = [mood EXCEPT !.stimuli = @ - 1]
    /\ pressure' = p
    /\ scores' = IF p >= 75 THEN Moved(scores, "pressure") ELSE scores
    /\ label' = Resolved(scores')

Decay(steps) ==
    /\ mood.stimuli > 0 /\ mood.decays
    /\ mood' = [mood EXCEPT !.stimuli = @ - 1]
    /\ scores' = Times(steps, scores)
    /\ label' = Resolved(scores')
    /\ UNCHANGED pressure

AffectInit ==
    /\ mood \in Moods
    /\ scores = [e \in Emotions |-> IF e = Baseline THEN 550 ELSE 50]
    /\ label = {Baseline}
    /\ pressure = 0

AffectNext ==
    \/ \E s \in Stimuli : Stimulus(s)
    \/ \E p \in {0, 50, 75, 90} : BudgetPressure(p)
    \/ Decay(8)

AffectSpec == AffectInit /\ [][AffectNext]_affectVars

-----------------------------------------------------------------------------
AffectTypeOK ==
    /\ \A e \in Emotions : scores[e] \in 0..1500
    /\ label \in Dyads \union {{e} : e \in Emotions}

\* The label is never stale: it holds the emotion that stands out now, and a
\* second one only when that is within reach of it.
LabelIsJustified ==
    /\ \E e \in label : \A f \in Emotions : scores[f] <= scores[e]
    /\ \A e \in label, f \in Emotions : 100 * scores[e] >= 72 * scores[f]

\* Whatever the mood asks for, the budget has the last word, and some class
\* of model is always left.
DemandFitsTheBudget ==
    /\ ModelDemand # <<>>
    /\ pressure >= 50 => ~Contains(ModelDemand, "Frontier")
    /\ pressure >= 75 => ~Contains(ModelDemand, "Deep") /\ Contains(ModelDemand, "Cheap")
    /\ pressure >= 90 => Head(ModelDemand) = "Local"
=============================================================================
