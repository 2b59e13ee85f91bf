-------------------------------- MODULE Curation --------------------------------
(***************************************************************************)
(* A briefing at recall (ferricula-cognition curator.rs and gates.rs,      *)
(* ferricula-server curation.rs): candidates are selected for a request,   *)
(* the selection is verified against the request before its text is put    *)
(* into a prompt and again before the answer becomes a briefing.           *)
(*                                                                         *)
(* The request and the members of a selection are public, so both may      *)
(* change between the steps.  Scores are numbers: retrieval score times    *)
(* fidelity, and the gate's probability times fidelity.  Wording, masking, *)
(* sizes and labels are left out.                                          *)
(***************************************************************************)
EXTENDS Naturals, SequencesExt

CONSTANTS
    Shapes,             \* candidate memories
    Requests,           \* requests a briefing may be asked for
    KMax                \* K_MAX

\* RawMemory and CurationRequest, as far as a curation reads them.
RawMemories ==
    [id : Nat, agent : STRING, text : STRING, state : STRING, pool : STRING, sealed : BOOLEAN,
     finite : BOOLEAN, score : Nat, gate : [says : STRING, p : Nat]]
CurationRequests ==
    [agent : STRING, k : Nat, failures : BOOLEAN, candidates : Seq(RawMemories)]

ASSUME CurationAssumption == Shapes \subseteq RawMemories /\ Requests \subseteq CurationRequests

VARIABLES
    request,            \* CurationRequest
    selection,          \* Selection: agent, digest, chosen, excluded
    prompt,             \* what the model was given, and for which request
    briefing,           \* what the agent is given
    stage,              \* where the briefing is
    edits               \* bound: changes from outside

curationVars == <<request, selection, prompt, briefing, stage, edits>>

\* RawMemory::digest: the scores and the gate's verdict are not in it.
Digest(m) == [id |-> m.id, agent |-> m.agent, text |-> m.text, state |-> m.state,
              pool |-> m.pool, sealed |-> m.sealed]
RequestDigest(r) ==
    [agent |-> r.agent, k |-> r.k, failures |-> r.failures,
     candidates |-> [i \in DOMAIN r.candidates |-> Digest(r.candidates[i])]]

SameAgent(r, ms) == \A i \in DOMAIN ms : ms[i].agent = r.agent
ValidK(r) == r.k \in 1..KMax

\* ineligible
Eligible(m, r) ==
    /\ ~m.sealed /\ m.state = "Active" /\ m.finite
    /\ m.pool = "Failure" => r.failures

\* Judged::answer: a gate that abstained, or saw a truncated state, or is out
\* of range, has said nothing.
Gated(m) == m.gate.says = "answer"

\* The gated tier before the other, then score, then id.
Ahead(a, b) ==
    IF Gated(a) # Gated(b) THEN Gated(a)
    ELSE LET score(m) == IF Gated(m) THEN m.gate.p ELSE m.score
         IN score(a) > score(b) \/ (score(a) = score(b) /\ a.id < b.id)

\* The first candidate with an id decides for it.
First(r, i) == \A j \in 1..(i - 1) : r.candidates[j].id # r.candidates[i].id
Ranked(r) ==
    LET entering == {i \in DOMAIN r.candidates : First(r, i) /\ Eligible(r.candidates[i], r)}
        Rank(i) == Cardinality({j \in entering : Ahead(r.candidates[j], r.candidates[i])})
    IN  [n \in 1..Cardinality(entering) |->
            r.candidates[CHOOSE i \in entering : Rank(i) = n - 1]]

Chosen(r) == SubSeq(Ranked(r), 1, IF r.k < Len(Ranked(r)) THEN r.k ELSE Len(Ranked(r)))

-----------------------------------------------------------------------------
NoDuplicates(ms) == \A i, j \in DOMAIN ms : ms[i].id = ms[j].id => i = j
SourceOf(m, r) ==
    LET at == {i \in DOMAIN r.candidates : r.candidates[i].id = m.id}
    IN  {r.candidates[i] : i \in {j \in at : \A k \in at : j <= k}}

\* Mutant: members are looked at one by one, the request as a whole is not.
VerifiedByMember(s, r) ==
    /\ s.agent = r.agent /\ SameAgent(r, s.chosen)
    /\ ValidK(r) /\ Len(s.chosen) <= r.k /\ NoDuplicates(s.chosen)
    /\ \A i \in DOMAIN s.chosen :
        /\ {Digest(m) : m \in SourceOf(s.chosen[i], r)} = {Digest(s.chosen[i])}
        /\ Eligible(s.chosen[i], r)

\* Selection::verify
Verified(s, r) ==
    /\ s.agent = r.agent /\ SameAgent(r, s.chosen)
    /\ ValidK(r) /\ Len(s.chosen) <= r.k /\ NoDuplicates(s.chosen)
    /\ \A i \in DOMAIN s.chosen :
        /\ {Digest(m) : m \in SourceOf(s.chosen[i], r)} = {Digest(s.chosen[i])}
        /\ Eligible(s.chosen[i], r)
    /\ s.digest = RequestDigest(r)

-----------------------------------------------------------------------------
Fail == stage' = "failed" /\ UNCHANGED <<prompt, briefing>>

\* curate_with_router: an empty selection asks no model.
Select ==
    /\ stage = "asked"
    /\ IF SameAgent(request, request.candidates) /\ ValidK(request)
       THEN /\ selection' = [agent |-> request.agent, digest |-> RequestDigest(request), chosen |-> Chosen(request)]
            /\ stage' = "selected"
       ELSE stage' = "failed" /\ UNCHANGED selection
    /\ UNCHANGED <<request, prompt, briefing, edits>>

Extract ==
    /\ stage = "selected" /\ selection.chosen = <<>>
    /\ IF Verified(selection, request)
       THEN briefing' = <<>> /\ stage' = "briefed" /\ UNCHANGED prompt
       ELSE Fail
    /\ UNCHANGED <<request, selection, edits>>

\* build_prompt
BuildPrompt ==
    /\ stage = "selected" /\ selection.chosen # <<>>
    /\ IF Verified(selection, request)
       THEN /\ prompt' = [of |-> request, texts |-> selection.chosen]
            /\ stage' = "prompted" /\ UNCHANGED briefing
       ELSE Fail
    /\ UNCHANGED <<request, selection, edits>>

\* The call, and parse_generative_response: no model, an answer that is too
\* long, truncated or empty, or one that is used.
Answer(usable) ==
    /\ stage = "prompted"
    /\ IF usable /\ Verified(selection, request)
       THEN briefing' = selection.chosen /\ stage' = "briefed" /\ UNCHANGED prompt
       ELSE Fail
    /\ UNCHANGED <<request, selection, edits>>

\* The owner of the request or of the selection changes it in between.
EditRequest(r) ==
    /\ edits > 0 /\ stage \in {"selected", "prompted"} /\ r # request
    /\ edits' = edits - 1
    /\ request' = r
    /\ UNCHANGED <<selection, prompt, briefing, stage>>

EditSelection(ms) ==
    /\ edits > 0 /\ stage \in {"selected", "prompted"} /\ ms # selection.chosen
    /\ edits' = edits - 1
    /\ selection' = [selection EXCEPT !.chosen = ms]
    /\ UNCHANGED <<request, prompt, briefing, stage>>

EditsOf(r) ==
    {[r EXCEPT !.candidates[i] = m] : i \in DOMAIN r.candidates, m \in Shapes}
    \union {[r EXCEPT !.k = k] : k \in 0..2}
    \union {[r EXCEPT !.failures = ~@]}
SelectionsOf(ms) ==
    {[ms EXCEPT ![i] = m] : i \in DOMAIN ms, m \in Shapes}
    \union {Append(ms, m) : m \in Shapes}

CurationInit ==
    /\ request \in Requests
    /\ selection = [agent |-> "", digest |-> <<>>, chosen |-> <<>>]
    /\ prompt = [of |-> <<>>, texts |-> <<>>]
    /\ briefing = <<>>
    /\ stage = IF request.candidates = <<>> THEN "idle" ELSE "asked"
    /\ edits = IF request.candidates = <<>> THEN 0 ELSE 1

CurationNext ==
    \/ Select \/ Extract \/ BuildPrompt
    \/ \E usable \in BOOLEAN : Answer(usable)
    \/ \E r \in EditsOf(request) : EditRequest(r)
    \/ \E ms \in SelectionsOf(selection.chosen) : EditSelection(ms)

CurationSpec == CurationInit /\ [][CurationNext]_curationVars

-----------------------------------------------------------------------------
\* Text reaches a model only when its memory is unsealed, not released, the
\* agent's own, not a failure without leave, and as the request holds it,
\* whatever was changed between the selection and the prompt.
OnlyEligibleTextIsSent ==
    \A i \in DOMAIN prompt.texts :
        LET m == prompt.texts[i]
        IN  /\ ~m.sealed /\ m.state = "Active" /\ m.agent = prompt.of.agent
            /\ m.pool = "Failure" => prompt.of.failures
            /\ Len(prompt.texts) <= prompt.of.k
            /\ \E j \in DOMAIN prompt.of.candidates : Digest(prompt.of.candidates[j]) = Digest(m)

\* The briefing answers the request that was selected for and lists only
\* memories that request holds and allows; unless the selection was edited
\* after the prompt, they are those the model was given.
BriefingIsOfItsRequest ==
    stage = "briefed" =>
        /\ selection.digest = RequestDigest(request)
        /\ \A i \in DOMAIN briefing :
            /\ briefing[i].state = "Active" /\ ~briefing[i].sealed
            /\ \E j \in DOMAIN request.candidates : Digest(request.candidates[j]) = Digest(briefing[i])
        /\ edits = 1 => briefing = prompt.texts

\* The best are chosen: whoever is left out of an untouched selection although
\* eligible has no claim over one that is in, and places are left empty only
\* when there is nobody to take them.
TheBestAreChosen ==
    (stage = "selected" /\ edits = 1) =>
        LET open == {i \in DOMAIN request.candidates :
                        First(request, i) /\ Eligible(request.candidates[i], request)}
            took == {i \in open : Contains(selection.chosen, request.candidates[i])}
        IN  /\ \A i \in open \ took, j \in took :
                IF request.candidates[i].gate.says = "answer"
                THEN /\ request.candidates[j].gate.says = "answer"
                     /\ request.candidates[i].gate.p <= request.candidates[j].gate.p
                ELSE \/ request.candidates[j].gate.says = "answer"
                     \/ request.candidates[i].score <= request.candidates[j].score
            /\ Len(selection.chosen) = Cardinality(took)
            /\ open # took => Len(selection.chosen) = request.k

\* A briefing is made of the best memories its request allows, and of no other,
\* whatever is edited between selection, prompt and answer.
BriefingIsEligible ==
    /\ OnlyEligibleTextIsSent
    /\ BriefingIsOfItsRequest
    /\ TheBestAreChosen
=============================================================================
