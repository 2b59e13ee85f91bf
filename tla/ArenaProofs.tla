---------------------------- MODULE ArenaProofs ----------------------------
(***************************************************************************)
(* The arena, for every number of threads, pages, nonces and messages, any *)
(* list of models and all budgets: what its threads share stays true, and  *)
(* its chat stays orderly.                                                 *)
(***************************************************************************)
EXTENDS Arena, ArenaChat, FiniteSetTheorems, SequenceTheorems, TLAPS

-----------------------------------------------------------------------------
(* The loops                                                                *)

PollerPlaces == {"none", "asks", "looks", "marks", "keeps"}

\* What is said of a message is about one that came, and a poller that marks or
\* remembers has one to do it with.
MailInv ==
    /\ arrived \in Nat
    /\ inbox \cup seen \cup kept \cup lost \subseteq 1 .. arrived
    /\ pollers \in [Pollers -> [pc : PollerPlaces, todo : SUBSET (1 .. arrived)]]
    /\ \A p \in Pollers : pollers[p].pc \in {"marks", "keeps"} => pollers[p].todo # {}

LoopsInv ==
    /\ running \in [Loops -> BOOLEAN] /\ stop \in [Loops -> BOOLEAN] /\ starting \in [Loops -> Nat]
    /\ threads \in [Loops -> [Slots -> Places]]
    /\ chat \in {"just now", "active", "idle"} /\ chosen \in {"fresh", "old"}
    /\ override = {} \/ \E m \in Choices : override = {m}
    /\ cycles \in [Slots -> 0 .. DreamEvery - 1]
    /\ MailInv
    /\ AdvocateFlagIsTrue

\* One poller goes on, and says of messages what it has to do with them.
LEMMA PollsKeep ==
  ASSUME MailInv, NEW p \in Pollers, NEW pc \in PollerPlaces, NEW todo \in SUBSET (1 .. arrived),
         pc \in {"marks", "keeps"} => todo # {}, Polls(p, pc, todo),
         arrived' = arrived, inbox' = inbox,
         seen' \subseteq 1 .. arrived, kept' \subseteq 1 .. arrived, lost' \subseteq 1 .. arrived
  PROVE  MailInv'
<1> DEFINE r == [pc |-> pc, todo |-> todo]
<1>1. pollers' = [pollers EXCEPT ![p] = r] /\ r \in [pc : PollerPlaces, todo : SUBSET (1 .. arrived)]
  BY DEF Polls
<1>2. r.pc \in {"marks", "keeps"} => r.todo # {}
  OBVIOUS
<1> HIDE DEF r
<1>3. pollers' \in [Pollers -> [pc : PollerPlaces, todo : SUBSET (1 .. arrived)]]
  BY <1>1 DEF MailInv
<1>4. \A q \in Pollers : pollers'[q] = IF q = p THEN r ELSE pollers[q]
  BY <1>1 DEF MailInv
<1>5. \A q \in Pollers : pollers'[q].pc \in {"marks", "keeps"} => pollers'[q].todo # {}
  BY <1>2, <1>4 DEF MailInv
<1> QED
  BY <1>3, <1>5 DEF MailInv

LEMMA PollerStepInv ==
  ASSUME MailInv, NEW p \in Pollers, PollerStep(p)
  PROVE  MailInv'
<1> DEFINE todo == pollers[p].todo
<1>0. /\ todo \in SUBSET (1 .. arrived) /\ {} \in SUBSET (1 .. arrived)
      /\ \A m \in todo : todo \ {m} \in SUBSET (1 .. arrived)
      /\ seen \subseteq 1 .. arrived /\ kept \subseteq 1 .. arrived /\ lost \subseteq 1 .. arrived
      /\ \A m \in todo : m \in 1 .. arrived
      /\ {"none", "asks", "looks", "marks", "keeps"} \subseteq PollerPlaces
      /\ pollers[p].pc \in {"marks", "keeps"} => todo # {}
  BY DEF MailInv, PollerPlaces
<1>1. CASE Fetch(p)
  <2> DEFINE new == Newest(NewMail, MailBatch)
  <2>1. new \in SUBSET (1 .. arrived)
    BY DEF Newest, NewMail, MailInv
  <2>2. \E pc \in {"none", "looks"} : Polls(p, pc, new)
    BY <1>1 DEF Fetch
  <2>3. arrived' = arrived /\ inbox' = inbox /\ seen' = seen /\ kept' = kept /\ lost' = lost
    BY <1>1 DEF Fetch
  <2> HIDE DEF new
  <2> QED
    BY <1>0, <2>1, <2>2, <2>3, PollsKeep
<1>2. CASE FetchFails(p) \/ Finish(p)
  <2>1. /\ Polls(p, "none", {}) /\ arrived' = arrived /\ inbox' = inbox /\ seen' = seen
        /\ kept' = kept /\ lost' = lost
    BY <1>2 DEF FetchFails, Finish
  <2> QED
    BY <1>0, <2>1, PollsKeep
<1>3. CASE Look(p)
  <2>1. PICK m \in todo : \/ Polls(p, "looks", todo \ {m})
                         \/ Polls(p, "marks", todo)
    BY <1>3 DEF Look
  <2>2. arrived' = arrived /\ inbox' = inbox /\ seen' = seen /\ kept' = kept /\ lost' = lost
    BY <1>3 DEF Look
  <2> DEFINE rest == todo \ {m}
  <2>3. rest \in SUBSET (1 .. arrived) /\ todo # {}
    BY <1>0, <2>1
  <2>4. Polls(p, "looks", rest) \/ Polls(p, "marks", todo)
    BY <2>1
  <2> HIDE DEF todo, rest
  <2> QED
    BY <1>0, <2>2, <2>3, <2>4, PollsKeep
<1>4. CASE Mark(p)
  <2>1. PICK m \in todo : seen' = seen \cup {m}
    BY <1>4 DEF Mark
  <2>2. /\ arrived' = arrived /\ inbox' = inbox /\ kept' = kept /\ lost' = lost
        /\ seen' \subseteq 1 .. arrived /\ Polls(p, "keeps", todo) /\ todo # {}
    BY <1>0, <1>4, <2>1 DEF Mark
  <2> HIDE DEF todo
  <2> QED
    BY <1>0, <2>2, PollsKeep
<1>5. CASE Remember(p)
  <2>1. PICK m \in todo : /\ kept' \subseteq kept \cup {m} /\ lost' \subseteq lost \cup {m}
                         /\ Polls(p, "looks", todo \ {m})
    BY <1>5 DEF Remember
  <2> DEFINE rest == todo \ {m}
  <2>2. /\ arrived' = arrived /\ inbox' = inbox /\ seen' = seen
        /\ kept' \subseteq 1 .. arrived /\ lost' \subseteq 1 .. arrived
        /\ rest \in SUBSET (1 .. arrived) /\ Polls(p, "looks", rest)
    BY <1>0, <1>5, <2>1 DEF Remember
  <2> HIDE DEF todo, rest
  <2> QED
    BY <1>0, <2>2, PollsKeep
<1> QED
  BY <1>1, <1>2, <1>3, <1>4, <1>5 DEF PollerStep

\* One thread of one loop moves; the flag of the advocate follows.
LEMMA MovesKeepTypes ==
  ASSUME LoopsInv, NEW k \in Loops, NEW s \in Slots, NEW pc \in Places, Goes(k, s, pc)
  PROVE  /\ threads' \in [Loops -> [Slots -> Places]]
         /\ threads'[k][s] = pc
         /\ \A l \in Loops, t \in Slots : <<l, t>> # <<k, s>> => threads'[l][t] = threads[l][t]
BY DEF LoopsInv, Goes

\* An advocate that was alive still is, unless its flag went down.
LEMMA MovesKeepTheFlag ==
  ASSUME LoopsInv, NEW k \in Loops, NEW s \in Slots, NEW pc \in Places, Goes(k, s, pc),
         running' \in [Loops -> BOOLEAN],
         k = "advocate" /\ pc = "none" => ~running'["advocate"],
         running'["advocate"] => running["advocate"] \/ (k = "advocate" /\ pc # "none")
  PROVE  AdvocateFlagIsTrue'
<1>1. /\ threads'[k][s] = pc
      /\ \A l \in Loops, t \in Slots : <<l, t>> # <<k, s>> => threads'[l][t] = threads[l][t]
  BY MovesKeepTypes
<1>2. SUFFICES ASSUME running'["advocate"] PROVE \E t \in Slots : threads'["advocate"][t] # "none"
  BY DEF AdvocateFlagIsTrue, Alive
<1>3. CASE k = "advocate"
  BY <1>1, <1>2, <1>3
<1>4. CASE k # "advocate"
  <2>1. running["advocate"]
    BY <1>2, <1>4
  <2>2. PICK t \in Slots : threads["advocate"][t] # "none"
    BY <2>1 DEF LoopsInv, AdvocateFlagIsTrue, Alive
  <2>3. "advocate" \in Loops /\ <<"advocate", t>> # <<k, s>>
    BY <1>4 DEF Loops
  <2> QED
    BY <1>1, <2>2, <2>3
<1> QED
  BY <1>3, <1>4

LEMMA LoopsInitInv ==
  ASSUME LoopsInit
  PROVE  LoopsInv
<1>1. threads \in [Loops -> [Slots -> Places]]
  BY DEF LoopsInit, Places
<1>2. 0 \in 0 .. DreamEvery - 1
  BY ArenaLoopsAssumption
<1>3. cycles \in [Slots -> 0 .. DreamEvery - 1]
  BY <1>2 DEF LoopsInit
<1>4. ~running["advocate"]
  BY DEF LoopsInit, Loops
<1>5. MailInv
  BY DEF LoopsInit, MailInv, PollerPlaces
<1> QED
  BY <1>1, <1>3, <1>4, <1>5 DEF LoopsInit, LoopsInv, AdvocateFlagIsTrue

LEMMA LoopsStepInv ==
  ASSUME LoopsInv, [LoopsNext]_loop_vars
  PROVE  LoopsInv'
<1> USE DEF steering, work
<1>0. "think" \in Loops /\ "advocate" \in Loops /\ "none" \in Places /\ "new" \in Places
  BY DEF Loops, Places
<1>m. MailInv /\ UNCHANGED mail => MailInv'
  BY DEF mail, MailInv
<1>1. CASE LoopsNext
  <2>1. ASSUME NEW k, AskStart(k)
        PROVE  LoopsInv'
    <3>1. starting' \in [Loops -> Nat]
      <4>1. starting \in [Loops -> Nat] /\ starting' = [starting EXCEPT ![k] = starting[k] + 1]
        BY <2>1 DEF LoopsInv, AskStart
      <4>2. CASE k \in Loops
        BY <4>1, <4>2
      <4>3. CASE k \notin Loops
        BY <4>1, <4>3
      <4> QED
        BY <4>2, <4>3
    <3> QED
      BY <1>m, <2>1, <3>1 DEF LoopsInv, AskStart, AdvocateFlagIsTrue, Alive
  <2>2. ASSUME NEW k, AskStop(k)
        PROVE  LoopsInv'
    BY <1>m, <2>2 DEF LoopsInv, AskStop, AdvocateFlagIsTrue, Alive
  <2>3. ASSUME NEW k \in day.loops, NEW s \in Slots, Start(k, s)
        PROVE  LoopsInv'
    <3>1. starting' \in [Loops -> Nat]
      <4>1. /\ starting \in [Loops -> Nat] /\ starting[k] > 0
            /\ starting' = [starting EXCEPT ![k] = starting[k] - 1]
        BY <2>3 DEF LoopsInv, Start
      <4>2. CASE k \in Loops
        BY <4>1, <4>2
      <4>3. CASE k \notin Loops
        BY <4>1, <4>3
      <4> QED
        BY <4>2, <4>3
    <3>2. stop' \in [Loops -> BOOLEAN]
      BY <2>3 DEF LoopsInv, Start
    <3>3. threads' \in [Loops -> [Slots -> Places]] /\ AdvocateFlagIsTrue'
      <4>1. CASE k \in Loops
        <5>1. Goes(k, s, "new") /\ running' = running
          BY <2>3 DEF Start
        <5>2. running' \in [Loops -> BOOLEAN] /\ (running'["advocate"] => running["advocate"])
          BY <5>1 DEF LoopsInv
        <5> QED
          BY <4>1, <1>0, <5>1, <5>2, MovesKeepTypes, MovesKeepTheFlag
      <4>2. CASE k \notin Loops
        <5>1. threads' = threads
          BY <2>3, <4>2 DEF Start, Goes, LoopsInv
        <5> QED
          BY <2>3, <5>1 DEF Start, AdvocateFlagIsTrue, Alive, LoopsInv
      <4> QED
        BY <4>1, <4>2
    <3> QED
      BY <1>m, <2>3, <3>1, <3>2, <3>3 DEF LoopsInv, Start
  <2>4. ASSUME NEW m \in Choices, NEW lock \in BOOLEAN, SetModel(m, lock)
        PROVE  LoopsInv'
    BY <1>m, <2>4 DEF LoopsInv, SetModel, control, AdvocateFlagIsTrue, Alive
  <2>5. ASSUME NEW ms, ms = {} \/ \E m \in Choices : ms = {m}, ApiSetModel(ms)
        PROVE  LoopsInv'
    BY <1>m, <2>5 DEF LoopsInv, ApiSetModel, control, AdvocateFlagIsTrue, Alive
  <2>6. CASE Chat \/ AskDream \/ DreamEnds \/ ChatFades \/ ChoiceFades
    BY <1>m, <2>6 DEF LoopsInv, Chat, AskDream, DreamEnds, ChatFades, ChoiceFades, control,
                AdvocateFlagIsTrue, Alive
  <2>7. CASE MailArrives
    <3>1. /\ arrived \in Nat /\ arrived' = arrived + 1 /\ inbox' = inbox \cup {arrived + 1}
          /\ seen' = seen /\ kept' = kept /\ lost' = lost /\ pollers' = pollers
          /\ inbox \cup seen \cup kept \cup lost \subseteq 1 .. arrived
      BY <2>7 DEF LoopsInv, MailInv, MailArrives
    <3>2. 1 .. arrived \subseteq 1 .. arrived' /\ arrived + 1 \in 1 .. arrived' /\ arrived' \in Nat
      BY <3>1
    <3>3. inbox' \cup seen' \cup kept' \cup lost' \subseteq 1 .. arrived'
      BY <3>1, <3>2
    <3>4. pollers' \in [Pollers -> [pc : PollerPlaces, todo : SUBSET (1 .. arrived')]]
      BY <3>1, <3>2 DEF LoopsInv, MailInv
    <3>5. MailInv'
      BY <3>1, <3>2, <3>3, <3>4 DEF LoopsInv, MailInv
    <3> QED
      BY <2>7, <3>5 DEF LoopsInv, MailArrives, control, AdvocateFlagIsTrue, Alive
  <2>13. CASE MailIsDue
    BY <2>13 DEF LoopsInv, MailInv, MailIsDue, control, AdvocateFlagIsTrue, Alive
  <2>14. ASSUME NEW p \in Pollers, PollerStep(p)
         PROVE  LoopsInv'
    <3>1. MailInv'
      BY <2>14, PollerStepInv DEF LoopsInv
    <3>2. UNCHANGED <<control, steering, work>>
      BY <2>14 DEF PollerStep, Fetch, FetchFails, Look, Mark, Remember, Finish
    <3> QED
      BY <3>1, <3>2 DEF LoopsInv, control, AdvocateFlagIsTrue, Alive
  <2>15. ASSUME NEW m \in inbox, ReplyTo(m) \/ DeleteMail(m)
         PROVE  LoopsInv'
    <3>1. MailInv'
      BY <2>15 DEF LoopsInv, MailInv, ReplyTo, DeleteMail
    <3>2. UNCHANGED <<control, steering, work>>
      BY <2>15 DEF ReplyTo, DeleteMail
    <3> QED
      BY <3>1, <3>2 DEF LoopsInv, control, AdvocateFlagIsTrue, Alive
  <2>8. ASSUME NEW s \in Slots, EndCycle(s)
        PROVE  LoopsInv'
    <3>1. Goes("think", s, "mail") /\ running' = running /\ "mail" \in Places
      BY <2>8 DEF EndCycle, Places
    <3>2. \A c \in 0 .. DreamEvery - 1 : (c + 1) % DreamEvery \in 0 .. DreamEvery - 1
      BY ArenaLoopsAssumption
    <3>3. cycles' \in [Slots -> 0 .. DreamEvery - 1]
      BY <2>8, <3>2 DEF LoopsInv, EndCycle
    <3>4. threads' \in [Loops -> [Slots -> Places]]
      BY <1>0, <3>1, MovesKeepTypes
    <3>5. AdvocateFlagIsTrue'
      BY <1>0, <3>1, MovesKeepTheFlag DEF LoopsInv
    <3> QED
      BY <1>m, <2>8, <3>3, <3>4, <3>5 DEF LoopsInv, EndCycle
  <2>9. ASSUME NEW s \in Slots, MailCheck(s)
        PROVE  LoopsInv'
    <3>1. Goes("think", s, "wait") /\ running' = running /\ "wait" \in Places
      BY <2>9 DEF MailCheck, Places
    <3>2. UNCHANGED <<arrived, inbox, seen, kept, lost>>
      BY <2>9 DEF MailCheck
    <3>3. MailInv'
      <4>1. CASE UNCHANGED pollers
        BY <3>2, <4>1 DEF LoopsInv, MailInv
      <4>2. ASSUME NEW p \in Pollers, pollers' = [pollers EXCEPT ![p].pc = "asks"]
            PROVE  MailInv'
        <5> DEFINE todo == pollers[p].todo
        <5>1. todo \in SUBSET (1 .. arrived) /\ "asks" \in PollerPlaces
          BY DEF LoopsInv, MailInv, PollerPlaces
        <5>2. Polls(p, "asks", todo)
          <6>1. pollers[p] = [pc |-> pollers[p].pc, todo |-> todo]
            BY DEF LoopsInv, MailInv
          <6>2. [pollers[p] EXCEPT !.pc = "asks"] = [pc |-> "asks", todo |-> todo]
            BY <6>1
          <6>3. pollers' = [pollers EXCEPT ![p] = [pollers[p] EXCEPT !.pc = "asks"]]
            BY <4>2
          <6> QED
            BY <6>2, <6>3 DEF Polls
        <5> HIDE DEF todo
        <5>3. MailInv
          BY DEF LoopsInv
        <5>4. seen' \subseteq 1 .. arrived /\ kept' \subseteq 1 .. arrived /\ lost' \subseteq 1 .. arrived
          BY <3>2, <5>3 DEF MailInv
        <5> QED
          BY <3>2, <5>1, <5>2, <5>3, <5>4, PollsKeep
      <4> QED
        BY <2>9, <4>1, <4>2 DEF MailCheck
    <3>4. threads' \in [Loops -> [Slots -> Places]]
      BY <1>0, <3>1, MovesKeepTypes
    <3>5. AdvocateFlagIsTrue'
      BY <1>0, <3>1, MovesKeepTheFlag DEF LoopsInv
    <3> QED
      BY <2>9, <3>3, <3>4, <3>5 DEF LoopsInv, MailCheck
  <2>10. ASSUME NEW s \in Slots, CycleRaises(s) \/ BeginCycle(s) \/ SkipForChat(s)
         PROVE  LoopsInv'
    <3>1. PICK pc \in Places : Goes("think", s, pc)
      BY <2>10 DEF CycleRaises, BeginCycle, SkipForChat, Places
    <3>2. running' = running
      BY <2>10 DEF CycleRaises, BeginCycle, SkipForChat
    <3>4. threads' \in [Loops -> [Slots -> Places]]
      BY <1>0, <3>1, MovesKeepTypes
    <3>5. AdvocateFlagIsTrue'
      BY <1>0, <3>1, <3>2, MovesKeepTheFlag DEF LoopsInv
    <3> QED
      BY <1>m, <2>10, <3>4, <3>5 DEF LoopsInv, CycleRaises, BeginCycle, SkipForChat
  <2>11. ASSUME NEW s \in Slots, AdvocateStep(s)
         PROVE  LoopsInv'
    <3>1. PICK pc \in Places \ {"none"} : Goes("advocate", s, pc)
      BY <2>11 DEF AdvocateStep, AdvocateWaits, AdvocateDecides, AdvocateCycle, Places
    <3>2. running' = running
      BY <2>11 DEF AdvocateStep, AdvocateWaits, AdvocateDecides, AdvocateCycle
    <3>4. threads' \in [Loops -> [Slots -> Places]]
      BY <1>0, <3>1, MovesKeepTypes
    <3>5. AdvocateFlagIsTrue'
      BY <1>0, <3>1, <3>2, MovesKeepTheFlag DEF LoopsInv
    <3> QED
      BY <1>m, <2>11, <3>4, <3>5 DEF LoopsInv, AdvocateStep, AdvocateWaits, AdvocateDecides, AdvocateCycle
  <2>12. ASSUME NEW s \in Slots, NEW k \in Loops, LoopStep(k, s)
         PROVE  LoopsInv'
    <3>1. PICK pc \in Places :
             /\ Goes(k, s, pc)
             /\ running' = IF pc = "none" THEN [running EXCEPT ![k] = FALSE]
                           ELSE IF Enter(k, s) THEN [running EXCEPT ![k] = TRUE] ELSE running
      BY <2>12 DEF LoopStep, Enter, Leave, Woken, Places
    <3>2. /\ running' \in [Loops -> BOOLEAN]
          /\ k = "advocate" /\ pc = "none" => ~running'["advocate"]
          /\ running'["advocate"] => running["advocate"] \/ (k = "advocate" /\ pc # "none")
      BY <3>1, <1>0 DEF LoopsInv
    <3>3. cycles' \in [Slots -> 0 .. DreamEvery - 1]
      <4>1. 0 \in 0 .. DreamEvery - 1
        BY ArenaLoopsAssumption
      <4> QED
        BY <2>12, <4>1 DEF LoopsInv, LoopStep, Enter, Leave, Woken
    <3>4. threads' \in [Loops -> [Slots -> Places]]
      BY <3>1, MovesKeepTypes
    <3>5. AdvocateFlagIsTrue'
      BY <3>1, <3>2, MovesKeepTheFlag
    <3> QED
      BY <1>m, <2>12, <3>2, <3>3, <3>4, <3>5 DEF LoopsInv, LoopStep, Enter, Leave, Woken
  <2> QED
    BY <1>1, <2>1, <2>2, <2>3, <2>4, <2>5, <2>6, <2>7, <2>8, <2>9, <2>10, <2>11, <2>12,
       <2>13, <2>14, <2>15
    DEF LoopsNext, LoopUsers, LoopRequests, ThinkStep
<1>2. CASE UNCHANGED loop_vars
  BY <1>m, <1>2 DEF loop_vars, control, LoopsInv, AdvocateFlagIsTrue, Alive
<1> QED
  BY <1>1, <1>2

LEMMA LoopsInvImplies ==
  ASSUME LoopsInv
  PROVE  LoopsTypeOK /\ AdvocateFlagIsTrue
<1>1. override \subseteq Choices /\ Cardinality(override) <= 1
  <2>1. CASE override = {}
    BY <2>1, FS_EmptySet
  <2>2. ASSUME NEW m \in Choices, override = {m}
        PROVE  Cardinality(override) <= 1
    BY <2>2, FS_Singleton
  <2> QED
    BY <2>1, <2>2 DEF LoopsInv
<1>2. \A s \in Slots : cycles[s] < DreamEvery
  <2> TAKE s \in Slots
  <2>1. cycles[s] \in 0 .. DreamEvery - 1 /\ DreamEvery \in Nat
    BY ArenaLoopsAssumption DEF LoopsInv
  <2> QED
    BY <2>1
<1> QED
  BY <1>1, <1>2 DEF LoopsInv, MailInv, LoopsTypeOK

\* Whatever starts, stops, raises and is steered: the advocate is called
\* running only while it lives, and no message is seen before it came.
THEOREM LoopsStayTrue == LoopsSpec => [](LoopsTypeOK /\ AdvocateFlagIsTrue)
<1>1. LoopsInit => LoopsInv
  BY LoopsInitInv
<1>2. LoopsInv /\ [LoopsNext]_loop_vars => LoopsInv'
  BY LoopsStepInv
<1>3. LoopsInv => LoopsTypeOK /\ AdvocateFlagIsTrue
  BY LoopsInvImplies
<1> QED
  BY <1>1, <1>2, <1>3, PTL DEF LoopsSpec

-----------------------------------------------------------------------------
(* The calls                                                                *)

OnMachine == {"gemma", "comfy"}
Asked == Models \cup {"comfy", "dalle3", "imagen"}

CallerRecords ==
    [job : Jobs \cup {"none"}, pc : {"idle", "wait", "try", "ask", "image", "paint", "log", "direct"},
     order : Seq(Asked), local : BOOLEAN]

\* A thread that goes through call_llm has models to ask, and what was listed
\* in local mode is on the machine.
CallerOK(r) ==
    /\ r \in CallerRecords
    /\ r.pc \in {"wait", "try", "ask"} => r.order \in Seq(Models)
    /\ r.pc \in {"ask", "paint", "log"} => r.order # <<>>
    /\ r.pc \in {"image", "paint"} => r.job \in Drawings
    /\ r.pc = "log" /\ r.job \notin Drawings => r.order \in Seq(Models)
    /\ r.local /\ r.job # "vision" => r.order \in Seq(OnMachine)

CallersInv ==
    /\ callers \in [Callers -> CallerRecords]
    /\ \A c \in Callers : CallerOK(callers[c])

CallsInv ==
    /\ hour \in [jobs : [Callers -> SUBSET {"talk", "prompt", "draw", "vision", "advocate"}],
                 models : SUBSET Models, switches : Nat, budgets : SUBSET Nat]
    /\ local_mode \in BOOLEAN /\ image_mode \in {"auto", "local", "cloud"}
    /\ rotation \in 0 .. 2
    /\ heat \in [Models -> 0 .. Overheat] /\ failures \in [Models -> 0 .. MaxFailures]
    /\ cooling \subseteq {m \in Models : failures[m] > 0}
    /\ session \in Nat /\ hourly \in Nat /\ past \in Nat
    /\ SpendIsAccounted
    /\ RendererIsReleased
    /\ CallersInv

OnlyMoves(c) == \A d \in Callers \ {c} : callers'[d] = callers[d]

\* The thread moves, and not to where it has charged and not logged a price.
OwesNothing(c) == OnlyMoves(c) /\ callers'[c].pc # "log"

LEMMA OneCallerMoves ==
  ASSUME CallersInv, NEW c \in Callers, NEW r, CallerOK(r), callers' = [callers EXCEPT ![c] = r]
  PROVE  CallersInv' /\ callers'[c] = r /\ OnlyMoves(c)
<1>1. r \in CallerRecords
  BY DEF CallerOK
<1>2. callers' \in [Callers -> CallerRecords]
  BY <1>1 DEF CallersInv
<1>3. ASSUME NEW d \in Callers
      PROVE  CallerOK(callers'[d])
  <2>1. callers'[d] = IF d = c THEN r ELSE callers[d]
    BY DEF CallersInv
  <2> QED
    BY <2>1 DEF CallersInv
<1>4. \A d \in Callers : CallerOK(callers'[d])
  BY <1>3
<1>5. callers'[c] = r /\ OnlyMoves(c)
  BY DEF CallersInv, OnlyMoves
<1> QED
  BY <1>2, <1>4, <1>5 DEF CallersInv

LEMMA Listings ==
  /\ CloudModels \in Seq(Models) /\ {"claude", "gemma"} \subseteq Models /\ Cloud \subseteq Models
  /\ <<"gemma">> \in Seq(Models) \cap Seq(OnMachine) \cap Seq(Asked)
  /\ <<"comfy">> \in Seq(OnMachine) \cap Seq(Asked)
  /\ <<>> \in Seq(Models) \cap Seq(OnMachine) \cap Seq(Asked)
  /\ <<"claude">> \in Seq(Asked) /\ <<"dalle3", "imagen">> \in Seq(Asked)
  /\ Seq(Models) \subseteq Seq(Asked)
<1>1. CloudModels \in Seq(Cloud)
  BY ArenaCallsAssumption, LenProperties, IsASeq DEF Cloud
<1>2. Cloud \subseteq Models /\ Models \subseteq Asked /\ "gemma" \in Models /\ OnMachine \subseteq Asked
  BY DEF Models, Asked, OnMachine
<1>3. "gemma" \in OnMachine /\ "comfy" \in OnMachine /\ {"dalle3", "imagen"} \subseteq Asked
  BY DEF OnMachine, Asked
<1> HIDE DEF OnMachine, Asked, Models, Cloud
<1>4. \A S, T : S \subseteq T => Seq(S) \subseteq Seq(T)
  OBVIOUS
<1> QED
  BY <1>1, <1>2, <1>3, <1>4, ArenaCallsAssumption

LEMMA OrdersAreOfModels ==
  ASSUME NEW m \in Models
  PROVE  Order(m) \in Seq(Models)
<1>1. Fallbacks(m) \in Seq(Models)
  <2>1. CASE m \notin Cloud
    BY <2>1, Listings DEF Fallbacks
  <2>2. CASE m \in Cloud
    <3> DEFINE at == CHOOSE i \in DOMAIN CloudModels : CloudModels[i] = m
    <3>1. at \in DOMAIN CloudModels
      BY <2>2 DEF Cloud
    <3>2. at \in 1 .. Len(CloudModels)
      BY <3>1, Listings, LenProperties
    <3> HIDE DEF at
    <3>3. SubSeq(CloudModels, 1, at - 1) \in Seq(Models)
      BY <3>2, Listings, SubSeqProperties
    <3>4. SubSeq(CloudModels, at + 1, Len(CloudModels)) \in Seq(Models)
      BY <3>2, Listings, SubSeqProperties
    <3>5. Fallbacks(m) = SubSeq(CloudModels, 1, at - 1) \o SubSeq(CloudModels, at + 1, Len(CloudModels))
      BY <2>2 DEF Fallbacks, at
    <3> QED
      BY <3>3, <3>4, <3>5, ConcatProperties
  <2> QED
    BY <2>1, <2>2
<1>2. <<m>> \in Seq(Models) /\ <<m, "gemma">> \in Seq(Models)
  BY Listings
<1> QED
  BY <1>1, <1>2, ConcatProperties DEF Order

\* The start of call_llm leaves a thread that may ask models.
LEMMA CallsListModels ==
  ASSUME CallsInv, NEW c \in Callers, NEW job \in Jobs \ {"vision"}, NEW m \in Models, Call(c, job, m)
  PROVE  CallersInv' /\ heat' \in [Models -> 0 .. Overheat] /\ OwesNothing(c)
<1>1. heat' \in [Models -> 0 .. Overheat]
  <2>1. heat' = [heat EXCEPT ![m] = IF heat[m] < Overheat THEN heat[m] + 1 ELSE 0]
    BY DEF Call, Heated
  <2>2. heat[m] \in 0 .. Overheat /\ heat \in [Models -> 0 .. Overheat] /\ Overheat \in Nat
    BY ArenaCallsAssumption DEF CallsInv
  <2>3. (IF heat[m] < Overheat THEN heat[m] + 1 ELSE 0) \in 0 .. Overheat
    BY <2>2
  <2> QED
    BY <2>1, <2>2, <2>3
<1>2. PICK x \in Roll(m) :
         Begins(c, job, IF local_mode /\ comfy_busy THEN "wait" ELSE "try",
                IF local_mode THEN <<"gemma">> ELSE Order(x))
  BY DEF Call
<1>3. x \in Models
  BY <1>2, Listings DEF Roll
<1> DEFINE pc == IF local_mode /\ comfy_busy THEN "wait" ELSE "try"
<1> DEFINE order == IF local_mode THEN <<"gemma">> ELSE Order(x)
<1> DEFINE r == [job |-> job, pc |-> pc, order |-> order, local |-> local_mode]
<1>4. order \in Seq(Models) /\ order \in Seq(Asked) /\ (local_mode => order \in Seq(OnMachine))
  <2>1. Order(x) \in Seq(Models)
    BY <1>3, OrdersAreOfModels
  <2> QED
    BY <2>1, Listings
<1>5. pc \in {"wait", "try"} /\ local_mode \in BOOLEAN
  BY DEF CallsInv
<1>6. callers' = [callers EXCEPT ![c] = r]
  BY <1>2 DEF Begins, Becomes
<1>7. CallerOK(r)
  <2> HIDE DEF pc, order
  <2> QED
    BY <1>4, <1>5 DEF CallerOK, CallerRecords
<1>8. r.pc # "log"
  BY <1>5
<1> HIDE DEF r
<1>9. CallersInv
  BY DEF CallsInv
<1> QED
  BY <1>1, <1>6, <1>7, <1>8, <1>9, OneCallerMoves DEF OwesNothing

LEMMA IdleIsOK == CallerOK(Idle) /\ Idle.pc # "log"
BY Listings DEF CallerOK, CallerRecords, Idle

LEMMA RaisesKeep ==
  ASSUME CallsInv, NEW c \in Callers, Raises(c)
  PROVE  CallersInv' /\ heat' \in [Models -> 0 .. Overheat] /\ OwesNothing(c)
<1>1. CASE callers[c].job = "reaction"
  <2>1. Call(c, "second look", Nudged("claude"))
    BY <1>1 DEF Raises
  <2>2. Nudged("claude") \in Models
    BY Listings DEF Nudged
  <2>3. "second look" \in Jobs \ {"vision"}
    BY DEF Jobs
  <2> QED
    BY <2>1, <2>2, <2>3, CallsListModels
<1>2. CASE callers[c].job # "reaction"
  <2>1. callers' = [callers EXCEPT ![c] = Idle] /\ heat' = heat
    BY <1>2 DEF Raises, Becomes
  <2>2. CallersInv /\ heat \in [Models -> 0 .. Overheat]
    BY DEF CallsInv
  <2> QED
    BY <2>1, <2>2, IdleIsOK, OneCallerMoves DEF OwesNothing
<1> QED
  BY <1>1, <1>2

\* A thread that only goes to another place, or takes the first one off what
\* it may try.
LEMMA PlacesKeep ==
  ASSUME CallersInv, NEW c \in Callers, NEW pc \in {"try", "ask", "paint", "log"},
         pc \in {"try", "ask"} => callers[c].pc \in {"wait", "try", "ask"},
         pc = "paint" => callers[c].pc = "image",
         pc = "log" => callers[c].pc \in {"ask", "paint"},
         pc \in {"ask", "paint"} => callers[c].order # <<>>,
         callers' = [callers EXCEPT ![c] = [callers[c] EXCEPT !.pc = pc]]
  PROVE  /\ CallersInv' /\ OnlyMoves(c)
         /\ callers'[c].pc = pc /\ callers'[c].order = callers[c].order
<1> DEFINE q == callers[c]
<1> DEFINE r == [q EXCEPT !.pc = pc]
<1>1. CallerOK(q)
  BY DEF CallersInv
<1>2. CallerOK(r)
  <2>1. /\ pc \in {"try", "ask"} => q.pc \in {"wait", "try", "ask"}
        /\ pc = "paint" => q.pc = "image"
        /\ pc = "log" => q.pc \in {"ask", "paint"}
        /\ pc \in {"ask", "paint"} => q.order # <<>>
    OBVIOUS
  <2> HIDE DEF q
  <2> QED
    BY <1>1, <2>1 DEF CallerOK, CallerRecords
<1>3. callers' = [callers EXCEPT ![c] = r]
  OBVIOUS
<1>4. r.pc = pc /\ r.order = q.order
  <2> HIDE DEF q
  <2> QED
    BY <1>1 DEF CallerOK, CallerRecords
<1> HIDE DEF r
<1>5. CallersInv' /\ callers'[c] = r /\ OnlyMoves(c)
  BY <1>2, <1>3, OneCallerMoves
<1> QED
  BY <1>4, <1>5

LEMMA TriesNextKeep ==
  ASSUME CallersInv, NEW c \in Callers, NEW pc \in {"try", "image"}, TriesNext(c, pc),
         callers[c].order # <<>>, pc = "try" => callers[c].pc \in {"try", "ask"},
         pc = "image" => callers[c].pc \in {"image", "paint"}
  PROVE  CallersInv' /\ OwesNothing(c)
<1> DEFINE q == callers[c]
<1> DEFINE r == [q EXCEPT !.pc = pc, !.order = Tail(q.order)]
<1>1. CallerOK(q)
  BY DEF CallersInv
<1>2. CallerOK(r)
  <2>1. /\ q.order # <<>> /\ (pc = "try" => q.pc \in {"try", "ask"})
        /\ pc = "image" => q.pc \in {"image", "paint"}
    OBVIOUS
  <2> HIDE DEF q
  <2>2. q \in CallerRecords /\ q.order \in Seq(Asked)
    BY <1>1 DEF CallerOK, CallerRecords
  <2>3. \A S : q.order \in Seq(S) => Tail(q.order) \in Seq(S)
    BY <2>1, HeadTailProperties
  <2>4. r.pc = pc /\ r.order = Tail(q.order) /\ r.local = q.local /\ r.job = q.job
    BY <2>2 DEF CallerRecords
  <2>5. Tail(q.order) \in Seq(Asked)
    BY <2>2, <2>3
  <2>6. r \in CallerRecords
    BY <2>2, <2>5 DEF CallerRecords
  <2> HIDE DEF r
  <2> QED
    BY <1>1, <2>1, <2>3, <2>4, <2>6 DEF CallerOK
<1>3. callers' = [callers EXCEPT ![c] = r]
  BY DEF TriesNext, Becomes
<1>4. r.pc # "log"
  <2> HIDE DEF q
  <2> QED
    BY <1>1 DEF CallerOK, CallerRecords
<1> HIDE DEF r
<1> QED
  BY <1>2, <1>3, <1>4, OneCallerMoves DEF OwesNothing

LEMMA CallsInitInv ==
  ASSUME CallsInit
  PROVE  CallsInv
<1>1. CallersInv
  <2>1. callers = [c \in Callers |-> Idle] /\ Idle \in CallerRecords
    BY IdleIsOK DEF CallsInit, CallerOK
  <2> QED
    BY <2>1, IdleIsOK DEF CallersInv
<1>2. 0 \in 0 .. Overheat /\ 0 \in 0 .. MaxFailures
  BY ArenaCallsAssumption
<1>3. heat \in [Models -> 0 .. Overheat] /\ failures \in [Models -> 0 .. MaxFailures]
  BY <1>2 DEF CallsInit
<1>4. hour \in [jobs : [Callers -> SUBSET {"talk", "prompt", "draw", "vision", "advocate"}],
               models : SUBSET Models, switches : Nat, budgets : SUBSET Nat]
  BY ArenaCallsAssumption DEF CallsInit
<1>5. /\ image_mode \in {"auto", "local", "cloud"} /\ rotation \in 0 .. 2
      /\ cooling = {} /\ session \in Nat /\ hourly \in Nat /\ past \in Nat
  BY DEF CallsInit
<1>7. SpendIsAccounted
  <2>1. Owing(Cloud) = {} /\ Owing({"dalle3", "imagen"}) = {}
    BY DEF CallsInit, Owing, Is, Idle
  <2>2. ImagePrice \in Nat
    BY ArenaCallsAssumption
  <2> QED
    BY <2>1, <2>2, FS_EmptySet DEF CallsInit, SpendIsAccounted
<1>6. local_mode \in BOOLEAN /\ RendererIsReleased
  BY Zenon DEF CallsInit, RendererIsReleased
<1> QED
  BY <1>1, <1>3, <1>4, <1>5, <1>6, <1>7 DEF CallsInv

\* A model that is asked is one of the models.
LEMMA AskedAreModels ==
  ASSUME CallersInv, NEW c \in Callers, Is(c, "ask")
  PROVE  First(c) \in Models /\ callers[c].order # <<>>
<1>1. CallerOK(callers[c]) /\ callers[c].pc = "ask"
  BY DEF CallersInv, Is
<1>2. callers[c].order \in Seq(Models) /\ callers[c].order # <<>>
  BY <1>1 DEF CallerOK
<1> QED
  BY <1>2, HeadTailProperties DEF First

LoggedImages == {"dalle3", "imagen"}

\* Between the locks a thread owes the log of the hour the price of its answer:
\* with the thread c, that has charged x, the debtors grow from C1 and I1.
OwesMore(C1, I1, C2, I2, c, x) ==
    /\ IsFiniteSet(C1) /\ IsFiniteSet(I1) /\ c \notin C1 /\ c \notin I1 /\ x \in Asked
    /\ C2 = IF x \in Cloud THEN C1 \cup {c} ELSE C1
    /\ I2 = IF x \in LoggedImages THEN I1 \cup {c} ELSE I1

LEMMA DebtsAdd ==
  ASSUME NEW C1, NEW I1, NEW C2, NEW I2, NEW c, NEW x, OwesMore(C1, I1, C2, I2, c, x)
  PROVE  /\ {Cardinality(C1), Cardinality(I1), Cardinality(C2), Cardinality(I2), Price(x)} \subseteq Nat
         /\ Cardinality(C2) + ImagePrice * Cardinality(I2)
              = Cardinality(C1) + ImagePrice * Cardinality(I1) + Price(x)
<1> USE DEF OwesMore
<1>0. ImagePrice \in Nat /\ Cardinality(C1) \in Nat /\ Cardinality(I1) \in Nat
  BY FS_CardinalityType, ArenaCallsAssumption
<1>1. Cloud \cap {"gemma", "comfy", "dalle3", "imagen"} = {}
  <2>1. CloudModels \in Seq(STRING \ {"gemma", "comfy", "dalle3", "imagen"})
    BY ArenaCallsAssumption
  <2>2. \A i \in DOMAIN CloudModels : CloudModels[i] \notin {"gemma", "comfy", "dalle3", "imagen"}
    BY <2>1, LenProperties
  <2> QED
    BY <2>2 DEF Cloud
<1>2. Cardinality(C1 \cup {c}) = Cardinality(C1) + 1 /\ Cardinality(I1 \cup {c}) = Cardinality(I1) + 1
  BY FS_AddElement
<1>3. ImagePrice * (Cardinality(I1) + 1) = ImagePrice * Cardinality(I1) + ImagePrice
  <2>1. \A p, n \in Nat : p * (n + 1) = p * n + p
    OBVIOUS
  <2> QED
    BY <1>0, <2>1
<1>4. CASE x \in Cloud
  <2>1. C2 = C1 \cup {c} /\ I2 = I1 /\ Price(x) = 1
    BY <1>1, <1>4 DEF LoggedImages, Price
  <2> QED
    BY <1>0, <1>2, <2>1
<1>5. CASE x \in LoggedImages
  <2>1. C2 = C1 /\ I2 = I1 \cup {c} /\ Price(x) = ImagePrice
    BY <1>1, <1>5 DEF LoggedImages, Price
  <2> QED
    BY <1>0, <1>2, <1>3, <2>1
<1>6. CASE x \notin Cloud /\ x \notin LoggedImages
  <2>1. C2 = C1 /\ I2 = I1 /\ Price(x) = 0
    BY <1>6 DEF LoggedImages, Price, Asked, Models
  <2> QED
    BY <1>0, <2>1
<1> QED
  BY <1>4, <1>5, <1>6

LEMMA OwingIsFinite == \A xs : IsFiniteSet(Owing(xs))
BY ArenaCallsAssumption, FS_Subset DEF Owing

\* What neither charges nor logs leaves the accounts as they are.
LEMMA AccountsStay ==
  ASSUME SpendIsAccounted, NEW c \in Callers, ~Is(c, "log"), OwesNothing(c), UNCHANGED money
  PROVE  SpendIsAccounted'
<1>1. Owing(Cloud)' = Owing(Cloud)
  BY DEF OwesNothing, OnlyMoves, Owing, Is, First
<1>2. Owing({"dalle3", "imagen"})' = Owing({"dalle3", "imagen"})
  BY DEF OwesNothing, OnlyMoves, Owing, Is, First
<1> QED
  BY <1>1, <1>2 DEF SpendIsAccounted, money

\* The price is added to the session, and owed to the log.
LEMMA ChargesAreOwed ==
  ASSUME CallsInv, NEW c \in Callers, ~Is(c, "log"), OnlyMoves(c), callers'[c].pc = "log",
         callers'[c].order = callers[c].order, First(c) \in Asked, Charged(First(c))
  PROVE  session' \in Nat /\ hourly' \in Nat /\ past' \in Nat /\ SpendIsAccounted'
<1> DEFINE x == First(c)
<1> DEFINE C1 == Owing(Cloud)
<1> DEFINE I1 == Owing(LoggedImages)
<1> DEFINE C2 == Owing(Cloud)'
<1> DEFINE I2 == Owing(LoggedImages)'
<1>1. First(c)' = x
  BY DEF First
<1>2. C2 = IF x \in Cloud THEN C1 \cup {c} ELSE C1
  BY <1>1 DEF OnlyMoves, Owing, Is, First
<1>3. I2 = IF x \in LoggedImages THEN I1 \cup {c} ELSE I1
  BY <1>1 DEF OnlyMoves, Owing, Is, First, LoggedImages
<1>4. c \notin C1 /\ c \notin I1
  BY DEF Owing
<1>5. IsFiniteSet(C1) /\ IsFiniteSet(I1)
  BY OwingIsFinite
<1>6. x \in Asked
  OBVIOUS
<1>7. session' = session + Price(x) /\ hourly' = hourly /\ past' = past
  BY DEF Charged
<1>8. /\ session = hourly + past + Cardinality(C1) + ImagePrice * Cardinality(I1)
      /\ session \in Nat /\ hourly \in Nat /\ past \in Nat /\ ImagePrice \in Nat
  BY ArenaCallsAssumption DEF CallsInv, SpendIsAccounted, LoggedImages
<1>9. SpendIsAccounted' <=> session' = hourly' + past' + Cardinality(C2) + ImagePrice * Cardinality(I2)
  BY DEF SpendIsAccounted, LoggedImages
<1> HIDE DEF x, C1, I1, C2, I2
<1>10. /\ {Cardinality(C1), Cardinality(I1), Cardinality(C2), Cardinality(I2), Price(x)} \subseteq Nat
       /\ Cardinality(C2) + ImagePrice * Cardinality(I2)
            = Cardinality(C1) + ImagePrice * Cardinality(I1) + Price(x)
  <2>1. OwesMore(C1, I1, C2, I2, c, x)
    BY <1>2, <1>3, <1>4, <1>5, <1>6 DEF OwesMore
  <2> QED
    BY <2>1, DebtsAdd
<1> DEFINE a1 == ImagePrice * Cardinality(I1)
<1> DEFINE a2 == ImagePrice * Cardinality(I2)
<1>11. a1 \in Nat /\ a2 \in Nat
  BY <1>8, <1>10
<1> HIDE DEF a1, a2
<1>12. /\ Cardinality(C2) + a2 = Cardinality(C1) + a1 + Price(x)
       /\ session = hourly + past + Cardinality(C1) + a1
       /\ SpendIsAccounted' <=> session' = hourly' + past' + Cardinality(C2) + a2
  BY <1>8, <1>9, <1>10 DEF a1, a2
<1>13. \A s, h, p, m, i, n, j, d \in Nat :
          n + j = m + i + d /\ s = h + p + m + i => s + d = h + p + n + j
  OBVIOUS
<1>14. /\ Cardinality(C1) \in Nat /\ Cardinality(C2) \in Nat /\ Price(x) \in Nat
       /\ session \in Nat /\ hourly \in Nat /\ past \in Nat
  BY <1>8, <1>10
<1>15. session + Price(x) = hourly + past + Cardinality(C2) + a2
  BY <1>11, <1>12, <1>13, <1>14
<1>16. SpendIsAccounted'
  BY <1>7, <1>12, <1>15
<1> QED
  BY <1>7, <1>14, <1>16

\* What is owed is added to the log.
LEMMA LogsPayTheDebt ==
  ASSUME CallsInv, NEW c \in Callers, Is(c, "log"), OwesNothing(c), First(c) \in Asked,
         CostLogged(First(c))
  PROVE  session' \in Nat /\ hourly' \in Nat /\ past' \in Nat /\ SpendIsAccounted'
<1> DEFINE x == First(c)
<1> DEFINE C1 == Owing(Cloud)
<1> DEFINE I1 == Owing(LoggedImages)
<1> DEFINE C2 == Owing(Cloud)'
<1> DEFINE I2 == Owing(LoggedImages)'
<1>1. C2 \subseteq C1 /\ I2 \subseteq I1 /\ c \notin C2 /\ c \notin I2
  BY DEF OwesNothing, OnlyMoves, Owing, Is, First
<1>2. C1 = IF x \in Cloud THEN C2 \cup {c} ELSE C2
  BY DEF OwesNothing, OnlyMoves, Owing, Is, First
<1>3. I1 = IF x \in LoggedImages THEN I2 \cup {c} ELSE I2
  BY DEF OwesNothing, OnlyMoves, Owing, Is, First, LoggedImages
<1>5. IsFiniteSet(C2) /\ IsFiniteSet(I2)
  BY <1>1, OwingIsFinite, FS_Subset
<1>6. x \in Asked
  OBVIOUS
<1>7. hourly' = hourly + Price(x) /\ session' = session /\ past' = past
  BY DEF CostLogged
<1>8. /\ session = hourly + past + Cardinality(C1) + ImagePrice * Cardinality(I1)
      /\ session \in Nat /\ hourly \in Nat /\ past \in Nat /\ ImagePrice \in Nat
  BY ArenaCallsAssumption DEF CallsInv, SpendIsAccounted, LoggedImages
<1>9. SpendIsAccounted' <=> session' = hourly' + past' + Cardinality(C2) + ImagePrice * Cardinality(I2)
  BY DEF SpendIsAccounted, LoggedImages
<1> HIDE DEF x, C1, I1, C2, I2
<1>10. /\ {Cardinality(C1), Cardinality(I1), Cardinality(C2), Cardinality(I2), Price(x)} \subseteq Nat
       /\ Cardinality(C1) + ImagePrice * Cardinality(I1)
            = Cardinality(C2) + ImagePrice * Cardinality(I2) + Price(x)
  <2>1. OwesMore(C2, I2, C1, I1, c, x)
    BY <1>1, <1>2, <1>3, <1>5, <1>6 DEF OwesMore
  <2> QED
    BY <2>1, DebtsAdd
<1> DEFINE a1 == ImagePrice * Cardinality(I1)
<1> DEFINE a2 == ImagePrice * Cardinality(I2)
<1>11. a1 \in Nat /\ a2 \in Nat
  BY <1>8, <1>10
<1> HIDE DEF a1, a2
<1>12. /\ Cardinality(C1) + a1 = Cardinality(C2) + a2 + Price(x)
       /\ session = hourly + past + Cardinality(C1) + a1
       /\ SpendIsAccounted' <=> session' = hourly' + past' + Cardinality(C2) + a2
  BY <1>8, <1>9, <1>10 DEF a1, a2
<1>13. \A s, h, p, m, i, n, j, d \in Nat :
          n + j = m + i + d /\ s = h + p + n + j => s = (h + d) + p + m + i
  OBVIOUS
<1>14. /\ Cardinality(C1) \in Nat /\ Cardinality(C2) \in Nat /\ Price(x) \in Nat
       /\ session \in Nat /\ hourly \in Nat /\ past \in Nat
  BY <1>8, <1>10
<1>15. session = (hourly + Price(x)) + past + Cardinality(C2) + a2
  BY <1>11, <1>12, <1>13, <1>14
<1>16. SpendIsAccounted'
  BY <1>7, <1>12, <1>15
<1> QED
  BY <1>7, <1>14, <1>16

LEMMA DreamsListImages ==
  ASSUME CallsInv
  PROVE  DreamOrder \in Seq(Asked) /\ (local_mode => DreamOrder \in Seq(OnMachine))
<1>1. Rotated \in Seq(Asked)
  <2> DEFINE p == <<"comfy", "dalle3", "imagen">>
  <2>1. \A i \in 1 .. 3 : 1 + ((rotation + i - 1) % 3) \in 1 .. 3
    BY DEF CallsInv
  <2>2. \A i \in 1 .. 3 : p[i] \in Asked
    BY DEF Asked
  <2> HIDE DEF p
  <2>3. \A i \in 1 .. 3 : p[1 + ((rotation + i - 1) % 3)] \in Asked
    BY <2>1, <2>2
  <2>4. Rotated = [i \in 1 .. 3 |-> p[1 + ((rotation + i - 1) % 3)]]
    BY DEF Rotated, p
  <2> QED
    BY <2>3, <2>4, IsASeq
<1> QED
  BY <1>1, Listings DEF DreamOrder

LEMMA DrawingsListImages ==
  ASSUME CallsInv
  PROVE  DrawOrder \in Seq(Asked) /\ (local_mode => DrawOrder \in Seq(OnMachine))
<1> DEFINE near == IF image_mode \in {"local", "auto"} \/ local_mode THEN <<"comfy">> ELSE <<>>
<1> DEFINE far == IF image_mode \in {"cloud", "auto"} /\ ~local_mode /\ Pressure < 75
                  THEN <<"dalle3", "imagen">> ELSE <<>>
<1>1. near \in Seq(Asked) /\ near \in Seq(OnMachine) /\ far \in Seq(Asked)
  BY Listings
<1>2. local_mode => far \in Seq(OnMachine)
  BY Listings
<1>3. DrawOrder = near \o far
  BY DEF DrawOrder
<1> HIDE DEF near, far
<1> QED
  BY <1>1, <1>2, <1>3, ConcatProperties

\* A thread that begins a list of images, or a call past call_llm.
LEMMA BeginsKeep ==
  ASSUME CallsInv, NEW c \in Callers, NEW job \in Jobs, NEW pc \in {"image", "direct"},
         NEW order \in Seq(Asked), local_mode /\ job # "vision" => order \in Seq(OnMachine),
         pc = "image" => job \in Drawings, Begins(c, job, pc, order)
  PROVE  CallersInv' /\ OwesNothing(c)
<1> DEFINE r == [job |-> job, pc |-> pc, order |-> order, local |-> local_mode]
<1>1. local_mode \in BOOLEAN /\ CallersInv
  BY DEF CallsInv
<1>2. CallerOK(r)
  BY <1>1 DEF CallerOK, CallerRecords
<1>3. callers' = [callers EXCEPT ![c] = r]
  BY DEF Begins, Becomes
<1>4. r.pc # "log"
  OBVIOUS
<1> HIDE DEF r
<1> QED
  BY <1>1, <1>2, <1>3, <1>4, OneCallerMoves DEF OwesNothing

LEMMA AnswersKeep ==
  ASSUME CallsInv, NEW m \in Models, Answered(m)
  PROVE  /\ failures' \in [Models -> 0 .. MaxFailures]
         /\ cooling' \subseteq {x \in Models : failures'[x] > 0}
<1>1. 0 \in 0 .. MaxFailures
  BY ArenaCallsAssumption
<1> QED
  BY <1>1 DEF CallsInv, Answered

LEMMA FailuresKeep ==
  ASSUME CallsInv, NEW m \in Models, cooling' = cooling \cup {m},
         failures' = [failures EXCEPT ![m] = IF @ < MaxFailures THEN @ + 1 ELSE @]
  PROVE  /\ failures' \in [Models -> 0 .. MaxFailures]
         /\ cooling' \subseteq {x \in Models : failures'[x] > 0}
<1>1. MaxFailures \in Nat \ {0} /\ failures \in [Models -> 0 .. MaxFailures]
  BY ArenaCallsAssumption DEF CallsInv
<1> DEFINE n == IF failures[m] < MaxFailures THEN failures[m] + 1 ELSE failures[m]
<1>2. n \in 0 .. MaxFailures /\ n > 0
  BY <1>1
<1>3. failures' = [failures EXCEPT ![m] = n]
  OBVIOUS
<1> HIDE DEF n
<1>4. \A x \in Models : failures'[x] = IF x = m THEN n ELSE failures[x]
  BY <1>1, <1>3
<1>5. cooling \subseteq {x \in Models : failures[x] > 0}
  BY DEF CallsInv
<1> QED
  BY <1>1, <1>2, <1>3, <1>4, <1>5

LEMMA FirstIsAsked ==
  ASSUME CallersInv, NEW c \in Callers, callers[c].order # <<>>
  PROVE  First(c) \in Asked
<1>1. callers[c].order \in Seq(Asked)
  BY DEF CallersInv, CallerOK, CallerRecords
<1> QED
  BY <1>1, HeadTailProperties DEF First

LEMMA EndsKeep ==
  ASSUME CallersInv, NEW c \in Callers, callers' = [callers EXCEPT ![c] = Idle]
  PROVE  CallersInv' /\ OwesNothing(c)
BY IdleIsOK, OneCallerMoves DEF OwesNothing

\* One step of a thread with a job, without the accounts of what is the same.
LEMMA CallStepInv ==
  ASSUME CallsInv, NEW c \in Callers,
         WaitEnds(c) \/ Try(c) \/ Answer(c) \/ AnswerLogged(c) \/ AskFails(c) \/ AskRaises(c)
  PROVE  CallsInv'
<1>0. CallersInv /\ CallerOK(callers[c]) /\ SpendIsAccounted /\ heat \in [Models -> 0 .. Overheat]
  BY DEF CallsInv, CallersInv
<1>1. CASE WaitEnds(c)
  <2>1. CallersInv' /\ heat' \in [Models -> 0 .. Overheat] /\ OwesNothing(c)
    <3>1. CASE comfy_busy
      <4>1. Raises(c)
        BY <1>1, <3>1 DEF WaitEnds
      <4> QED
        BY <4>1, RaisesKeep
    <3>2. CASE ~comfy_busy
      <4>1. /\ callers' = [callers EXCEPT ![c] = [callers[c] EXCEPT !.pc = "try"]]
            /\ heat' = heat /\ callers[c].pc = "wait"
        BY <1>1, <3>2 DEF WaitEnds, Is
      <4> QED
        BY <1>0, <4>1, PlacesKeep DEF OwesNothing
    <3> QED
      BY <3>1, <3>2
  <2>2. SpendIsAccounted'
    <3>1. ~Is(c, "log") /\ UNCHANGED money
      BY <1>1 DEF WaitEnds, Is
    <3> QED
      BY <1>0, <2>1, <3>1, AccountsStay
  <2> QED
    BY <1>1, <2>1, <2>2 DEF CallsInv, WaitEnds, modes, gpu, money, RendererIsReleased
<1>2. CASE Try(c)
  <2>1. CallersInv' /\ heat' \in [Models -> 0 .. Overheat] /\ OwesNothing(c)
    <3>1. CASE callers[c].order = <<>>
      <4>1. Raises(c)
        BY <1>2, <3>1 DEF Try
      <4> QED
        BY <4>1, RaisesKeep
    <3>2. CASE callers[c].order # <<>> /\ Passed(First(c))
      <4>1. TriesNext(c, "try") /\ heat' = heat /\ callers[c].pc = "try"
        BY <1>2, <3>2 DEF Try, Is
      <4> QED
        BY <1>0, <3>2, <4>1, TriesNextKeep
    <3>3. CASE callers[c].order # <<>> /\ ~Passed(First(c))
      <4>1. /\ callers' = [callers EXCEPT ![c] = [callers[c] EXCEPT !.pc = "ask"]]
            /\ heat' = heat /\ callers[c].pc = "try"
        BY <1>2, <3>3 DEF Try, Is
      <4> QED
        BY <1>0, <3>3, <4>1, PlacesKeep DEF OwesNothing
    <3> QED
      BY <3>1, <3>2, <3>3
  <2>2. SpendIsAccounted'
    <3>1. ~Is(c, "log") /\ UNCHANGED money
      BY <1>2 DEF Try, Is
    <3> QED
      BY <1>0, <2>1, <3>1, AccountsStay
  <2> QED
    BY <1>2, <2>1, <2>2 DEF CallsInv, Try, modes, gpu, money, RendererIsReleased
<1>3. CASE Answer(c)
  <2>1. callers[c].pc = "ask" /\ ~Is(c, "log")
    BY <1>3 DEF Answer, Is
  <2>2. First(c) \in Models /\ First(c) \in Asked
    BY <1>0, <1>3, AskedAreModels DEF Answer, Asked
  <2>3. callers' = [callers EXCEPT ![c] = [callers[c] EXCEPT !.pc = "log"]]
    BY <1>3 DEF Answer
  <2>4. /\ CallersInv' /\ OnlyMoves(c)
        /\ callers'[c].pc = "log" /\ callers'[c].order = callers[c].order
    BY <1>0, <2>1, <2>3, PlacesKeep
  <2>5. Charged(First(c))
    BY <1>3 DEF Answer
  <2>6. session' \in Nat /\ hourly' \in Nat /\ past' \in Nat /\ SpendIsAccounted'
    BY <2>1, <2>2, <2>4, <2>5, ChargesAreOwed
  <2> QED
    BY <1>3, <2>4, <2>6 DEF CallsInv, Answer, modes, gpu, router, RendererIsReleased
<1>4. CASE AnswerLogged(c)
  <2>1. callers[c].pc = "log" /\ Is(c, "log") /\ callers[c].job \notin Drawings
    BY <1>4 DEF AnswerLogged, Is
  <2>2. callers[c].order \in Seq(Models) /\ callers[c].order # <<>>
    BY <1>0, <2>1 DEF CallerOK
  <2>3. First(c) \in Models /\ First(c) \in Asked
    BY <2>2, HeadTailProperties DEF First, Asked
  <2>4. /\ failures' \in [Models -> 0 .. MaxFailures]
        /\ cooling' \subseteq {x \in Models : failures'[x] > 0}
    BY <1>4, <2>3, AnswersKeep DEF AnswerLogged
  <2>5. CallersInv' /\ OwesNothing(c)
    <3>1. CASE callers[c].job = "prompt"
      <4>1. Begins(c, "dream", "image", DreamOrder) /\ "dream" \in Jobs /\ "dream" \in Drawings
        BY <1>4, <3>1 DEF AnswerLogged, Jobs, Drawings
      <4> QED
        BY <4>1, BeginsKeep, DreamsListImages
    <3>2. CASE callers[c].job # "prompt"
      <4>1. callers' = [callers EXCEPT ![c] = Idle]
        BY <1>4, <3>2 DEF AnswerLogged, Becomes
      <4> QED
        BY <1>0, <4>1, EndsKeep
    <3> QED
      BY <3>1, <3>2
  <2>6. CostLogged(First(c))
    BY <1>4 DEF AnswerLogged
  <2>7. session' \in Nat /\ hourly' \in Nat /\ past' \in Nat /\ SpendIsAccounted'
    BY <2>1, <2>3, <2>5, <2>6, LogsPayTheDebt
  <2> QED
    BY <1>4, <2>4, <2>5, <2>7 DEF CallsInv, AnswerLogged, modes, gpu, RendererIsReleased
<1>5. CASE AskFails(c)
  <2>1. First(c) \in Models /\ callers[c].order # <<>> /\ callers[c].pc = "ask"
    BY <1>0, <1>5, AskedAreModels DEF AskFails, Is
  <2>2. /\ failures' \in [Models -> 0 .. MaxFailures]
        /\ cooling' \subseteq {x \in Models : failures'[x] > 0}
    BY <1>5, <2>1, FailuresKeep DEF AskFails
  <2>3. CallersInv' /\ OwesNothing(c)
    BY <1>0, <1>5, <2>1, TriesNextKeep DEF AskFails
  <2>4. SpendIsAccounted'
    <3>1. ~Is(c, "log") /\ UNCHANGED money
      BY <1>5 DEF AskFails, Is
    <3> QED
      BY <1>0, <2>3, <3>1, AccountsStay
  <2> QED
    BY <1>5, <2>2, <2>3, <2>4 DEF CallsInv, AskFails, modes, gpu, money, RendererIsReleased
<1>6. CASE AskRaises(c)
  <2>1. CallersInv' /\ heat' \in [Models -> 0 .. Overheat] /\ OwesNothing(c)
    BY <1>6, RaisesKeep DEF AskRaises
  <2>2. SpendIsAccounted'
    <3>1. ~Is(c, "log") /\ UNCHANGED money
      BY <1>6 DEF AskRaises, Is
    <3> QED
      BY <1>0, <2>1, <3>1, AccountsStay
  <2> QED
    BY <1>6, <2>1, <2>2 DEF CallsInv, AskRaises, modes, gpu, money, RendererIsReleased
<1> QED
  BY <1>1, <1>2, <1>3, <1>4, <1>5, <1>6

LEMMA ImageStepInv ==
  ASSUME CallsInv, NEW c \in Callers,
         Paint(c) \/ Painted(c) \/ PaintLogged(c) \/ PaintFails(c) \/ DirectEnds(c)
  PROVE  CallsInv'
<1>0. CallersInv /\ CallerOK(callers[c]) /\ SpendIsAccounted /\ heat \in [Models -> 0 .. Overheat]
  BY DEF CallsInv, CallersInv
<1>1. CASE Paint(c)
  <2>0. callers[c].pc = "image" /\ ~Is(c, "log") /\ UNCHANGED money
    BY <1>1 DEF Paint, Is
  <2>1. RendererIsReleased'
    BY <1>1 DEF Paint, CallsInv, RendererIsReleased, gpu
  <2>2. CallersInv' /\ OwesNothing(c)
    <3>1. CASE callers[c].order = <<>>
      <4>1. callers' = [callers EXCEPT ![c] = Idle]
        BY <1>1, <3>1 DEF Paint, Becomes
      <4> QED
        BY <1>0, <4>1, EndsKeep
    <3>2. CASE callers[c].order # <<>> /\ TriesNext(c, "image")
      BY <1>0, <2>0, <3>2, TriesNextKeep
    <3>3. CASE callers[c].order # <<>> /\ callers' = [callers EXCEPT ![c].pc = "paint"]
      <4>1. callers' = [callers EXCEPT ![c] = [callers[c] EXCEPT !.pc = "paint"]]
        BY <3>3
      <4> QED
        BY <1>0, <2>0, <3>3, <4>1, PlacesKeep DEF OwesNothing
    <3> QED
      BY <1>1, <3>1, <3>2, <3>3 DEF Paint
  <2>3. SpendIsAccounted'
    BY <1>0, <2>0, <2>2, AccountsStay
  <2> QED
    BY <1>1, <2>1, <2>2, <2>3 DEF CallsInv, Paint, modes, router, money
<1>2. CASE Painted(c)
  <2>1. RendererIsReleased'
    BY <1>2 DEF Painted, Released, CallsInv, RendererIsReleased, gpu
  <2>2. callers[c].pc = "paint" /\ ~Is(c, "log") /\ Charged(First(c))
    BY <1>2 DEF Painted, Is
  <2>3. First(c) \in Asked
    BY <1>0, <2>2, FirstIsAsked DEF CallerOK
  <2>4. callers' = [callers EXCEPT ![c] = [callers[c] EXCEPT !.pc = "log"]]
    BY <1>2 DEF Painted
  <2>5. /\ CallersInv' /\ OnlyMoves(c)
        /\ callers'[c].pc = "log" /\ callers'[c].order = callers[c].order
    BY <1>0, <2>2, <2>4, PlacesKeep
  <2>6. session' \in Nat /\ hourly' \in Nat /\ past' \in Nat /\ SpendIsAccounted'
    BY <2>2, <2>3, <2>5, ChargesAreOwed
  <2>7. rotation' \in 0 .. 2
    BY <1>2 DEF Painted, CallsInv
  <2> QED
    BY <1>2, <2>1, <2>5, <2>6, <2>7 DEF CallsInv, Painted, modes, router
<1>3. CASE PaintLogged(c)
  <2>1. callers[c].pc = "log" /\ Is(c, "log") /\ CostLogged(First(c))
    BY <1>3 DEF PaintLogged, Is
  <2>2. First(c) \in Asked
    BY <1>0, <2>1, FirstIsAsked DEF CallerOK
  <2>3. CallersInv' /\ heat' \in [Models -> 0 .. Overheat] /\ OwesNothing(c)
    <3>1. CASE callers[c].job = "dream"
      <4>1. Call(c, "reaction", Nudged("claude"))
        BY <1>3, <3>1 DEF PaintLogged
      <4>2. Nudged("claude") \in Models /\ "reaction" \in Jobs \ {"vision"}
        BY Listings DEF Nudged, Jobs
      <4> QED
        BY <4>1, <4>2, CallsListModels
    <3>2. CASE callers[c].job # "dream"
      <4>1. callers' = [callers EXCEPT ![c] = Idle] /\ heat' = heat
        BY <1>3, <3>2 DEF PaintLogged, Becomes
      <4> QED
        BY <1>0, <4>1, EndsKeep
    <3> QED
      BY <3>1, <3>2
  <2>4. session' \in Nat /\ hourly' \in Nat /\ past' \in Nat /\ SpendIsAccounted'
    BY <2>1, <2>2, <2>3, LogsPayTheDebt
  <2> QED
    BY <1>3, <2>3, <2>4 DEF CallsInv, PaintLogged, modes, gpu, RendererIsReleased
<1>4. CASE PaintFails(c)
  <2>0. callers[c].pc = "paint" /\ ~Is(c, "log") /\ UNCHANGED money
    BY <1>4 DEF PaintFails, Is
  <2>1. RendererIsReleased'
    BY <1>4 DEF PaintFails, Released, CallsInv, RendererIsReleased, gpu
  <2>2. CallersInv' /\ OwesNothing(c)
    <3>1. CASE callers' = [callers EXCEPT ![c] = Idle]
      BY <1>0, <3>1, EndsKeep
    <3>2. CASE TriesNext(c, "image")
      <4>1. callers[c].order # <<>>
        BY <1>0, <2>0 DEF CallerOK
      <4> QED
        BY <1>0, <2>0, <3>2, <4>1, TriesNextKeep
    <3> QED
      BY <1>4, <3>1, <3>2 DEF PaintFails, Becomes
  <2>3. SpendIsAccounted'
    BY <1>0, <2>0, <2>2, AccountsStay
  <2> QED
    BY <1>4, <2>1, <2>2, <2>3 DEF CallsInv, PaintFails, modes, router, money
<1>5. CASE DirectEnds(c)
  <2>1. callers' = [callers EXCEPT ![c] = Idle] /\ ~Is(c, "log") /\ UNCHANGED money
    BY <1>5 DEF DirectEnds, Becomes, Is
  <2>2. CallersInv' /\ OwesNothing(c)
    BY <1>0, <2>1, EndsKeep
  <2>3. SpendIsAccounted'
    BY <1>0, <2>1, <2>2, AccountsStay
  <2> QED
    BY <1>5, <2>2, <2>3 DEF CallsInv, DirectEnds, modes, gpu, router, money, RendererIsReleased
<1> QED
  BY <1>1, <1>2, <1>3, <1>4, <1>5

LEMMA BeginStepInv ==
  ASSUME CallsInv, NEW c \in Callers, NEW job \in hour.jobs[c], Begin(c, job)
  PROVE  CallsInv'
<1>1. job \in {"talk", "prompt", "draw", "vision", "advocate"}
  BY DEF CallsInv
<1>2. CallersInv' /\ heat' \in [Models -> 0 .. Overheat] /\ OwesNothing(c)
  <2>1. CASE job \in {"talk", "prompt"}
    <3>1. PICK m \in hour.models : Call(c, job, IF job = "prompt" THEN Nudged(m) ELSE m)
      BY <2>1 DEF Begin
    <3>2. (IF job = "prompt" THEN Nudged(m) ELSE m) \in Models
      BY Listings DEF CallsInv, Nudged
    <3>3. job \in Jobs \ {"vision"}
      BY <2>1 DEF Jobs
    <3> QED
      BY <3>1, <3>2, <3>3, CallsListModels
  <2>2. CASE job = "draw"
    <3>1. Begins(c, job, "image", DrawOrder) /\ heat' = heat /\ job \in Jobs /\ job \in Drawings
      BY <2>2 DEF Begin, Jobs, Drawings
    <3> QED
      BY <3>1, BeginsKeep, DrawingsListImages DEF CallsInv
  <2>3. CASE job = "vision"
    <3>1. Begins(c, job, "direct", <<"claude">>) /\ heat' = heat /\ job \in Jobs
      BY <2>3 DEF Begin, Jobs
    <3> QED
      BY <2>3, <3>1, BeginsKeep, Listings DEF CallsInv
  <2>4. CASE job = "advocate"
    <3>1. Begins(c, job, "direct", <<"gemma">>) /\ heat' = heat /\ job \in Jobs
      BY <2>4 DEF Begin, Jobs
    <3> QED
      BY <3>1, BeginsKeep, Listings DEF CallsInv
  <2> QED
    BY <1>1, <2>1, <2>2, <2>3, <2>4
<1>3. SpendIsAccounted'
  <2>1. ~Is(c, "log") /\ UNCHANGED money /\ SpendIsAccounted
    BY DEF Begin, Is, CallsInv
  <2> QED
    BY <1>2, <2>1, AccountsStay
<1> QED
  BY <1>2, <1>3 DEF CallsInv, Begin, modes, gpu, money, RendererIsReleased

LEMMA CallsStepInv ==
  ASSUME CallsInv, [CallsNext]_call_vars
  PROVE  CallsInv'
<1>1. ASSUME NEW m \in Models, Cooled(m)
      PROVE  CallsInv'
  BY <1>1 DEF CallsInv, Cooled, CallersInv, modes, gpu, money, SpendIsAccounted, Owing, Is, First, RendererIsReleased
<1>2. ASSUME Switch
      PROVE  hour' \in [jobs : [Callers -> SUBSET {"talk", "prompt", "draw", "vision", "advocate"}],
                         models : SUBSET Models, switches : Nat, budgets : SUBSET Nat]
  BY <1>2 DEF CallsInv, Switch
<1>3. ASSUME NEW on \in BOOLEAN, SetLocalMode(on)
      PROVE  CallsInv'
  <2>1. Switch
    BY <1>3 DEF SetLocalMode
  <2> QED
    BY <1>2, <1>3, <2>1
    DEF CallsInv, SetLocalMode, CallersInv, gpu, router, money, SpendIsAccounted, Owing, Is, First, RendererIsReleased
<1>4. ASSUME NEW m \in {"auto", "local", "cloud"}, SetImageMode(m)
      PROVE  CallsInv'
  <2>1. Switch
    BY <1>4 DEF SetImageMode
  <2> QED
    BY <1>2, <1>4, <2>1
    DEF CallsInv, SetImageMode, CallersInv, gpu, router, money, SpendIsAccounted, Owing, Is, First, RendererIsReleased
<1>5. ASSUME NEW b, SetBudget(b)
      PROVE  CallsInv'
  <2>1. Switch
    BY <1>5 DEF SetBudget
  <2> QED
    BY <1>2, <1>5, <2>1
    DEF CallsInv, SetBudget, CallersInv, gpu, router, money, SpendIsAccounted, Owing, Is, First, RendererIsReleased
<1>6. CASE WindowMoves
  BY <1>6 DEF CallsInv, WindowMoves, CallersInv, modes, gpu, router, SpendIsAccounted, Owing, Is, First, RendererIsReleased
<1>7. CASE UNCHANGED call_vars
  BY <1>7 DEF call_vars, CallsInv, CallersInv, modes, gpu, router, money, SpendIsAccounted, Owing, Is, First, RendererIsReleased
<1> QED
  BY <1>1, <1>3, <1>4, <1>5, <1>6, <1>7, CallStepInv, ImageStepInv, BeginStepInv DEF CallsNext, GoesOn

LEMMA CallsInvImplies ==
  ASSUME CallsInv
  PROVE  CallsTypeOK /\ SpendIsAccounted /\ RendererIsReleased /\ ListedLocalStaysLocal
<1>1. ASSUME NEW c \in Callers, callers[c].local, callers[c].job # "vision"
      PROVE  IsLocal(c)
  <2>1. callers[c].order \in Seq(OnMachine)
    BY <1>1 DEF CallsInv, CallersInv, CallerOK
  <2>2. CASE callers[c].order = <<>>
    BY <2>2 DEF IsLocal
  <2>3. CASE callers[c].order # <<>>
    BY <2>1, <2>3, HeadTailProperties DEF IsLocal, First, OnMachine
  <2> QED
    BY <2>2, <2>3
<1>2. ListedLocalStaysLocal
  BY <1>1 DEF ListedLocalStaysLocal
<1>3. \A c \in Callers : callers[c].job \in Jobs \cup {"none"}
  BY DEF CallsInv, CallersInv, CallerOK, CallerRecords
<1> QED
  BY <1>2, <1>3 DEF CallsInv, CallsTypeOK

\* The flags, the money and who may leave the machine, whatever fails and
\* however starts, stops and calls cross.
THEOREM WhatThreadsShareStaysTrue == LoopsSpec /\ CallsSpec => []FlagsAndSpendAreTrue
<1>1. CallsInit => CallsInv
  BY CallsInitInv
<1>2. CallsInv /\ [CallsNext]_call_vars => CallsInv'
  BY CallsStepInv
<1>3. CallsInv /\ LoopsTypeOK /\ AdvocateFlagIsTrue => FlagsAndSpendAreTrue
  BY CallsInvImplies DEF FlagsAndSpendAreTrue
<1>4. CallsSpec => []CallsInv
  BY <1>1, <1>2, PTL DEF CallsSpec
<1> QED
  BY <1>3, <1>4, LoopsStayTrue, PTL

-----------------------------------------------------------------------------
(* The chat                                                                 *)

EveningTypeOK == evening \in [at_once : Nat, chats : Nat, pages : Nat, messages : Nat]

LogInv == said \in Nat /\ trimmed \in Nat /\ said - trimmed <= ChatLogMax

\* A nonce was processed once for each time all nonces were forgotten, and
\* once more while it is known.
DedupInv ==
    /\ processed \in [Nonces -> Nat] /\ forgotten \in Nat
    /\ IsFiniteSet(seen_nonces) /\ Cardinality(seen_nonces) <= NonceMax
    /\ \A n \in Nonces : processed[n] <= forgotten + (IF n \in seen_nonces THEN 1 ELSE 0)

FiniteSets_ == {S \in SUBSET Nat : IsFiniteSet(S)}

ClientRecords ==
    [pc : {"rest", "heard", "summing", "counted", "told", "asked"}, old : FiniteSets_, summary : SUBSET Nat]

\* With one request at a time, the text of the cache is of the first entries,
\* of as many as its count says, unless the one request is writing it.
SummaryInv ==
    evening.at_once = 1 /\ trimmed = 0 =>
        /\ (\A c \in Clients : clients[c].pc # "counted") => cache.text = 1 .. cache.count
        /\ \A c \in Clients :
              LET r == clients[c] IN
              /\ r.pc \in {"summing", "counted", "told"} => \E k \in Nat : r.old = 1 .. k
              /\ r.pc = "summing" => r.summary = {}
              /\ r.pc \in {"counted", "told"} => r.summary = r.old
              /\ r.pc = "counted" => cache.count = Cardinality(r.old)

RequestsInv ==
    /\ clients \in [Clients -> ClientRecords]
    /\ cache \in [count : Nat, text : SUBSET Nat]
    /\ evening.at_once = 1 => \A c, d \in Serving : c = d
    /\ SummaryInv

\* No message is in a queue twice, or in one before its broadcast is done.
FeedInv ==
    /\ queues \in [Pages -> Seq(Nat)]
    /\ casting \subseteq [id : Nat, to : {Pages}]
    /\ \A b \in casting : b.id > evening.messages
    /\ \A p \in Pages : Len(queues[p]) <= QueueMax
    /\ \A p \in Pages : \A i \in DOMAIN queues[p] :
          /\ queues[p][i] > evening.messages
          /\ \A b \in casting : queues[p][i] # b.id
          /\ \A j \in DOMAIN queues[p] : queues[p][i] = queues[p][j] => i = j
    /\ PagesAgree

ChatInv == EveningTypeOK /\ LogInv /\ DedupInv /\ RequestsInv /\ FeedInv

LEMMA ChatInitInv ==
  ASSUME ChatInit
  PROVE  ChatInv
<1>1. EveningTypeOK
  BY ArenaChatAssumption DEF ChatInit, EveningTypeOK
<1>2. LogInv
  BY ArenaChatAssumption DEF ChatInit, LogInv
<1>3. DedupInv
  BY ArenaChatAssumption, FS_EmptySet DEF ChatInit, DedupInv
<1>4. RequestsInv
  <2>1. Resting \in ClientRecords /\ Resting.pc = "rest"
    BY FS_EmptySet DEF Resting, ClientRecords, FiniteSets_
  <2>2. \A c \in Clients : clients[c] = Resting
    BY DEF ChatInit
  <2>3. clients \in [Clients -> ClientRecords]
    BY <2>1 DEF ChatInit
  <2>4. Serving = {}
    BY <2>1, <2>2 DEF Serving
  <2>5. cache = [count |-> 0, text |-> {}]
    BY DEF ChatInit
  <2>6. cache.text = 1 .. cache.count /\ cache \in [count : Nat, text : SUBSET Nat]
    BY <2>5
  <2>7. SummaryInv
    BY <2>1, <2>2, <2>6 DEF SummaryInv
  <2> QED
    BY <2>3, <2>4, <2>6, <2>7 DEF RequestsInv
<1>5. FeedInv
  <2>1. \A p \in Pages : queues[p] = <<>>
    BY DEF ChatInit
  <2>2. <<>> \in Seq(Nat) /\ Len(<<>>) = 0 /\ DOMAIN <<>> = {}
    BY EmptySeq, LenProperties
  <2> QED
    BY <2>1, <2>2, ArenaChatAssumption DEF ChatInit, FeedInv, PagesAgree
<1> QED
  BY <1>1, <1>2, <1>3, <1>4, <1>5 DEF ChatInv

LEMMA EveningsShrink ==
  ASSUME EveningTypeOK, [ChatNext]_chat_vars
  PROVE  /\ EveningTypeOK' /\ evening'.at_once = evening.at_once
         /\ evening'.messages <= evening.messages
<1>1. \/ evening' = evening
      \/ \E what \in {"chats", "pages", "messages"} : Use(what)
  BY DEF ChatNext, chat_vars, Receive, Thought, Build, KeepCount, KeepText, Append_, Connect, Leave_, Cast, Deliver
<1>2. ASSUME NEW what \in {"chats", "pages", "messages"}, Use(what)
      PROVE  /\ EveningTypeOK' /\ evening'.at_once = evening.at_once
             /\ evening'.messages <= evening.messages
  BY <1>2 DEF Use, EveningTypeOK
<1> QED
  BY <1>1, <1>2 DEF EveningTypeOK

LEMMA LogStep ==
  ASSUME LogInv, [ChatNext]_chat_vars
  PROVE  LogInv' /\ (trimmed' = 0 => trimmed = 0)
<1>1. \/ UNCHANGED chat_log
      \/ /\ said' = said + 1
         /\ trimmed' = IF said' - trimmed > ChatLogMax THEN said' - ChatLogMax ELSE trimmed
  BY DEF ChatNext, chat_vars, Receive, Thought, Build, KeepCount, KeepText, Append_, Connect, Leave_, Cast, Deliver
<1> QED
  BY <1>1, ArenaChatAssumption DEF LogInv, chat_log

LEMMA DedupStep ==
  ASSUME DedupInv, [ChatNext]_chat_vars
  PROVE  DedupInv'
<1>1. \/ UNCHANGED dedup
      \/ \E c \in Clients, n \in Nonces : Receive(c, n)
  BY DEF ChatNext, chat_vars, Thought, Build, KeepCount, KeepText, Append_, Connect, Leave_, Cast, Deliver
<1>2. ASSUME NEW c \in Clients, NEW n \in Nonces, Receive(c, n), ~UNCHANGED dedup
      PROVE  DedupInv'
  <2>1. n \notin seen_nonces /\ processed' = [processed EXCEPT ![n] = @ + 1]
    BY <1>2 DEF Receive
  <2>2. processed' \in [Nonces -> Nat] /\ \A m \in Nonces : processed'[m] = processed[m] + (IF m = n THEN 1 ELSE 0)
    BY <2>1 DEF DedupInv
  <2>3. CASE Cardinality(seen_nonces) >= NonceMax
    <3>1. seen_nonces' = {} /\ forgotten' = forgotten + 1
      BY <1>2, <2>1, <2>3 DEF Receive
    <3>2. IsFiniteSet(seen_nonces') /\ Cardinality(seen_nonces') <= NonceMax
      BY <3>1, FS_EmptySet, ArenaChatAssumption
    <3> QED
      BY <2>1, <2>2, <3>1, <3>2 DEF DedupInv
  <2>4. CASE ~(Cardinality(seen_nonces) >= NonceMax)
    <3>1. seen_nonces' = seen_nonces \cup {n} /\ forgotten' = forgotten
      BY <1>2, <2>1, <2>4 DEF Receive
    <3>3. IsFiniteSet(seen_nonces) /\ Cardinality(seen_nonces) \in Nat
      BY FS_CardinalityType DEF DedupInv
    <3>4. IsFiniteSet(seen_nonces') /\ Cardinality(seen_nonces') = Cardinality(seen_nonces) + 1
      BY <2>1, <3>1, <3>3, FS_AddElement
    <3>2. IsFiniteSet(seen_nonces') /\ Cardinality(seen_nonces') <= NonceMax
      BY <2>4, <3>3, <3>4, ArenaChatAssumption
    <3> QED
      BY <2>1, <2>2, <3>1, <3>2 DEF DedupInv
  <2> QED
    BY <2>3, <2>4
<1> QED
  BY <1>1, <1>2 DEF dedup, DedupInv

-----------------------------------------------------------------------------
(* Requests and their summaries                                             *)

\* What a request's record must say while the cache is as given.
RequestOK(r, count) ==
    /\ r.pc \in {"summing", "counted", "told"} => \E k \in Nat : r.old = 1 .. k
    /\ r.pc = "summing" => r.summary = {}
    /\ r.pc \in {"counted", "told"} => r.summary = r.old
    /\ r.pc = "counted" => count = Cardinality(r.old)

\* One request takes a step.
LEMMA OneRequestMoves ==
  ASSUME RequestsInv, NEW c \in Clients, NEW r \in ClientRecords,
         clients' = [clients EXCEPT ![c] = r],
         evening'.at_once = evening.at_once, trimmed' = 0 => trimmed = 0,
         cache' \in [count : Nat, text : SUBSET Nat],
         clients[c].pc # "rest",
         evening.at_once = 1 /\ trimmed = 0 =>
            /\ RequestOK(r, cache'.count)
            /\ r.pc # "counted" => cache'.text = 1 .. cache'.count
  PROVE  RequestsInv'
<1>1. \A d \in Clients : clients'[d] = IF d = c THEN r ELSE clients[d]
  BY DEF RequestsInv
<1>2. clients' \in [Clients -> ClientRecords]
  BY DEF RequestsInv
<1>3. Serving' \subseteq Serving
  BY <1>1 DEF Serving
<1>4. evening'.at_once = 1 => \A a, d \in Serving' : a = d
  BY <1>3 DEF RequestsInv
<1>5. ASSUME evening'.at_once = 1, trimmed' = 0
      PROVE  /\ (\A d \in Clients : clients'[d].pc # "counted") => cache'.text = 1 .. cache'.count
             /\ \A d \in Clients : RequestOK(clients'[d], cache'.count)
  <2>1. evening.at_once = 1 /\ trimmed = 0
    BY <1>5
  <2>2. \A d \in Clients : d # c => clients[d].pc = "rest"
    BY <2>1 DEF RequestsInv, Serving
  <2>3. RequestOK(r, cache'.count) /\ (r.pc # "counted" => cache'.text = 1 .. cache'.count)
    BY <2>1
  <2>4. \A d \in Clients : RequestOK(clients'[d], cache'.count)
    <3> TAKE d \in Clients
    <3>1. CASE d = c
      BY <1>1, <2>3, <3>1
    <3>2. CASE d # c
      BY <1>1, <2>2, <3>2 DEF RequestOK
    <3> QED
      BY <3>1, <3>2
  <2>5. (\A d \in Clients : clients'[d].pc # "counted") => r.pc # "counted"
    BY <1>1
  <2> QED
    BY <2>3, <2>4, <2>5
<1>6. SummaryInv'
  BY <1>5 DEF SummaryInv, RequestOK
<1> QED
  BY <1>2, <1>4, <1>6 DEF RequestsInv

LEMMA SummaryFacts ==
  ASSUME RequestsInv, NEW c \in Clients, evening.at_once = 1, trimmed = 0
  PROVE  /\ RequestOK(clients[c], cache.count)
         /\ clients[c].pc \notin {"rest", "counted"} => cache.text = 1 .. cache.count
<1>1. RequestOK(clients[c], cache.count)
  BY DEF RequestsInv, SummaryInv, RequestOK
<1>2. ASSUME clients[c].pc \notin {"rest", "counted"}
      PROVE  cache.text = 1 .. cache.count
  <2>1. \A d \in Clients : d # c => clients[d].pc = "rest"
    BY <1>2 DEF RequestsInv, Serving
  <2>2. \A d \in Clients : clients[d].pc # "counted"
    BY <1>2, <2>1
  <2> QED
    BY <2>2 DEF RequestsInv, SummaryInv
<1> QED
  BY <1>1, <1>2

LEMMA RequestsStayWhenNothingMoves ==
  ASSUME RequestsInv, UNCHANGED <<clients, cache>>, evening'.at_once = evening.at_once,
         trimmed' = 0 => trimmed = 0
  PROVE  RequestsInv'
BY DEF RequestsInv, SummaryInv, Serving

\* A request arrives where there was none, if they come one at a time.
LEMMA ReceiveKeeps ==
  ASSUME RequestsInv, NEW c \in Clients, NEW n \in Nonces, Receive(c, n),
         Cardinality(Serving) < evening.at_once,
         evening'.at_once = evening.at_once, trimmed' = 0 => trimmed = 0
  PROVE  RequestsInv'
<1>1. CASE UNCHANGED clients
  BY <1>1, RequestsStayWhenNothingMoves DEF Receive
<1>2. CASE clients' = [clients EXCEPT ![c].pc = "heard"]
  <2>1. cache' = cache
    BY DEF Receive
  <2>2. \A d \in Clients : clients'[d] = IF d = c THEN [clients[c] EXCEPT !.pc = "heard"] ELSE clients[d]
    BY <1>2 DEF RequestsInv
  <2>3. clients' \in [Clients -> ClientRecords]
    BY <1>2 DEF RequestsInv, ClientRecords
  <2>4. \A d \in Clients : clients'[d].pc = IF d = c THEN "heard" ELSE clients[d].pc
    BY <2>2 DEF RequestsInv, ClientRecords
  <2>5. ASSUME evening.at_once = 1
        PROVE  Serving = {}
    <3>1. ASSUME NEW d \in Serving
          PROVE  FALSE
      <4>1. Serving = {d}
        BY <2>5, <3>1 DEF RequestsInv
      <4>2. Cardinality(Serving) = 1
        BY <4>1, FS_Singleton
      <4> QED
        BY <2>5, <4>2
    <3> QED
      BY <3>1
  <2>6. evening.at_once = 1 => Serving' = {c}
    BY <2>4, <2>5 DEF Serving
  <2>7. ASSUME evening'.at_once = 1, trimmed' = 0
        PROVE  /\ cache'.text = 1 .. cache'.count
               /\ \A d \in Clients : RequestOK(clients'[d], cache'.count)
    <3>1. \A d \in Clients : clients[d].pc = "rest"
      BY <2>5, <2>7 DEF Serving
    <3>2. \A d \in Clients : clients'[d].pc \in {"rest", "heard"}
      BY <2>4, <3>1
    <3> QED
      BY <2>1, <2>7, <3>1, <3>2 DEF RequestsInv, SummaryInv, RequestOK
  <2>8. SummaryInv'
    BY <2>7 DEF SummaryInv, RequestOK
  <2> QED
    BY <2>1, <2>3, <2>6, <2>8 DEF RequestsInv
<1> QED
  BY <1>1, <1>2 DEF Receive, Now

\* The entries a prompt leaves out are the first ones, when nothing was
\* trimmed.
LEMMA OldEntries ==
  ASSUME LogInv, NEW old, old = {e \in Log : e <= said - Keep}
  PROVE  old \in FiniteSets_ /\ (trimmed = 0 => \E k \in Nat : old = 1 .. k)
<1>1. IsFiniteSet(Log) /\ Log \subseteq Nat
  BY FS_Interval DEF Log, LogInv
<1>2. old \in FiniteSets_
  BY <1>1, FS_Subset DEF FiniteSets_
<1>3. ASSUME trimmed = 0
      PROVE  \E k \in Nat : old = 1 .. k
  <2> DEFINE k == IF said >= Keep THEN said - Keep ELSE 0
  <2>1. k \in Nat /\ old = 1 .. k
    BY <1>3, ArenaChatAssumption DEF Log, LogInv
  <2> QED
    BY <2>1
<1> QED
  BY <1>2, <1>3

LEMMA BuildKeeps ==
  ASSUME RequestsInv, LogInv, NEW c \in Clients, Build(c)
  PROVE  RequestsInv'
<1> DEFINE old == {e \in Log : e <= said - Keep}
<1> DEFINE hits == CacheHits(old)
<1> DEFINE r == [pc |-> IF old = {} \/ hits THEN "told" ELSE "summing", old |-> old,
                 summary |-> IF old # {} /\ hits THEN cache.text ELSE {}]
<1>1. clients' = [clients EXCEPT ![c] = r] /\ clients[c].pc = "heard" /\ UNCHANGED <<evening, said, trimmed, cache>>
  BY DEF Build, Serves, chat_log
<1>2. old \in FiniteSets_ /\ (trimmed = 0 => \E k \in Nat : old = 1 .. k)
  BY OldEntries
<1>3. hits <=> cache.count = Cardinality(old) /\ cache.text # {}
  BY DEF CacheHits
<1>4. cache \in [count : Nat, text : SUBSET Nat]
  BY DEF RequestsInv
<1> HIDE DEF old, hits
<1>5. r \in ClientRecords /\ r.pc # "counted"
  BY <1>2, <1>4 DEF ClientRecords
<1>6. ASSUME evening.at_once = 1, trimmed = 0
      PROVE  RequestOK(r, cache.count) /\ cache.text = 1 .. cache.count
  <2>1. cache.text = 1 .. cache.count
    BY <1>1, <1>6, SummaryFacts
  <2>2. PICK k \in Nat : old = 1 .. k
    BY <1>2, <1>6
  <2>3. Cardinality(old) = k
    BY <2>2, FS_Interval
  <2>4. hits => cache.text = old
    BY <1>3, <2>1, <2>2, <2>3
  <2> QED
    BY <2>1, <2>2, <2>4 DEF RequestOK
<1> HIDE DEF r
<1> QED
  BY <1>1, <1>4, <1>5, <1>6, OneRequestMoves

LEMMA KeepCountKeeps ==
  ASSUME RequestsInv, NEW c \in Clients, KeepCount(c)
  PROVE  RequestsInv'
<1> DEFINE q == clients[c]
<1> DEFINE r == [q EXCEPT !.pc = "counted", !.summary = q.summary \cup q.old]
<1>1. clients' = [clients EXCEPT ![c] = r]
  BY DEF KeepCount
<1>2. q \in ClientRecords /\ q.pc = "summing"
  BY DEF KeepCount, Serves, RequestsInv
<1>3. UNCHANGED <<evening, trimmed>> /\ cache' = [cache EXCEPT !.count = Cardinality(q.old)]
  BY DEF KeepCount, chat_log
<1>4. ASSUME evening.at_once = 1, trimmed = 0
      PROVE  RequestOK(q, cache.count)
  BY <1>4, SummaryFacts
<1>5. cache \in [count : Nat, text : SUBSET Nat]
  BY DEF RequestsInv
<1> HIDE DEF q
<1>6. r \in ClientRecords /\ r.pc = "counted" /\ r.old = q.old /\ r.summary = q.summary \cup q.old
  BY <1>2 DEF ClientRecords, FiniteSets_
<1>7. Cardinality(q.old) \in Nat
  BY <1>2, FS_CardinalityType DEF ClientRecords, FiniteSets_
<1>8. cache' \in [count : Nat, text : SUBSET Nat] /\ cache'.count = Cardinality(q.old)
  BY <1>3, <1>5, <1>7
<1> HIDE DEF r
<1>9. evening.at_once = 1 /\ trimmed = 0 => RequestOK(r, cache'.count)
  BY <1>2, <1>4, <1>6, <1>8 DEF RequestOK
<1>10. clients[c].pc # "rest"
  BY <1>2 DEF q
<1> QED
  BY <1>1, <1>3, <1>6, <1>8, <1>9, <1>10, OneRequestMoves

LEMMA KeepTextKeeps ==
  ASSUME RequestsInv, NEW c \in Clients, KeepText(c)
  PROVE  RequestsInv'
<1> DEFINE q == clients[c]
<1> DEFINE r == [q EXCEPT !.pc = "told"]
<1>1. clients' = [clients EXCEPT ![c] = r]
  BY DEF KeepText, Now
<1>2. q \in ClientRecords /\ q.pc = "counted"
  BY DEF KeepText, Serves, RequestsInv
<1>3. UNCHANGED <<evening, trimmed>> /\ cache' = [cache EXCEPT !.text = q.old]
  BY DEF KeepText, chat_log
<1>4. ASSUME evening.at_once = 1, trimmed = 0
      PROVE  RequestOK(q, cache.count)
  BY <1>4, SummaryFacts
<1>5. cache \in [count : Nat, text : SUBSET Nat]
  BY DEF RequestsInv
<1>10. clients[c].pc # "rest"
  BY <1>2
<1> HIDE DEF q
<1>6. r \in ClientRecords /\ r.pc = "told" /\ r.old = q.old /\ r.summary = q.summary
  BY <1>2 DEF ClientRecords
<1>7. q.old \subseteq Nat
  BY <1>2 DEF ClientRecords, FiniteSets_
<1>8. cache' \in [count : Nat, text : SUBSET Nat] /\ cache'.text = q.old /\ cache'.count = cache.count
  BY <1>3, <1>5, <1>7
<1> HIDE DEF r
<1>9. ASSUME evening.at_once = 1, trimmed = 0
      PROVE  RequestOK(r, cache'.count) /\ cache'.text = 1 .. cache'.count
  <2>1. RequestOK(q, cache.count)
    BY <1>4, <1>9
  <2>2. PICK k \in Nat : q.old = 1 .. k
    BY <1>2, <2>1 DEF RequestOK
  <2>3. cache.count = Cardinality(q.old)
    BY <1>2, <2>1 DEF RequestOK
  <2>4. cache.count = k
    BY <2>2, <2>3, FS_Interval
  <2> QED
    BY <1>2, <1>6, <1>8, <2>1, <2>2, <2>4 DEF RequestOK
<1> QED
  BY <1>1, <1>3, <1>6, <1>8, <1>9, <1>10, OneRequestMoves

LEMMA AppendKeeps ==
  ASSUME RequestsInv, NEW c \in Clients, Append_(c), trimmed' = 0 => trimmed = 0
  PROVE  RequestsInv'
<1> DEFINE q == clients[c]
<1> DEFINE r == IF q.pc = "told" THEN [q EXCEPT !.pc = "asked"] ELSE Resting
<1>1. clients' = [clients EXCEPT ![c] = r]
  BY DEF Append_, Serves, Now
<1>2. q \in ClientRecords /\ q.pc \in {"told", "asked"} /\ clients[c].pc # "rest"
  BY DEF Append_, RequestsInv
<1>3. UNCHANGED <<evening, cache>>
  BY DEF Append_
<1>4. ASSUME evening.at_once = 1, trimmed = 0
      PROVE  cache.text = 1 .. cache.count
  BY <1>2, <1>4, SummaryFacts
<1>5. cache \in [count : Nat, text : SUBSET Nat]
  BY DEF RequestsInv
<1> HIDE DEF q
<1>6. r \in ClientRecords /\ r.pc \in {"asked", "rest"}
  BY <1>2, FS_EmptySet DEF ClientRecords, Resting, FiniteSets_
<1> HIDE DEF r
<1>7. RequestOK(r, cache'.count)
  BY <1>6 DEF RequestOK
<1> QED
  BY <1>1, <1>2, <1>3, <1>4, <1>5, <1>6, <1>7, OneRequestMoves

LEMMA RequestsStep ==
  ASSUME EveningTypeOK, LogInv, RequestsInv, [ChatNext]_chat_vars
  PROVE  RequestsInv'
<1>1. evening'.at_once = evening.at_once /\ (trimmed' = 0 => trimmed = 0)
  BY EveningsShrink, LogStep
<1>2. \/ UNCHANGED <<clients, cache>>
      \/ \E c \in Clients, n \in Nonces : Cardinality(Serving) < evening.at_once /\ Receive(c, n)
      \/ \E c \in Clients : Build(c) \/ KeepCount(c) \/ KeepText(c) \/ Append_(c)
  BY DEF ChatNext, chat_vars, Thought, Connect, Leave_, Cast, Deliver
<1> QED
  BY <1>1, <1>2, RequestsStayWhenNothingMoves, ReceiveKeeps, BuildKeeps, KeepCountKeeps, KeepTextKeeps, AppendKeeps

-----------------------------------------------------------------------------
(* The feed                                                                 *)

\* What two queues may not be: one has a before b, the other b before a.
Crossed(s, t) == \E i, j \in DOMAIN s : i < j /\ \E k, l \in DOMAIN t : k < l /\ t[k] = s[j] /\ t[l] = s[i]

LEMMA AgreeMeansNoneCrossed == PagesAgree <=> \A p, q \in Pages : ~Crossed(queues[p], queues[q])
BY DEF PagesAgree, Before, Crossed

\* A queue that got the message b, or none.
Grown(s, t, b) == t = s \/ t = Append(s, b)

LEMMA GrownQueues ==
  ASSUME NEW s \in Seq(Nat), NEW b \in Nat, NEW t, Grown(s, t, b)
  PROVE  /\ t \in Seq(Nat)
         /\ \A i \in DOMAIN t : \/ i \in DOMAIN s /\ t[i] = s[i]
                                \/ i = Len(s) + 1 /\ t[i] = b
         /\ DOMAIN s \subseteq 1 .. Len(s) /\ Len(s) \in Nat
<1>1. Len(s) \in Nat /\ DOMAIN s = 1 .. Len(s)
  BY LenProperties
<1>2. CASE t = s
  BY <1>1, <1>2
<1>3. CASE t = Append(s, b)
  <2>1. t \in Seq(Nat) /\ Len(t) = Len(s) + 1 /\ \A i \in 1 .. Len(s) : t[i] = s[i]
    BY <1>3, AppendProperties
  <2>2. t[Len(s) + 1] = b
    BY <1>3, AppendProperties
  <2>3. DOMAIN t = 1 .. Len(t)
    BY <2>1, LenProperties
  <2> QED
    BY <1>1, <2>1, <2>2, <2>3
<1> QED
  BY <1>2, <1>3 DEF Grown

\* Two queues without the message that do not cross do not cross when it is
\* put at their ends.
LEMMA GrownDoNotCross ==
  ASSUME NEW s \in Seq(Nat), NEW t \in Seq(Nat), NEW b \in Nat,
         \A i \in DOMAIN s : s[i] # b, \A i \in DOMAIN t : t[i] # b, ~Crossed(s, t),
         NEW u, Grown(s, u, b), NEW v, Grown(t, v, b)
  PROVE  ~Crossed(u, v)
<1>1. /\ \A i \in DOMAIN u : (i \in DOMAIN s /\ u[i] = s[i]) \/ (i = Len(s) + 1 /\ u[i] = b)
      /\ DOMAIN s \subseteq 1 .. Len(s) /\ Len(s) \in Nat
  BY GrownQueues
<1>2. /\ \A i \in DOMAIN v : (i \in DOMAIN t /\ v[i] = t[i]) \/ (i = Len(t) + 1 /\ v[i] = b)
      /\ DOMAIN t \subseteq 1 .. Len(t) /\ Len(t) \in Nat
  BY GrownQueues
<1>3. SUFFICES ASSUME NEW i \in DOMAIN u, NEW j \in DOMAIN u, i < j,
                      NEW k \in DOMAIN v, NEW l \in DOMAIN v, k < l, v[k] = u[j], v[l] = u[i]
               PROVE  FALSE
  BY DEF Crossed
<1>4. i \in DOMAIN s /\ u[i] = s[i]
  BY <1>1, <1>3
<1>5. k \in DOMAIN t /\ v[k] = t[k]
  BY <1>2, <1>3
<1>6. l \in DOMAIN t /\ v[l] = t[l]
  BY <1>2, <1>3, <1>4
<1>7. j \in DOMAIN s /\ u[j] = s[j]
  BY <1>1, <1>3, <1>5
<1> QED
  BY <1>3, <1>4, <1>5, <1>6, <1>7 DEF Crossed

\* Facts about one queue.
QueueOK(s, messages, ids) ==
    /\ s \in Seq(Nat) /\ Len(s) <= QueueMax
    /\ \A i \in DOMAIN s : /\ s[i] > messages /\ s[i] \notin ids
                          /\ \A j \in DOMAIN s : s[i] = s[j] => i = j

Ids(bs) == {b.id : b \in bs}

LEMMA FeedInParts ==
  FeedInv <=> /\ DOMAIN queues = Pages /\ queues = [p \in Pages |-> queues[p]]
              /\ casting \subseteq [id : Nat, to : {Pages}]
              /\ \A b \in casting : b.id > evening.messages
              /\ \A p \in Pages : QueueOK(queues[p], evening.messages, Ids(casting))
              /\ PagesAgree
BY DEF FeedInv, QueueOK, Ids

LEMMA QueuesStayOK ==
  ASSUME NEW s, NEW messages \in Nat, NEW ids, QueueOK(s, messages, ids),
         NEW m \in Nat, m <= messages, NEW S, \A i \in S \ ids : i <= messages
  PROVE  QueueOK(s, m, S)
<1>1. s \in Seq(Nat)
  BY DEF QueueOK
<1>2. \A i \in DOMAIN s : s[i] \in Nat
  BY <1>1, ElementOfSeq, LenProperties
<1> QED
  BY <1>1, <1>2 DEF QueueOK

LEMMA EmptyQueuesAreOK ==
  ASSUME NEW messages \in Nat, NEW ids
  PROVE  QueueOK(<<>>, messages, ids)
<1>1. <<>> \in Seq(Nat) /\ Len(<<>>) = 0 /\ DOMAIN <<>> = {}
  BY EmptySeq, LenProperties
<1> QED
  BY <1>1, ArenaChatAssumption DEF QueueOK

LEMMA GrownQueuesAreOK ==
  ASSUME NEW s, NEW messages \in Nat, NEW ids, QueueOK(s, messages, ids),
         NEW b \in Nat, b \in ids, b > messages, NEW t, Grown(s, t, b), Len(s) < QueueMax \/ t = s
  PROVE  QueueOK(t, messages, ids \ {b})
<1>1. s \in Seq(Nat)
  BY DEF QueueOK
<1>2. /\ t \in Seq(Nat)
      /\ \A i \in DOMAIN t : (i \in DOMAIN s /\ t[i] = s[i]) \/ (i = Len(s) + 1 /\ t[i] = b)
      /\ DOMAIN s \subseteq 1 .. Len(s) /\ Len(s) \in Nat
  BY <1>1, GrownQueues
<1>3. \A i \in DOMAIN s : s[i] # b
  BY DEF QueueOK
<1>4. Len(t) <= QueueMax
  <2>1. CASE t = s
    BY <2>1 DEF QueueOK
  <2>2. CASE t # s
    <3>1. t = Append(s, b) /\ Len(s) < QueueMax
      BY <2>2 DEF Grown
    <3>2. Len(t) = Len(s) + 1
      BY <1>1, <3>1, AppendProperties
    <3> QED
      BY <1>2, <3>1, <3>2, ArenaChatAssumption
  <2> QED
    BY <2>1, <2>2
<1>5. ASSUME NEW i \in DOMAIN t
      PROVE  /\ t[i] > messages /\ t[i] \notin ids \ {b}
             /\ \A j \in DOMAIN t : t[i] = t[j] => i = j
  <2>1. t[i] > messages /\ t[i] \notin ids \ {b}
    BY <1>2 DEF QueueOK
  <2>2. ASSUME NEW j \in DOMAIN t, t[i] = t[j]
        PROVE  i = j
    <3>1. CASE t[i] = b
      BY <1>2, <1>3, <2>2, <3>1
    <3>2. CASE t[i] # b
      <4>1. i \in DOMAIN s /\ t[i] = s[i] /\ j \in DOMAIN s /\ t[j] = s[j]
        BY <1>2, <2>2, <3>2
      <4> QED
        BY <2>2, <4>1 DEF QueueOK
    <3> QED
      BY <3>1, <3>2
  <2> QED
    BY <2>1, <2>2
<1> QED
  BY <1>2, <1>4, <1>5 DEF QueueOK

LEMMA FeedStays ==
  ASSUME EveningTypeOK, FeedInv, EveningTypeOK', evening'.messages <= evening.messages,
         UNCHANGED <<queues, casting>>
  PROVE  FeedInv'
<1>1. evening.messages \in Nat /\ evening'.messages \in Nat
  BY DEF EveningTypeOK
<1>2. \A b \in casting : b.id \in Nat
  BY DEF FeedInv
<1>3. \A p \in Pages : \A i \in DOMAIN queues[p] : queues[p][i] \in Nat
  BY ElementOfSeq, LenProperties DEF FeedInv
<1> QED
  BY <1>1, <1>2, <1>3 DEF FeedInv, PagesAgree, Before

LEMMA CastKeeps ==
  ASSUME EveningTypeOK, FeedInv, Cast(evening.messages)
  PROVE  FeedInv'
<1> DEFINE m == evening.messages
<1> DEFINE b == [id |-> m, to |-> Pages]
<1>1. m \in Nat /\ m > 0 /\ evening'.messages = m - 1 /\ casting' = casting \cup {b} /\ queues' = queues
  BY DEF Cast, Use, EveningTypeOK
<1>2. /\ DOMAIN queues = Pages /\ queues = [p \in Pages |-> queues[p]]
      /\ casting \subseteq [id : Nat, to : {Pages}]
      /\ \A d \in casting : d.id > m
      /\ \A p \in Pages : QueueOK(queues[p], m, Ids(casting))
      /\ PagesAgree
  BY FeedInParts
<1>3. b \in [id : Nat, to : {Pages}] /\ b.id = m
  BY <1>1
<1>4. Ids(casting') = Ids(casting) \cup {m}
  BY <1>1, <1>3 DEF Ids
<1>5. \A d \in casting' : d.id > m - 1
  <2>1. \A d \in casting : d.id \in Nat /\ d.id > m
    BY <1>2
  <2>2. m \in Nat
    BY <1>1
  <2> HIDE DEF b, m
  <2>3. \A d \in casting : d.id > m - 1
    BY <2>1, <2>2
  <2>4. b.id > m - 1
    BY <1>3, <2>2
  <2> QED
    BY <1>1, <2>3, <2>4
<1>6. casting' \subseteq [id : Nat, to : {Pages}]
  <2> HIDE DEF b
  <2> QED
    BY <1>1, <1>2, <1>3
<1> HIDE DEF b, m
<1>7. ASSUME NEW p \in Pages
      PROVE  QueueOK(queues[p], m - 1, Ids(casting'))
  <2>1. QueueOK(queues[p], m, Ids(casting))
    BY <1>2
  <2>2. m \in Nat /\ m - 1 \in Nat /\ m - 1 <= m
    BY <1>1
  <2>3. \A i \in Ids(casting') \ Ids(casting) : i = m
    BY <1>4
  <2>4. \A i \in Ids(casting') \ Ids(casting) : i <= m
    BY <2>2, <2>3
  <2> QED
    BY <2>1, <2>2, <2>4, QueuesStayOK
<1>8. PagesAgree'
  BY <1>1, <1>2 DEF PagesAgree, Before
<1>9. DOMAIN queues' = Pages /\ queues' = [p \in Pages |-> queues'[p]]
  BY <1>1, <1>2
<1>10. /\ \A d \in casting' : d.id > evening'.messages
       /\ \A p \in Pages : QueueOK(queues'[p], evening'.messages, Ids(casting'))
  BY <1>1, <1>5, <1>7
<1> QED
  BY <1>6, <1>8, <1>9, <1>10 DEF FeedInv, QueueOK, Ids

LEMMA DeliverKeeps ==
  ASSUME EveningTypeOK, FeedInv, NEW b \in casting, Deliver(b)
  PROVE  FeedInv'
<1> DEFINE m == evening.messages
<1>1. /\ casting' = casting \ {b} /\ evening' = evening
      /\ queues' = [p \in Pages |-> IF p \in listeners /\ ~Full(p) THEN Append(queues[p], b.id) ELSE queues[p]]
  BY DEF Deliver
<1>2. /\ casting \subseteq [id : Nat, to : {Pages}]
      /\ \A d \in casting : d.id > m
      /\ \A p \in Pages : QueueOK(queues[p], m, Ids(casting))
      /\ PagesAgree
  BY FeedInParts
<1>3. m \in Nat /\ b.id \in Nat /\ b.id \in Ids(casting) /\ b.id > m
  BY <1>2 DEF EveningTypeOK, Ids
<1>4. Ids(casting') = Ids(casting) \ {b.id}
  <2>1. \A d \in casting : d.id = b.id => d = b
    BY <1>2
  <2> QED
    BY <1>1, <2>1 DEF Ids
<1>5. ASSUME NEW p \in Pages
      PROVE  /\ Grown(queues[p], queues'[p], b.id)
             /\ Len(queues[p]) < QueueMax \/ queues'[p] = queues[p]
             /\ queues[p] \in Seq(Nat)
             /\ \A i \in DOMAIN queues[p] : queues[p][i] # b.id
  <2>1. queues[p] \in Seq(Nat) /\ Len(queues[p]) \in Nat
    BY <1>2, LenProperties DEF QueueOK
  <2>2. Grown(queues[p], queues'[p], b.id) /\ (Len(queues[p]) < QueueMax \/ queues'[p] = queues[p])
    BY <1>1, <2>1, ArenaChatAssumption DEF Grown, Full
  <2>3. \A i \in DOMAIN queues[p] : queues[p][i] # b.id
    BY <1>2, <1>3 DEF QueueOK
  <2> QED
    BY <2>1, <2>2, <2>3
<1>6. ASSUME NEW p \in Pages
      PROVE  QueueOK(queues'[p], m, Ids(casting'))
  <2>1. /\ QueueOK(queues[p], m, Ids(casting)) /\ Grown(queues[p], queues'[p], b.id)
        /\ Len(queues[p]) < QueueMax \/ queues'[p] = queues[p]
    BY <1>2, <1>5
  <2> HIDE DEF m, Ids
  <2> QED
    BY <1>3, <1>4, <2>1, GrownQueuesAreOK
<1>7. ASSUME NEW p \in Pages, NEW q \in Pages
      PROVE  ~Crossed(queues'[p], queues'[q])
  <2>1. ~Crossed(queues[p], queues[q])
    BY <1>2, AgreeMeansNoneCrossed
  <2> QED
    BY <1>3, <1>5, <2>1, GrownDoNotCross
<1>8. PagesAgree'
  BY <1>7 DEF PagesAgree, Before, Crossed
<1>9. DOMAIN queues' = Pages /\ queues' = [p \in Pages |-> queues'[p]]
  BY <1>1
<1>10. /\ \A d \in casting' : d.id > evening'.messages
       /\ \A p \in Pages : QueueOK(queues'[p], evening'.messages, Ids(casting'))
       /\ casting' \subseteq [id : Nat, to : {Pages}]
  BY <1>1, <1>2, <1>6
<1> QED
  BY <1>8, <1>9, <1>10 DEF FeedInv, QueueOK, Ids

LEMMA LeaveKeeps ==
  ASSUME EveningTypeOK, FeedInv, NEW p \in Pages, Leave_(p)
  PROVE  FeedInv'
<1> DEFINE m == evening.messages
<1>1. queues' = [queues EXCEPT ![p] = <<>>] /\ UNCHANGED <<evening, casting>>
  BY DEF Leave_
<1>2. /\ DOMAIN queues = Pages /\ queues = [q \in Pages |-> queues[q]]
      /\ casting \subseteq [id : Nat, to : {Pages}]
      /\ \A d \in casting : d.id > m
      /\ \A q \in Pages : QueueOK(queues[q], m, Ids(casting))
      /\ PagesAgree
  BY FeedInParts
<1>3. \A q \in Pages : queues'[q] = IF q = p THEN <<>> ELSE queues[q]
  BY <1>1, <1>2
<1>4. DOMAIN queues' = Pages /\ queues' = [q \in Pages |-> queues'[q]]
  BY <1>1, <1>2
<1>5. QueueOK(<<>>, m, Ids(casting)) /\ DOMAIN <<>> = {}
  BY EmptyQueuesAreOK DEF EveningTypeOK
<1>6. \A q \in Pages : QueueOK(queues'[q], m, Ids(casting))
  BY <1>2, <1>3, <1>5
<1>7. ASSUME NEW q \in Pages, NEW r \in Pages
      PROVE  ~Crossed(queues'[q], queues'[r])
  <2>1. ~Crossed(queues[q], queues[r])
    BY <1>2, AgreeMeansNoneCrossed
  <2> QED
    BY <1>3, <1>5, <2>1 DEF Crossed
<1>8. PagesAgree'
  BY <1>7 DEF PagesAgree, Before, Crossed
<1>9. /\ \A d \in casting' : d.id > evening'.messages
      /\ \A q \in Pages : QueueOK(queues'[q], evening'.messages, Ids(casting'))
      /\ casting' \subseteq [id : Nat, to : {Pages}]
  BY <1>1, <1>2, <1>6
<1> QED
  BY <1>4, <1>8, <1>9 DEF FeedInv, QueueOK, Ids

LEMMA FeedStep ==
  ASSUME EveningTypeOK, FeedInv, [ChatNext]_chat_vars
  PROVE  FeedInv'
<1>1. EveningTypeOK' /\ evening'.messages <= evening.messages
  BY EveningsShrink
<1>2. \/ UNCHANGED <<queues, casting>>
      \/ Cast(evening.messages)
      \/ \E b \in casting : Deliver(b)
      \/ \E p \in Pages : Leave_(p)
  BY DEF ChatNext, chat_vars, feed, Receive, Thought, Build, KeepCount, KeepText, Append_, Connect
<1> QED
  BY <1>1, <1>2, FeedStays, CastKeeps, DeliverKeeps, LeaveKeeps

\* A retry is processed once, a prompt is told of what it leaves out, and the
\* pages see what happens in the same order.
THEOREM ChatStaysOrderly == ChatSpec => []ChatIsOrderly
<1>1. ChatInit => ChatInv
  BY ChatInitInv
<1>2. ChatInv /\ [ChatNext]_chat_vars => ChatInv'
  BY EveningsShrink, LogStep, DedupStep, RequestsStep, FeedStep DEF ChatInv
<1>3. ChatInv => ChatIsOrderly
  <2>1. ChatInv => ChatTypeOK
    BY DEF ChatInv, ChatTypeOK, LogInv, DedupInv, FeedInv
  <2>2. ChatInv => NonceIsSpent
    BY DEF ChatInv, DedupInv, NonceIsSpent
  <2>3. ChatInv => SummaryIsCurrent
    BY DEF ChatInv, RequestsInv, SummaryInv, SummaryIsCurrent, Serves
  <2>4. ChatInv => PagesAgree
    BY DEF ChatInv, FeedInv
  <2> QED
    BY <2>1, <2>2, <2>3, <2>4 DEF ChatIsOrderly
<1> QED
  BY <1>1, <1>2, <1>3, PTL DEF ChatSpec
=============================================================================
