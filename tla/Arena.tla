----------------------------------- MODULE Arena -----------------------------------
(***************************************************************************)
(* The arena's background loops (arena/steve.py): the think loop and the   *)
(* advocate loop, the web requests and tools that start, stop and steer    *)
(* them, and the pollers that the think loop sends for mail.  Every loop,  *)
(* poller and web request is a Python thread; what they share are module   *)
(* variables, mostly without a lock.                                       *)
(*                                                                         *)
(* Time is cut down to what the loops compare: how long ago the user       *)
(* chatted, how long ago a model was chosen, whether mail is due.  How a   *)
(* cycle calls models is the second part of this module.                   *)
(***************************************************************************)
EXTENDS Naturals, FiniteSets, Sequences

CONSTANTS
    Slots,          \* loop threads of a kind that may be alive together
    Choices,        \* models a user may choose
    Pollers,        \* mail threads
    MailFetched,    \* newest messages that a check asks for (20)
    MailBatch,      \* new ones of a check that are remembered (8)
    DreamEvery,     \* cycles between dreams (DREAM_EVERY_N)
    Days            \* bounds on a behaviour: which loops, how many start and
                    \* stop requests, messages, failed checks, replies and
                    \* deletions, chats and choices of a model, and how many
                    \* mail threads may be alive together

ASSUME ArenaLoopsAssumption ==
    /\ MailBatch \in Nat \ {0} /\ MailFetched \in Nat \ {0}
    /\ DreamEvery \in Nat \ {0}

Loops == {"think", "advocate"}

VARIABLES
    day,         \* the bounds of this behaviour, counted down
    running,     \* _thinking, _advocate_running
    stop,        \* _think_stop, _advocate_stop: is the event set?
    threads,     \* loop -> slot -> where its thread is, "none" without one
    starting,    \* loop -> requests that saw the loop not running
    chat,        \* time since the last chat: below 30 s, below 90 s, longer
    override,    \* _user_model_override, {} for auto
    chosen,      \* was it chosen within half an hour, as the loop computes it?
    locked,      \* was it chosen with locked=True?
    using,       \* slot -> the chosen model its cycle runs with, {} for auto
    cycles,      \* slot -> cycles since one that ends with a dream
    dreaming,    \* is a dream under way?
    arrived,     \* messages 1 .. arrived have come
    inbox,       \* those that were not deleted since
    seen,        \* _mail_seen_ids
    mail_due,    \* has the mail interval passed?
    pollers,     \* where a mail thread is, and the messages left to it
    kept,        \* messages that were remembered or answered
    lost         \* messages whose remember failed

control == <<running, stop, threads, starting>>
steering == <<chat, override, chosen, locked>>
work == <<using, cycles, dreaming>>
mail == <<arrived, inbox, seen, mail_due, pollers, kept, lost>>
loop_vars == <<day, control, steering, work, mail>>

Alive(k) == {s \in Slots : threads[k][s] # "none"}
IsAt(k, s, pc) == threads[k][s] = pc
Goes(k, s, pc) == threads' = [threads EXCEPT ![k][s] = pc]
Spend(what) == day[what] > 0 /\ day' = [day EXCEPT ![what] = @ - 1]

-----------------------------------------------------------------------------
(* Start and stop                                                           *)

\* The check of tool_thinking, tool_think_control, tool_advocate_control and
\* api_think_start: a loop that runs is left alone.
AskStart(k) ==
    /\ Spend("requests")
    /\ ~running[k]
    /\ starting' = [starting EXCEPT ![k] = @ + 1]
    /\ UNCHANGED <<running, stop, threads, steering, work, mail>>

\* The rest of the request: the event is cleared and a thread started.
Start(k, s) ==
    /\ starting[k] > 0
    /\ IsAt(k, s, "none")
    /\ starting' = [starting EXCEPT ![k] = @ - 1]
    /\ stop' = [stop EXCEPT ![k] = FALSE]
    /\ Goes(k, s, "new")
    /\ UNCHANGED <<day, running, steering, work, mail>>

AskStop(k) ==
    /\ Spend("requests")
    /\ stop' = [stop EXCEPT ![k] = TRUE]
    /\ UNCHANGED <<running, threads, starting, steering, work, mail>>

-----------------------------------------------------------------------------
(* What the loops share                                                     *)

Enter(k, s) ==
    /\ IsAt(k, s, "new")
    /\ Goes(k, s, "test")
    /\ running' = [running EXCEPT ![k] = TRUE]
    /\ cycles' = IF k = "think" THEN [cycles EXCEPT ![s] = 0] ELSE cycles
    /\ UNCHANGED <<day, stop, starting, steering, using, dreaming, mail>>

\* The loop sees the event, at its head or, the advocate, after its wait.
Leave(k, s) ==
    /\ IsAt(k, s, "test") \/ IsAt(k, s, "decide")
    /\ stop[k]
    /\ Goes(k, s, "none")
    /\ running' = [running EXCEPT ![k] = FALSE]
    /\ UNCHANGED <<day, stop, starting, steering, work, mail>>

\* The wait ends, with the event or with the interval.
Woken(k, s) ==
    /\ IsAt(k, s, "wait")
    /\ Goes(k, s, IF k = "think" THEN "test" ELSE "decide")
    /\ UNCHANGED <<day, running, stop, starting, steering, work, mail>>

-----------------------------------------------------------------------------
(* The think loop                                                           *)

\* effective_override: a choice holds while the user is away, and for half
\* an hour.
Effective == IF chat = "idle" \/ chosen = "fresh" THEN override ELSE {}

BeginCycle(s) ==
    /\ IsAt("think", s, "test") /\ ~stop["think"]
    /\ Goes("think", s, "cycle")
    /\ using' = [using EXCEPT ![s] = Effective]
    /\ UNCHANGED <<day, running, stop, starting, steering, cycles, dreaming, mail>>

\* Right after a chat most cycles are skipped.
SkipForChat(s) ==
    /\ IsAt("think", s, "test") /\ ~stop["think"]
    /\ chat = "just now"
    /\ Goes("think", s, "wait")
    /\ UNCHANGED <<day, running, stop, starting, steering, work, mail>>

\* think_cycle returned.  Every so often, or when the mood is low, it ends
\* with a dream.
EndCycle(s) ==
    /\ IsAt("think", s, "cycle")
    /\ Goes("think", s, "mail")
    /\ cycles' = [cycles EXCEPT ![s] = (@ + 1) % DreamEvery]
    /\ dreaming' \in {dreaming, TRUE}
    /\ cycles'[s] = 0 => dreaming'
    /\ UNCHANGED <<day, running, stop, starting, steering, using, mail>>

\* A tool raised; nothing in think_cycle or in the loop catches it.
CycleRaises(s) ==
    /\ IsAt("think", s, "cycle")
    /\ Goes("think", s, "none")
    /\ UNCHANGED <<day, running, stop, starting, steering, work, mail>>

Polling == {p \in Pollers : pollers[p].pc # "none"}

\* The cycle ends with the wait, and sends a poller when mail is due.
MailCheck(s) ==
    /\ IsAt("think", s, "mail")
    /\ Goes("think", s, "wait")
    /\ IF mail_due /\ Cardinality(Polling) < day.pollers
       THEN \E p \in Pollers \ Polling : pollers' = [pollers EXCEPT ![p].pc = "asks"]
       ELSE UNCHANGED pollers
    /\ UNCHANGED <<day, running, stop, starting, steering, work,
                   arrived, inbox, seen, mail_due, kept, lost>>

-----------------------------------------------------------------------------
(* A poller (check_and_handle_mail, _handle_new_mail).  Two can be at work  *)
(* together, for the interval begins anew only when one has its inbox.      *)

Polls(p, pc, todo) == pollers' = [pollers EXCEPT ![p] = [pc |-> pc, todo |-> todo]]
PollerAt(p, pc) == pollers[p].pc = pc

Newest(S, n) == {m \in S : Cardinality({x \in S : x > m}) < n}
IsNext(p, m) == \A x \in pollers[p].todo : x <= m

\* Mutant: what is older than a message that was seen is not asked for.
NewMailSince == {m \in Newest(inbox, MailFetched) : \A x \in seen : x < m}

\* What a check finds new: older messages than it fetches it does not see.
NewMail == Newest(inbox, MailFetched) \ seen

\* The messages are fetched, and the first of the new ones are handled.
Fetch(p) ==
    /\ PollerAt(p, "asks")
    /\ mail_due' = FALSE
    /\ Polls(p, IF NewMail = {} THEN "none" ELSE "looks", Newest(NewMail, MailBatch))
    /\ UNCHANGED <<day, control, steering, work, arrived, inbox, seen, kept, lost>>

\* There is no inbox, or its messages could not be fetched: the next check
\* comes right away, or after the interval.
FetchFails(p) ==
    /\ PollerAt(p, "asks")
    /\ Spend("outages")
    /\ mail_due' \in {mail_due, FALSE}
    /\ Polls(p, "none", {})
    /\ UNCHANGED <<control, steering, work, arrived, inbox, seen, kept, lost>>

\* A message that another poller, or a reply, has marked meanwhile is passed.
Look(p) ==
    /\ PollerAt(p, "looks")
    /\ \E m \in pollers[p].todo :
          /\ IsNext(p, m)
          /\ IF m \in seen THEN Polls(p, "looks", pollers[p].todo \ {m})
             ELSE Polls(p, "marks", pollers[p].todo)
    /\ UNCHANGED <<day, control, steering, work, arrived, inbox, seen, mail_due, kept, lost>>

Mark(p) ==
    /\ PollerAt(p, "marks")
    /\ \E m \in pollers[p].todo : IsNext(p, m) /\ seen' = seen \cup {m}
    /\ Polls(p, "keeps", pollers[p].todo)
    /\ UNCHANGED <<day, control, steering, work, arrived, inbox, mail_due, kept, lost>>

\* ferricula.remember, whose failure nobody hears of; the mark stays.
Remember(p) ==
    /\ PollerAt(p, "keeps")
    /\ \E m \in pollers[p].todo :
          /\ IsNext(p, m)
          /\ \/ kept' = kept \cup {m} /\ lost' = lost
             \/ lost' = lost \cup {m} /\ kept' = kept
          /\ Polls(p, "looks", pollers[p].todo \ {m})
    /\ UNCHANGED <<day, control, steering, work, arrived, inbox, seen, mail_due>>

\* The focused cycle that ends it; what raises in there is caught.
Finish(p) ==
    /\ PollerAt(p, "looks") /\ pollers[p].todo = {}
    /\ Polls(p, "none", {})
    /\ UNCHANGED <<day, control, steering, work, arrived, inbox, seen, mail_due, kept, lost>>

PollerStep(p) == Fetch(p) \/ FetchFails(p) \/ Look(p) \/ Mark(p) \/ Remember(p) \/ Finish(p)

\* tool_email_reply: the message is marked, and no poller remembers it.
ReplyTo(m) ==
    /\ Spend("replies")
    /\ seen' = seen \cup {m} /\ kept' = kept \cup {m}
    /\ UNCHANGED <<control, steering, work, arrived, inbox, mail_due, pollers, lost>>

\* tool_email_manage
DeleteMail(m) ==
    /\ Spend("replies")
    /\ inbox' = inbox \ {m} /\ seen' = seen \ {m}
    /\ UNCHANGED <<control, steering, work, arrived, mail_due, pollers, kept, lost>>

-----------------------------------------------------------------------------
(* The advocate loop                                                        *)

AdvocateWaits(s) ==
    /\ IsAt("advocate", s, "test") /\ ~stop["advocate"]
    /\ Goes("advocate", s, "wait")
    /\ UNCHANGED <<day, running, stop, starting, steering, work, mail>>

\* After the wait: a pause when the budget is spent, or a cycle.
AdvocateDecides(s) ==
    /\ IsAt("advocate", s, "decide") /\ ~stop["advocate"]
    /\ \E pc \in {"test", "cycle"} : Goes("advocate", s, pc)
    /\ UNCHANGED <<day, running, stop, starting, steering, work, mail>>

\* The cycle returned, or raised and was caught.
AdvocateCycle(s) ==
    /\ IsAt("advocate", s, "cycle")
    /\ Goes("advocate", s, "test")
    /\ UNCHANGED <<day, running, stop, starting, steering, work, mail>>

-----------------------------------------------------------------------------
(* Users, mail and time                                                     *)

\* tool_set_model.  The time of a locked choice is written down as 0.
SetModel(m, lock) ==
    /\ Spend("choices")
    /\ override' = {m}
    /\ chosen' = IF lock THEN "old" ELSE "fresh"
    /\ locked' = lock
    /\ UNCHANGED <<control, chat, work, mail>>

\* api_set_model; with "" or from tool_set_model("auto") the choice is gone.
ApiSetModel(ms) ==
    /\ Spend("choices")
    /\ override' = ms
    /\ chosen' = "fresh"
    /\ locked' = FALSE
    /\ UNCHANGED <<control, chat, work, mail>>

Chat ==
    /\ Spend("chats")
    /\ chat' = "just now"
    /\ UNCHANGED <<control, override, chosen, locked, work, mail>>

\* tool_dream, api_dream
AskDream ==
    /\ Spend("requests")
    /\ dreaming' = TRUE
    /\ UNCHANGED <<control, steering, using, cycles, mail>>

DreamEnds ==
    /\ dreaming
    /\ dreaming' = FALSE
    /\ UNCHANGED <<day, control, steering, using, cycles, mail>>

MailArrives ==
    /\ Spend("mails")
    /\ arrived' = arrived + 1
    /\ inbox' = inbox \cup {arrived + 1}
    /\ UNCHANGED <<control, steering, work, seen, mail_due, pollers, kept, lost>>

\* Two hours passed; while there is nothing new it makes no difference.
MailIsDue ==
    /\ ~mail_due /\ ~ inbox \subseteq seen
    /\ mail_due' = TRUE
    /\ UNCHANGED <<day, control, steering, work, arrived, inbox, seen, pollers, kept, lost>>

\* Time passes.
ChatFades ==
    /\ chat # "idle"
    /\ chat' = IF chat = "just now" THEN "active" ELSE "idle"
    /\ UNCHANGED <<day, control, override, chosen, locked, work, mail>>

ChoiceFades ==
    /\ chosen = "fresh"
    /\ chosen' = "old"
    /\ UNCHANGED <<day, control, chat, override, locked, work, mail>>

-----------------------------------------------------------------------------

LoopsInit ==
    /\ day \in Days
    /\ running = [k \in Loops |-> FALSE]
    /\ stop = [k \in Loops |-> FALSE]
    \* main starts the advocate
    /\ \E s \in Slots :
          threads = [k \in Loops |-> [t \in Slots |->
                        IF k \in day.loops \cap {"advocate"} /\ t = s THEN "new" ELSE "none"]]
    /\ starting = [k \in Loops |-> 0]
    /\ chat = "idle" /\ override = {} /\ chosen = "old" /\ locked = FALSE
    /\ using = [s \in Slots |-> {}] /\ cycles = [s \in Slots |-> 0] /\ dreaming = FALSE
    /\ arrived = 0 /\ inbox = {} /\ seen = {} /\ kept = {} /\ lost = {}
    /\ mail_due = TRUE
    /\ pollers = [p \in Pollers |-> [pc |-> "none", todo |-> {}]]

ThinkStep(s) == EndCycle(s) \/ CycleRaises(s) \/ MailCheck(s)
AdvocateStep(s) == AdvocateWaits(s) \/ AdvocateDecides(s) \/ AdvocateCycle(s)
LoopStep(k, s) == Enter(k, s) \/ Leave(k, s) \/ Woken(k, s)

LoopRequests(k) == AskStart(k) \/ AskStop(k) \/ \E s \in Slots : Start(k, s)

LoopUsers ==
    \/ \E k \in day.loops : LoopRequests(k)
    \/ \E m \in Choices : SetModel(m, TRUE) \/ SetModel(m, FALSE) \/ ApiSetModel({m})
    \/ ApiSetModel({})
    \/ Chat
    \/ AskDream
    \/ MailArrives
    \/ \E m \in inbox : ReplyTo(m) \/ DeleteMail(m)

LoopsNext ==
    \/ LoopUsers
    \/ DreamEnds
    \/ ChatFades
    \/ ChoiceFades
    \/ MailIsDue
    \/ \E p \in Pollers : PollerStep(p)
    \/ \E s \in Slots :
          \/ ThinkStep(s)
          \/ BeginCycle(s)
          \/ SkipForChat(s)
          \/ AdvocateStep(s)
          \/ \E k \in Loops : LoopStep(k, s)

\* A started thread goes on, calls and waits end (every request has a timeout),
\* and time passes.  A cycle is begun with probability 1/5 even right after a
\* chat.
LoopsFairness ==
    /\ WF_loop_vars(DreamEnds) /\ WF_loop_vars(ChatFades) /\ WF_loop_vars(MailIsDue)
    /\ \A p \in Pollers : WF_loop_vars(PollerStep(p))
    /\ \A s \in Slots :
          /\ WF_loop_vars(ThinkStep(s)) /\ WF_loop_vars(AdvocateStep(s))
          /\ SF_loop_vars(BeginCycle(s))
          /\ \A k \in Loops : WF_loop_vars(LoopStep(k, s))

LoopsSpec == LoopsInit /\ [][LoopsNext]_loop_vars

-----------------------------------------------------------------------------

Places == {"none", "new", "test", "cycle", "mail", "wait", "decide"}

\* A loop that waits for its start never sees a cleared flag again, no message
\* is seen before it came, and what a poller has to do is never about no message.
LoopsTypeOK ==
    /\ \A k \in Loops : running[k] \in BOOLEAN /\ stop[k] \in BOOLEAN /\ starting[k] \in Nat
    /\ threads \in [Loops -> [Slots -> Places]]
    /\ chat \in {"just now", "active", "idle"} /\ chosen \in {"fresh", "old"}
    /\ override \subseteq Choices /\ Cardinality(override) <= 1
    /\ \A s \in Slots : cycles[s] < DreamEvery
    /\ inbox \cup seen \cup kept \cup lost \subseteq 1 .. arrived
    /\ \A p \in Pollers :
          /\ pollers[p].todo \subseteq 1 .. arrived
          /\ pollers[p].pc \in {"marks", "keeps"} => pollers[p].todo # {}

\* The advocate's flag is up only while one of its threads is alive, so a
\* start is never refused for a loop that is gone, whatever its cycles raise
\* and however starts and stops cross.
AdvocateFlagIsTrue == running["advocate"] => Alive("advocate") # {}

\* A stop that no start takes back ends every thread of the loop, also when
\* two were started.
StopIsHeard == \A k \in Loops : <>[]stop[k] => <>[](Alive(k) = {})

\* As long as the think loop lives, a message is remembered sooner or later,
\* whatever came with it and however pollers cross.  There are four ways out:
\* its remember failed, which is not tried again; it was answered; it was
\* deleted; as many messages as a check fetches came after it.
MailIsHeard ==
    \A m \in 1 .. 3 :
        (m \in inbox /\ Alive("think") # {})
            ~> \/ m \in kept \cup lost
               \/ m \notin Newest(inbox, MailFetched)
               \/ Alive("think") = {}

\* A loop that lives on dreams again and again, whatever its mood.
DreamsComeAgain == \A s \in Slots : <>[](s \in Alive("think")) => []<>dreaming

-----------------------------------------------------------------------------
(***************************************************************************)
(* How the arena calls models and image providers (arena/steve.py).  Every *)
(* think cycle, chat, mail cycle, drawing and dream is a thread of its own *)
(* that goes through call_llm, the drawing tool or both; they share the    *)
(* heat and the back-off of the models, the flag of the local renderer,    *)
(* the modes, and the spending of the hour.                                *)
(*                                                                         *)
(* A cloud model costs 1, a cloud image ImagePrice, what runs on the       *)
(* machine nothing.  A cooling time is over some day.  Prompts, answers    *)
(* and the tools an answer asks for are left out.  "imagen" is the image   *)
(* provider that the code calls gemini, as it does a model.                *)
(***************************************************************************)

CONSTANTS
    Callers,        \* threads that call
    CloudModels,    \* _CLOUD_MODELS, in order
    Overheat,       \* _MODEL_OVERHEAT
    ImagePrice,
    MaxFailures,    \* bound on the failures counted for a model
    MaxSpent,       \* bound on the money of a behaviour
    Hours           \* bounds: the jobs of each thread, the models it prefers,
                    \* how often modes are switched, the budgets that may be set

Cloud == {CloudModels[i] : i \in DOMAIN CloudModels}
Models == Cloud \cup {"gemma"}
Drawings == {"draw", "dream"}
Jobs == {"talk", "prompt", "reaction", "second look", "vision", "advocate"} \cup Drawings

\* The models of the cloud are different ones, and claude, which looks at
\* images, is one of them.
ASSUME ArenaCallsAssumption ==
    /\ IsFiniteSet(Callers)
    /\ CloudModels \in Seq(STRING \ {"gemma", "comfy", "dalle3", "imagen"}) /\ "claude" \in Cloud
    /\ \A i, j \in DOMAIN CloudModels : CloudModels[i] = CloudModels[j] => i = j
    /\ {Overheat, MaxFailures} \subseteq Nat \ {0} /\ ImagePrice \in Nat
    /\ Hours \subseteq [jobs : [Callers -> SUBSET {"talk", "prompt", "draw", "vision", "advocate"}],
                        models : SUBSET Models, switches : Nat, budgets : SUBSET Nat]

\* What a model or an image provider costs (_cost_for, _IMAGE_COSTS).
Price(x) ==
    IF x \in {"gemma", "comfy"} THEN 0 ELSE IF x \in Cloud THEN 1 ELSE ImagePrice

VARIABLES
    hour,            \* the bounds of this behaviour, counted down
    local_mode, image_mode, budget,
    comfy_busy,      \* _comfy_busy
    rendering,       \* threads whose image the local renderer works on
    heat, failures,  \* model -> _model_heat, _model_failures
    cooling,         \* models whose _model_error_until lies ahead
    session,         \* _session_cost
    hourly, past,    \* _hourly_log: what is in the window, what has left it
    rotation,        \* _dream_provider_idx
    callers          \* thread -> what it does

modes == <<local_mode, image_mode, budget>>
gpu == <<comfy_busy, rendering>>
router == <<heat, failures, cooling>>
money == <<session, hourly, past>>
call_vars == <<hour, modes, gpu, router, money, rotation, callers>>

\* A thread: its job, where it is, the models or providers it still may try,
\* and whether local mode was on when it listed them.
Idle == [job |-> "none", pc |-> "idle", order |-> <<>>, local |-> FALSE]

Is(c, pc) == callers[c].pc = pc
Becomes(c, r) == callers' = [callers EXCEPT ![c] = r]
Begins(c, job, pc, order) ==
    Becomes(c, [job |-> job, pc |-> pc, order |-> order, local |-> local_mode])
First(c) == Head(callers[c].order)
TriesNext(c, pc) == Becomes(c, [callers[c] EXCEPT !.pc = pc, !.order = Tail(@)])

\* _budget_pressure, in percent
Pressure == IF budget = 0 THEN 0 ELSE (100 * hourly) \div budget

\* What a call, a drawing and a dream do with their price: it is added to the
\* session, and then, under another lock, to the log of the hour.
Charged(x) == session' = session + Price(x) /\ UNCHANGED <<hourly, past>>
CostLogged(x) == hourly' = hourly + Price(x) /\ UNCHANGED <<session, past>>

-----------------------------------------------------------------------------
(* call_llm                                                                 *)

\* _budget_nudge, with one rank of cloud models
Nudged(m) == IF Pressure >= 90 THEN "gemma" ELSE m

\* _check_model_heat: a model that was preferred too often makes room for any
\* other one of the cloud.
Roll(m) == IF heat[m] < Overheat THEN {m} ELSE Cloud \ {m}
Heated(m) == [heat EXCEPT ![m] = IF @ < Overheat THEN @ + 1 ELSE 0]

\* cloud_fallbacks
Fallbacks(m) ==
    IF m \notin Cloud THEN CloudModels
    ELSE LET at == CHOOSE i \in DOMAIN CloudModels : CloudModels[i] = m
         IN SubSeq(CloudModels, 1, at - 1) \o SubSeq(CloudModels, at + 1, Len(CloudModels))

\* The preferred model, the local one, the other models of the cloud.
Order(m) == (IF m = "gemma" THEN <<m>> ELSE <<m, "gemma">>) \o Fallbacks(m)

\* The start of call_llm.  In local mode the local model is all there is, and
\* the renderer is waited for.
Call(c, job, m) ==
    /\ heat' = Heated(m)
    /\ \E x \in Roll(m) :
          Begins(c, job, IF local_mode /\ comfy_busy THEN "wait" ELSE "try",
                 IF local_mode THEN <<"gemma">> ELSE Order(x))

\* What a call that raises leaves to its thread: the reaction to a dream is
\* tried once more, without the image; every other job is over.
Raises(c) ==
    IF callers[c].job = "reaction" THEN Call(c, "second look", Nudged("claude"))
    ELSE Becomes(c, Idle) /\ UNCHANGED heat

\* Mutant: the wait has no deadline.
WaitEndsWhenFree(c) ==
    /\ Is(c, "wait")
    /\ ~comfy_busy
    /\ callers' = [callers EXCEPT ![c].pc = "try"]
    /\ UNCHANGED <<hour, modes, gpu, router, money, rotation>>

\* The renderer is free, or the minute is over and the call raises.
WaitEnds(c) ==
    /\ Is(c, "wait")
    /\ IF comfy_busy THEN Raises(c) ELSE callers' = [callers EXCEPT ![c].pc = "try"] /\ UNCHANGED heat
    /\ UNCHANGED <<hour, modes, gpu, failures, cooling, money, rotation>>

\* Models that cool, and local ones while the renderer works, are passed by.
Passed(m) == m \in cooling \/ (m = "gemma" /\ comfy_busy)

Try(c) ==
    /\ Is(c, "try")
    /\ IF callers[c].order = <<>> THEN Raises(c)
       ELSE /\ IF Passed(First(c)) THEN TriesNext(c, "try") ELSE callers' = [callers EXCEPT ![c].pc = "ask"]
            /\ UNCHANGED heat
    /\ UNCHANGED <<hour, modes, gpu, failures, cooling, money, rotation>>

\* A success clears the back-off of the model, whoever set it.
Answered(m) == failures' = [failures EXCEPT ![m] = 0] /\ cooling' = cooling \ {m}

\* The images a dream may ask for, from the provider after the last one.
Rotated == LET p == <<"comfy", "dalle3", "imagen">> IN [i \in 1 .. 3 |-> p[1 + ((rotation + i - 1) % 3)]]
DreamOrder == IF ~local_mode /\ Pressure < 75 THEN Rotated ELSE <<"comfy">>

Answer(c) ==
    /\ Is(c, "ask")
    /\ Charged(First(c))
    /\ callers' = [callers EXCEPT ![c].pc = "log"]
    /\ UNCHANGED <<hour, modes, gpu, router, rotation>>

AnswerLogged(c) ==
    /\ Is(c, "log") /\ callers[c].job \notin Drawings
    /\ CostLogged(First(c))
    /\ Answered(First(c))
    /\ IF callers[c].job = "prompt" THEN Begins(c, "dream", "image", DreamOrder) ELSE Becomes(c, Idle)
    /\ UNCHANGED <<hour, modes, gpu, heat, rotation>>

\* An error that lets the next model try.
AskFails(c) ==
    /\ Is(c, "ask")
    /\ failures' = [failures EXCEPT ![First(c)] = IF @ < MaxFailures THEN @ + 1 ELSE @]
    /\ cooling' = cooling \cup {First(c)}
    /\ TriesNext(c, "try")
    /\ UNCHANGED <<hour, modes, gpu, heat, money, rotation>>

\* Any other HTTP error ends the call.
AskRaises(c) ==
    /\ Is(c, "ask")
    /\ Raises(c)
    /\ UNCHANGED <<hour, modes, gpu, failures, cooling, money, rotation>>

Cooled(m) ==
    /\ m \in cooling
    /\ cooling' = cooling \ {m}
    /\ UNCHANGED <<hour, modes, gpu, heat, failures, money, rotation, callers>>

-----------------------------------------------------------------------------
(* Images                                                                   *)

\* tool_draw reads the modes and the pressure once.
DrawOrder ==
    (IF image_mode \in {"local", "auto"} \/ local_mode THEN <<"comfy">> ELSE <<>>)
        \o (IF image_mode \in {"cloud", "auto"} /\ ~local_mode /\ Pressure < 75
            THEN <<"dalle3", "imagen">> ELSE <<>>)

\* The next provider is tried, or skipped because there is none of it.
Paint(c) ==
    /\ Is(c, "image")
    /\ IF callers[c].order = <<>> THEN Becomes(c, Idle) /\ UNCHANGED gpu
       ELSE \/ TriesNext(c, "image") /\ UNCHANGED gpu
            \/ /\ callers' = [callers EXCEPT ![c].pc = "paint"]
               /\ IF First(c) = "comfy" THEN comfy_busy' = TRUE /\ rendering' = rendering \cup {c}
                  ELSE UNCHANGED gpu
    /\ UNCHANGED <<hour, modes, router, money, rotation>>

\* Mutant: the flag is lowered only by a success.
ReleasedIfDone(c, done) ==
    IF First(c) = "comfy"
    THEN comfy_busy' = (comfy_busy /\ ~done) /\ rendering' = rendering \ {c}
    ELSE UNCHANGED gpu

\* finally in _draw_comfy
Released(c, done) ==
    IF First(c) = "comfy" THEN comfy_busy' = FALSE /\ rendering' = rendering \ {c} ELSE UNCHANGED gpu

\* An image came.
Painted(c) ==
    /\ Is(c, "paint")
    /\ Released(c, TRUE)
    /\ Charged(First(c))
    /\ rotation' = IF callers[c].job # "dream" THEN rotation
                   ELSE CASE First(c) = "comfy" -> 1 [] First(c) = "dalle3" -> 2 [] OTHER -> 0
    /\ callers' = [callers EXCEPT ![c].pc = "log"]
    /\ UNCHANGED <<hour, modes, router>>

\* After a dream the model looks at its image.
PaintLogged(c) ==
    /\ Is(c, "log") /\ callers[c].job \in Drawings
    /\ CostLogged(First(c))
    /\ IF callers[c].job = "dream" THEN Call(c, "reaction", Nudged("claude"))
       ELSE Becomes(c, Idle) /\ heat' = heat
    /\ UNCHANGED <<hour, modes, gpu, failures, cooling, rotation>>

\* No image: a drawing gives up after the local renderer when the mode is
\* local by now.
PaintFails(c) ==
    /\ Is(c, "paint")
    /\ Released(c, FALSE)
    /\ IF callers[c].job = "draw" /\ First(c) = "comfy" /\ image_mode = "local" THEN Becomes(c, Idle)
       ELSE TriesNext(c, "image")
    /\ UNCHANGED <<hour, modes, router, money, rotation>>

-----------------------------------------------------------------------------
(* Jobs, modes and time                                                     *)

\* A think cycle, chat or mail cycle calls the model it prefers, a dream the
\* one of its mood; a drawing goes to the providers; the vision of an upload
\* calls claude, and the advocate the local model, both past call_llm.
Begin(c, job) ==
    /\ Is(c, "idle")
    /\ session < MaxSpent
    /\ CASE job \in {"talk", "prompt"} ->
              \E m \in hour.models : Call(c, job, IF job = "prompt" THEN Nudged(m) ELSE m)
         [] job = "draw" -> Begins(c, job, "image", DrawOrder) /\ heat' = heat
         [] job = "vision" -> Begins(c, job, "direct", <<"claude">>) /\ heat' = heat
         [] job = "advocate" ->
              (local_mode \/ Pressure < 90) /\ Begins(c, job, "direct", <<"gemma">>) /\ heat' = heat
    /\ UNCHANGED <<hour, modes, gpu, failures, cooling, money, rotation>>

DirectEnds(c) ==
    /\ Is(c, "direct")
    /\ Becomes(c, Idle)
    /\ UNCHANGED <<hour, modes, gpu, router, money, rotation>>

Switch == hour.switches > 0 /\ hour' = [hour EXCEPT !.switches = @ - 1]

\* tool_local_mode, api_local_mode
SetLocalMode(on) ==
    /\ Switch
    /\ local_mode' = on
    /\ image_mode' = IF on THEN "local" ELSE image_mode
    /\ UNCHANGED <<budget, gpu, router, money, rotation, callers>>

\* tool_set_image_mode, api_image_mode
SetImageMode(m) ==
    /\ Switch
    /\ image_mode' = m
    /\ UNCHANGED <<local_mode, budget, gpu, router, money, rotation, callers>>

\* tool_set_budget, api_set_budget; 0 is no limit
SetBudget(b) ==
    /\ Switch
    /\ budget' = b
    /\ UNCHANGED <<local_mode, image_mode, gpu, router, money, rotation, callers>>

\* Entries leave the window of the hour.
WindowMoves ==
    /\ hourly > 0
    /\ past' = past + hourly /\ hourly' = 0
    /\ UNCHANGED <<hour, modes, gpu, router, session, rotation, callers>>

CallsInit ==
    /\ hour \in Hours
    /\ local_mode = FALSE /\ image_mode = "auto" /\ budget \in hour.budgets
    /\ comfy_busy = FALSE /\ rendering = {}
    /\ heat = [m \in Models |-> 0] /\ failures = [m \in Models |-> 0] /\ cooling = {}
    /\ session = 0 /\ hourly = 0 /\ past = 0
    /\ rotation = 0
    /\ callers = [c \in Callers |-> Idle]

\* A thread that has a job goes on with it.
GoesOn(c) ==
    \/ WaitEnds(c) \/ Try(c)
    \/ Answer(c) \/ AnswerLogged(c) \/ AskFails(c) \/ AskRaises(c)
    \/ Paint(c) \/ Painted(c) \/ PaintLogged(c) \/ PaintFails(c)
    \/ DirectEnds(c)

CallsNext ==
    \/ \E c \in Callers : GoesOn(c) \/ \E job \in hour.jobs[c] : Begin(c, job)
    \/ \E m \in Models : Cooled(m)
    \/ \E on \in BOOLEAN : SetLocalMode(on)
    \/ \E m \in {"auto", "local", "cloud"} : SetImageMode(m)
    \/ \E b \in hour.budgets : SetBudget(b)
    \/ WindowMoves

\* Every request has a timeout, so a thread goes on.
CallsFairness == \A c \in Callers : WF_call_vars(GoesOn(c))

CallsSpec == CallsInit /\ [][CallsNext]_call_vars

-----------------------------------------------------------------------------

\* Types, and: a model that cools has failed since its last success.
CallsTypeOK ==
    /\ image_mode \in {"auto", "local", "cloud"} /\ rotation \in 0 .. 2
    /\ \A m \in Models : heat[m] \in 0 .. Overheat /\ failures[m] \in 0 .. MaxFailures
    /\ cooling \subseteq {m \in Models : failures[m] > 0}
    /\ \A c \in Callers : callers[c].job \in Jobs \cup {"none"}

Owing(xs) == {c \in Callers : Is(c, "log") /\ First(c) \in xs}

\* No money is lost between the threads, whose two accounts have a lock each:
\* the session is what the window of the hour holds, what left it, and what the
\* threads between the two locks owe it.
SpendIsAccounted ==
    session = hourly + past + Cardinality(Owing(Cloud))
                + ImagePrice * Cardinality(Owing({"dalle3", "imagen"}))

\* The flag that keeps models off the graphics card is down when nothing is
\* rendered, whatever failed: the local model is never locked out for good.
RendererIsReleased == rendering = {} => ~comfy_busy

IsLocal(c) == callers[c].order = <<>> \/ First(c) \in {"gemma", "comfy"}

\* What lists its models or providers in local mode stays on the machine,
\* whatever is hot, cools, fails or is switched meanwhile.
ListedLocalStaysLocal ==
    \A c \in Callers : callers[c].local /\ callers[c].job # "vision" => IsLocal(c)

\* Every job ends, also when one image after the other occupies the renderer.
EveryJobEnds == \A c \in Callers : callers[c].pc # "idle" ~> callers[c].pc = "idle"

\* What the threads share stays true whatever fails and however starts, stops
\* and calls cross: the flags, the money, and who may leave the machine.
FlagsAndSpendAreTrue ==
    /\ LoopsTypeOK
    /\ AdvocateFlagIsTrue
    /\ CallsTypeOK
    /\ SpendIsAccounted
    /\ RendererIsReleased
    /\ ListedLocalStaysLocal
=============================================================================
