---------------------------- MODULE ChatSessions ----------------------------
(***************************************************************************)
(* The operator's conversation (ferricula-server chat.rs) over the model   *)
(* router: a turn is made durable before its inference and completed after *)
(* it.  Requests come over HTTP, where the handler runs to its end, or     *)
(* over MCP, where it is dropped with the connection.                      *)
(*                                                                         *)
(* The thread "chat" of the router is the blocking task that holds the     *)
(* permit; the worker calls models for its own tasks meanwhile.  Texts,    *)
(* candidates and the bounds on them are left out.                         *)
(***************************************************************************)
EXTENDS ModelRouter

CONSTANTS
    Requests,      \* request ids
    Handlers,      \* handlers of a request that may be alive together
    MaxTurns,      \* turns a store takes (10000)
    Sessions       \* bounds: how often requests are sent, the worker calls,
                   \* the server restarts, connections drop, writes fail, days
                   \* pass; how requests come, and whether there is a curator

ASSUME ChatSessionsAssumption == MaxTurns \in Nat

VARIABLES
    session,       \* the bounds of this behaviour, counted down
    turns,         \* the conversation store: turns, oldest first
    turns_file,    \* operator-conversations.json
    permit,        \* the handler whose request has the permit, {} for none
    phase,         \* what the blocking task does: "off", "curate", "answer"
    outcome,       \* handler -> what its blocking task returned
    handlers,      \* handler -> what it serves and where it is
    asked,         \* request -> how often a model was asked for its reply
    left           \* turns whose handler is gone for good

chat_vars == <<session, turns, turns_file, permit, phase, outcome, handlers, asked, left>>
store == <<turns, turns_file>>
task == <<permit, phase, outcome>>

NoRequest == [id |-> {}, by |-> "http", pc |-> "idle"]

At(h, pc) == handlers[h].pc = pc
Moves(h, pc) == handlers' = [handlers EXCEPT ![h].pc = pc]
Rests(h) == handlers' = [handlers EXCEPT ![h] = NoRequest]
Spent(what) == session[what] > 0 /\ session' = [session EXCEPT ![what] = @ - 1]

Ids == {turns[i].id : i \in DOMAIN turns}
StatusOf(s, id) == {s[i].status : i \in {j \in DOMAIN s : s[j].id = id}}

-----------------------------------------------------------------------------
(* converse                                                                 *)

\* A request arrives and takes the permit; without it the client is told to
\* come back.
Send(h, id, by) ==
    /\ Spent("sends") /\ by \in session.via
    /\ At(h, "idle") /\ permit = {}
    /\ permit' = {h}
    /\ handlers' = [handlers EXCEPT ![h] = [id |-> {id}, by |-> by, pc |-> "candidates"]]
    /\ UNCHANGED <<store, phase, outcome, asked, left, router_vars>>

\* Mutant: a turn whose reply failed to come is tried again.
AdmitRetry(h) ==
    /\ At(h, "candidates")
    /\ \E id \in handlers[h].id :
          IF "completed" \in StatusOf(turns, id) \/ "pending" \in StatusOf(turns, id) \/ Len(turns) >= MaxTurns
          THEN Rests(h) /\ permit' = {} /\ UNCHANGED <<store, phase>>
          ELSE /\ turns' = Append(SelectSeq(turns, LAMBDA t : t.id # id), [id |-> id, status |-> "pending"])
               /\ turns_file' = turns'
               /\ Moves(h, "waiting") /\ phase' = "ready" /\ UNCHANGED permit
    /\ UNCHANGED <<session, outcome, asked, left, router_vars>>

\* Under the lock of the turns: a known request is answered with its turn, a
\* full store refuses; else the turn is written, then added, and the
\* blocking task takes the permit.
Admit(h) ==
    /\ At(h, "candidates")
    /\ \E id \in handlers[h].id :
          IF id \in Ids \/ Len(turns) >= MaxTurns
          THEN Rests(h) /\ permit' = {} /\ UNCHANGED <<store, phase>>
          ELSE /\ turns' = Append(turns, [id |-> id, status |-> "pending"])
               /\ turns_file' = turns'
               /\ Moves(h, "waiting") /\ phase' = "ready" /\ UNCHANGED permit
    /\ UNCHANGED <<session, outcome, asked, left, router_vars>>

\* The turn cannot be written; nothing is kept of the request.
AdmitFails(h) ==
    /\ Spent("faults")
    /\ At(h, "candidates")
    /\ Rests(h) /\ permit' = {}
    /\ UNCHANGED <<store, phase, outcome, asked, left, router_vars>>

\* The blocking task: a call for the curator, if it is enabled and there is
\* something to curate, then the call for the reply.
Curate ==
    /\ phase = "ready" /\ session.curator
    /\ phase' = "curate"
    /\ Begin("chat", DayCap, FALSE)
    /\ UNCHANGED <<session, store, permit, outcome, handlers, asked, left>>

AskReply ==
    /\ phase = "ready"
    /\ phase' = "answer"
    /\ \E h \in permit : asked' = [r \in Requests |-> IF handlers[h].id = {r} THEN asked[r] + 1 ELSE asked[r]]
    /\ Begin("chat", DayCap, TRUE)
    /\ UNCHANGED <<session, store, permit, outcome, handlers, left>>

Curated ==
    /\ phase = "curate" /\ InCall("chat", "done") /\ calls["chat"].result = "answer"
    /\ phase' = "answer"
    /\ \E h \in permit : asked' = [r \in Requests |-> IF handlers[h].id = {r} THEN asked[r] + 1 ELSE asked[r]]
    /\ Set("chat", [NoCall EXCEPT !.pc = "select", !.step = 1, !.day = today, !.cap = DayCap, !.local = TRUE])
    /\ UNCHANGED <<session, store, permit, outcome, handlers, left, today, ledger, usage_file>>

\* The task ends and lets go of the permit.  Its handler hears of it, unless
\* it was dropped.
TaskEnds ==
    /\ InCall("chat", "done")
    /\ phase = "answer" \/ calls["chat"].result # "answer"
    /\ phase' = "off" /\ permit' = {}
    /\ outcome' = [h \in Handlers |-> IF h \in permit /\ At(h, "waiting")
                                      THEN {IF calls["chat"].result = "answer" THEN "completed" ELSE "failed"}
                                      ELSE outcome[h]]
    /\ Return("chat")
    /\ UNCHANGED <<session, store, handlers, asked, left, today, ledger, usage_file>>

WithStatus(s, id, status) == [i \in DOMAIN s |-> IF s[i].id = id THEN [s[i] EXCEPT !.status = status] ELSE s[i]]

\* The end of converse, under the lock of the turns.
Complete(h) ==
    /\ At(h, "waiting")
    /\ \E status \in outcome[h], id \in handlers[h].id : turns' = WithStatus(turns, id, status)
    /\ turns_file' = turns'
    /\ Rests(h) /\ outcome' = [outcome EXCEPT ![h] = {}]
    /\ UNCHANGED <<session, permit, phase, asked, left, router_vars>>

CompleteFails(h) ==
    /\ Spent("faults")
    /\ At(h, "waiting") /\ outcome[h] # {}
    /\ left' = left \cup handlers[h].id
    /\ Rests(h) /\ outcome' = [outcome EXCEPT ![h] = {}]
    /\ UNCHANGED <<store, permit, phase, asked, router_vars>>

\* The connection of an MCP client is gone, and its handler with it; what it
\* awaits goes on without it.
Disconnect(h) ==
    /\ Spent("drops")
    /\ At(h, "candidates") \/ At(h, "waiting")
    /\ handlers[h].by = "mcp"
    /\ IF At(h, "waiting")
       THEN left' = left \cup handlers[h].id /\ Moves(h, "dropped") /\ UNCHANGED permit
       ELSE Rests(h) /\ permit' = {} /\ UNCHANGED left
    /\ outcome' = [outcome EXCEPT ![h] = {}]
    /\ UNCHANGED <<store, phase, asked, router_vars>>

\* A dropped handler is nothing any more, once its task let go of the permit.
ForgetRequest(h) ==
    /\ At(h, "dropped") /\ h \notin permit
    /\ Rests(h)
    /\ UNCHANGED <<session, store, task, asked, left, router_vars>>

-----------------------------------------------------------------------------
(* The rest of the server                                                   *)

\* The worker deliberates about a mention, or reflects under the smaller cap
\* of its proposal, counted from what was spent when it looked.
WorkerCalls(t) ==
    /\ t # "chat"
    /\ Spent("tasks")
    /\ \E cap \in {DayCap, Min({DayCap, Total(today) + CallCap})} : Begin(t, cap, FALSE)
    /\ UNCHANGED <<store, task, handlers, asked, left>>

WorkerReturns(t) ==
    /\ t # "chat"
    /\ Return(t)
    /\ UNCHANGED <<session, store, task, handlers, asked, left, today, ledger, usage_file>>

CallGoesOn(t) == CallStep(t) /\ UNCHANGED chat_vars

UsageWriteFails(t) == Spent("faults") /\ PersistFails(t) /\ UNCHANGED <<store, task, handlers, asked, left>>

\* Mutant: open takes the file as it is.
InterruptedLeft == turns_file

\* ChatStore::open: what was pending at a stop is interrupted.
Interrupted ==
    [i \in DOMAIN turns_file |->
        IF turns_file[i].status = "pending" THEN [turns_file[i] EXCEPT !.status = "interrupted"] ELSE turns_file[i]]

Restart ==
    /\ Spent("restarts")
    /\ turns' = Interrupted /\ turns_file' = turns'
    /\ permit' = {} /\ phase' = "off" /\ outcome' = [h \in Handlers |-> {}]
    /\ handlers' = [h \in Handlers |-> NoRequest]
    /\ left' = {} /\ asked' = asked
    /\ RouterRestarts

Midnight == Spent("nights") /\ MidnightPasses /\ UNCHANGED <<store, task, handlers, asked, left>>

-----------------------------------------------------------------------------

ChatInit ==
    /\ session \in Sessions
    /\ turns = <<>> /\ turns_file = <<>>
    /\ permit = {} /\ phase = "off" /\ outcome = [h \in Handlers |-> {}]
    /\ handlers = [h \in Handlers |-> NoRequest]
    /\ asked = [r \in Requests |-> 0] /\ left = {}

ServicesInit == RouterInit /\ ChatInit

TaskStep == AskReply \/ Curated \/ TaskEnds
HandlerStep(h) == Admit(h) \/ Complete(h)

ServicesNext ==
    \/ \E h \in Handlers :
          \/ \E id \in Requests, by \in {"http", "mcp"} : Send(h, id, by)
          \/ HandlerStep(h)
          \/ AdmitFails(h)
          \/ CompleteFails(h)
          \/ Disconnect(h)
          \/ ForgetRequest(h)
    \/ Curate
    \/ TaskStep
    \/ \E t \in Threads : WorkerCalls(t) \/ WorkerReturns(t) \/ CallGoesOn(t) \/ UsageWriteFails(t)
    \/ Restart
    \/ Midnight

\* Providers answer or time out, and tasks and handlers are run.
ServicesFairness ==
    /\ \A h \in Handlers : WF_<<chat_vars, router_vars>>(HandlerStep(h))
    /\ WF_<<chat_vars, router_vars>>(TaskStep)
    /\ \A t \in Threads : WF_<<chat_vars, router_vars>>(CallGoesOn(t))

ServicesSpec ==
    ServicesInit /\ [][ServicesNext]_<<chat_vars, router_vars>> /\ ServicesFairness

-----------------------------------------------------------------------------

ChatTypeOK ==
    /\ Len(turns) <= MaxTurns /\ turns = turns_file
    /\ \A i \in DOMAIN turns : turns[i].status \in {"pending", "completed", "failed", "interrupted"}
    /\ \A h \in permit : ~At(h, "idle")
    /\ (permit = {}) <=> (phase = "off" /\ \A h \in Handlers : ~At(h, "candidates"))

\* One request is one inference: a client may retry while it runs, after its
\* end, and after a restart that interrupted it, and nothing is asked twice.
AskedOnce == \A r \in Requests : asked[r] <= 1

\* The store keeps its turns, and what a turn came to: later requests, late
\* completions and restarts change neither.
TurnsAreFinal ==
    [][/\ Len(turns') >= Len(turns)
       /\ \A i \in DOMAIN turns :
             /\ turns'[i].id = turns[i].id
             /\ turns[i].status # "pending" => turns'[i].status = turns[i].status]_<<turns, turns_file>>

Pending(r) == "pending" \in StatusOf(turns, r)

\* A turn does not stay pending, unless its handler was dropped or could not
\* write.
PendingEnds == \A r \in Requests : Pending(r) ~> (~Pending(r) \/ r \in left)

=============================================================================
