---------------------------------- MODULE MindLoop ----------------------------------
(***************************************************************************)
(* The program of the first generation (src/main.rs, http.rs, planner.rs,  *)
(* clock.rs, identity.rs) over its engine (persist.rs, corpus.rs).         *)
(*                                                                         *)
(* One thread owns the memories and drains two channels: the dreams of the *)
(* clock and the commands of the HTTP thread, which handles one request at *)
(* a time and waits ten seconds for its answer.  A recall that needs a     *)
(* language model waits in a list until its planner thread has answered.   *)
(* As a REPL the same thread takes lines instead of commands.              *)
(*                                                                         *)
(* Commands and the entries of the log that change nothing but reads are   *)
(* left out.  Each command runs to its end before a crash: what a torn     *)
(* write of the log or of a snapshot does is DurableEngine's.              *)
(***************************************************************************)
EXTENDS Integers, Sequences, DreamCycle

-----------------------------------------------------------------------------
(***************************************************************************)
(* The clock thread (src/clock.rs): it polls the radio for entropy, keeps  *)
(* the bytes in a reservoir and sends the main thread a dream whenever     *)
(* there are enough of them.                                               *)
(***************************************************************************)

CONSTANTS
    Batch,          \* bytes of one answer of the radio (64)
    Capacity,       \* of the reservoir (1024)
    Threshold       \* bytes that make a dream (16)

ASSUME ClockAssumption ==
    /\ {Batch, Capacity, Threshold} \subseteq Nat \ {0}
    /\ Batch <= Capacity

VARIABLES
    reservoir,      \* bytes in the reservoir
    radio,          \* whether the last poll reached the radio (telemetry)
    clock_events,   \* the channel to the main thread: intensities of dreams
    received,       \* history: bytes the radio has given since the start
    dreamt          \* history: dreams sent since the start

clock_vars == <<reservoir, radio, clock_events, received, dreamt>>

AtMost(a, b) == IF a < b THEN a ELSE b

\* Bytes that one tick leaves once the jitter has taken its own.
AfterJitter == IF reservoir > 0 THEN reservoir - 1 ELSE 0

\* consume: a dream takes at most a batch.
SeedTaken(bytes) == bytes - AtMost(bytes, Batch)

\* Quarters of a batch the reservoir holds.
Intensity(bytes) == AtMost((4 * bytes) \div Batch, 4)

\* The probe at the start; the radio may answer with the time only, which
\* counts as reachable.
Probe ==
    \E reachable, entropy \in BOOLEAN :
        LET bytes == IF entropy THEN Batch ELSE 0
        IN /\ entropy => reachable
           /\ radio' = reachable /\ reservoir' = bytes /\ received' = bytes
           /\ clock_events' = <<>> /\ dreamt' = 0

\* A tick: jitter, poll, deposit, and a dream when the threshold is reached.
Tick(reachable, entropy) ==
    LET bytes == AtMost(AfterJitter + (IF entropy THEN Batch ELSE 0), Capacity)
        dream == bytes >= Threshold
    IN /\ entropy => reachable
       /\ radio' = reachable
       /\ received' = received + (IF entropy THEN Batch ELSE 0)
       /\ reservoir' = IF dream THEN SeedTaken(bytes) ELSE bytes
       /\ clock_events' = IF dream THEN Append(clock_events, Intensity(bytes)) ELSE clock_events
       /\ dreamt' = IF dream THEN dreamt + 1 ELSE dreamt

-----------------------------------------------------------------------------

CONSTANTS
    Texts,             \* texts of memories
    Observation,       \* the id `confer` gives its observation
    RotateAt,          \* entries after which the log is rotated
    HeatCeiling, HeatDreamCool,
    MaxHeat,           \* bound
    Commands,          \* what clients may ask for
    Minds,             \* what the snapshot may hold at the first start
    Jobs               \* bounds: how often each thing may happen

VARIABLES
    job,               \* what is left of the bounds, and what is asked for
    mind,              \* the engine: rows, text, records, graph, tree
    snapshot, log,     \* its files
    corpus,            \* the search engine: id -> text
    identity,          \* archetypes that are active, and the heat
    pc, mode,          \* the main thread
    queue,             \* commands the HTTP thread has sent
    pending,           \* recalls whose planner thread has not been heard
    http,              \* {} or the request that waits for its answer
    should_stop,
    told,              \* history: id -> text of what was remembered
    misled,            \* history: ids whose text a refused command replaced
                       \* in the search engine
    owed               \* history: deferred recalls that have no answer yet

loop_vars == <<mind, snapshot, log, corpus, identity, pc, mode, queue, pending, http, should_stop, told, misled, owed>>
vars == <<job, clock_vars, loop_vars>>

JobRecords ==
    [requests : Nat, timeouts : Nat, misfits : Nat, slips : Nat, panics : Nat, lines : Nat, signals : Nat,
     crashes : Nat, starts : Nat, ticks : Nat, ages : Nat, ops : SUBSET STRING, modes : SUBSET {"serve", "repl"}]

Bounded(what) == job[what] > 0 /\ job' = [job EXCEPT ![what] = @ - 1]

Up == pc \notin {"down", "stopped", "failed"}

Command == [op |-> "none", id |-> 0, to |-> 0, ids |-> {}, text |-> "", kind |-> "", n |-> 0,
            flag |-> FALSE, req |-> 0]

\* A command names the memories and the text it is about.
CommandRecords ==
    {c \in [op : STRING, id : Nodes \union {0}, to : Nodes \union {0}, ids : SUBSET Nodes, text : Texts \union {""},
            kind : EdgeKinds \union {""}, n : Nat, flag : BOOLEAN, req : Nat] :
        /\ c.op \in {"remember", "delete", "connect", "disconnect"} => c.id \in Nodes
        /\ c.op \in {"connect", "disconnect"} => c.to \in Nodes
        /\ c.op = "connect" => c.kind \in EdgeKinds
        /\ c.op \in {"remember", "confer"} => c.text \in Texts}

-----------------------------------------------------------------------------
(* The engine                                                               *)

Entered(f, x, v) == [y \in DOMAIN f \union {x} |-> IF y = x THEN v ELSE f[y]]

NoMind == [rows |-> {}, text |-> <<>>, records |-> <<>>, graph |-> NoGraph, tree |-> {}]

\* What an engine holds: a text for each row, sound records, and terms of
\* memories that have a record.
IsMemory(m) ==
    /\ m = [rows |-> m.rows, text |-> [id \in m.rows |-> m.text[id]],
            records |-> [id \in DOMAIN m.records |-> m.records[id]], graph |-> m.graph, tree |-> m.tree]
    /\ m.rows \subseteq Nodes /\ \A id \in m.rows : m.text[id] \in Texts
    /\ DOMAIN m.records \subseteq Nodes /\ \A id \in DOMAIN m.records : m.records[id] \in Records
    /\ m.graph \in Graphs
    /\ m.tree \subseteq Texts \X Nodes
TermsAreStored(m) == \A t \in m.tree : t[2] \in DOMAIN m.records

ASSUME MindAssumption ==
    /\ Observation \in Nodes /\ {HeatDreamCool, MaxHeat} \subseteq Nat
    /\ Commands \subseteq CommandRecords /\ Jobs \subseteq JobRecords
    /\ \A m \in Minds : IsMemory(m) /\ TermsAreStored(m)

PutRow(m, id, text) == [m EXCEPT !.rows = @ \union {id}, !.text = Entered(@, id, text)]

Remembered(m, id, text, keystone) ==
    [PutRow(m, id, text) EXCEPT !.records = Entered(@, id, [NewRecord EXCEPT !.keystone = keystone])]

Termed(m, id, text) == [m EXCEPT !.tree = @ \union {<<text, id>>}]

RowDeleted(m, id) ==
    [m EXCEPT !.rows = @ \ {id}, !.text = [i \in DOMAIN @ \ {id} |-> @[i]]]

Dropped(m, id) ==
    [RowDeleted(m, id) EXCEPT !.records = [i \in DOMAIN @ \ {id} |-> @[i]],
                              !.graph = Removed(@, id),
                              !.tree = {t \in @ : t[2] # id}]

\* apply_wal_entry
Redone(m, e) ==
    CASE e.op = "Remember" -> Remembered(m, e.id, e.text, e.flag)
      [] e.op = "Upsert" -> PutRow(m, e.id, e.text)
      [] e.op = "Delete" -> RowDeleted(m, e.id)
      [] e.op = "RemoveMemory" -> Dropped(m, e.id)
      [] e.op = "InsertTerm" -> Termed(m, e.id, e.text)
      [] e.op = "Connect" -> [m EXCEPT !.graph = Connected(@, [from |-> e.id, to |-> e.to, kind |-> e.kind])]
      [] e.op = "Disconnect" -> [m EXCEPT !.graph = Disconnected(@, {e.id, e.to})]

\* A snapshot holds the edges; the indexes of the graph are made from them.
Snapshot(m) == [m EXCEPT !.graph = Rebuilt(@.edges)]

OnDisk == FoldLeft(Redone, snapshot, log)

\* The entries are redone on the engine and appended; a long log is rotated.
Logged(entries) ==
    LET m == FoldLeft(Redone, mind, entries)
        long == Len(log) + Len(entries) >= RotateAt
    IN /\ mind' = m
       /\ snapshot' = IF long THEN Snapshot(m) ELSE snapshot
       /\ log' = IF long THEN <<>> ELSE log \o entries

\* What a dream, a recall or a keystone changes is not in the log.
Unlogged(m) == mind' = m /\ UNCHANGED <<snapshot, log>>

Checkpointed == snapshot' = Snapshot(mind) /\ log' = <<>>

Entry(op, c) == [c EXCEPT !.op = op, !.req = 0]

-----------------------------------------------------------------------------
(* Identity: an archetype that is active closes a gate.                     *)

NoIdentity == [tier |-> "Minimal", heat |-> 0]

Dreamt(intensity) ==
    [identity EXCEPT !.tier = Tier(intensity),
                     !.heat = IF @ > HeatDreamCool THEN @ - HeatDreamCool ELSE 0]

\* resonates: a keystone always; the Temporal gate (two seconds, two days)
\* may or may not let a fresh or an old memory through.
Resonates(who, r, temporal) ==
    \/ r.keystone
    \/ /\ who.tier # "Minimal" => (r.stale = 1 \/ temporal) /\ who.heat <= HeatCeiling
       /\ who.tier = "Full" => AboveGate(r) /\ r.state = "Active" /\ who.heat < HeatCeiling

\* cmd_recall_sql_embed, on a self: the memories and the identity
Recalled(self, ids, temporal) ==
    LET m == self.mind
        resonant == {id \in ids \intersect m.rows \intersect DOMAIN m.records :
                        Resonates(self.identity, m.records[id], temporal)}
    IN [mind |-> With(m, resonant, OnRecall),
        identity |-> [self.identity EXCEPT !.heat = AtMost(@ + Cardinality(resonant), MaxHeat)]]

\* The recalls at the indices, one after the other.
RecalledInTurn(self, recalls, temporal, indices) ==
    FoldLeft(LAMBDA s, i : Recalled(s, recalls[i].ids, temporal[i]), self, indices)

Self == [mind |-> mind, identity |-> identity]

Becomes(self) == Unlogged(self.mind) /\ identity' = self.identity

Recall(ids) == \E temporal \in BOOLEAN : Becomes(Recalled(Self, ids, temporal))

-----------------------------------------------------------------------------
(* The commands, as the HTTP thread's and as lines of the REPL              *)

Dream(intensity) ==
    /\ \E m \in Dreams(mind, intensity) : Unlogged(m)
    /\ identity' = Dreamt(intensity)

Forget(id) == [i \in DOMAIN told \ {id} |-> told[i]]

\* A vector of another dimension is refused after the search engine, in the
\* arm of the HTTP command, has been given the text, in the place of the one
\* a memory of that id may have.
Remember(c, fits) ==
    /\ IF fits THEN /\ Logged(<<Entry("Remember", c), Entry("InsertTerm", c)>>)
                    /\ told' = Entered(told, c.id, c.text) /\ misled' = misled \ {c.id}
               ELSE misled' = misled \union {c.id} /\ UNCHANGED <<mind, snapshot, log, told>>
    /\ corpus' = IF mode = "serve" THEN Entered(corpus, c.id, c.text) ELSE corpus
    /\ UNCHANGED identity

\* An observation has no terms, and is none of the search engine's.
Confer(c) ==
    /\ Logged(<<[Entry("Remember", c) EXCEPT !.id = Observation]>>)
    /\ told' = Forget(Observation)
    /\ UNCHANGED <<corpus, misled, identity>>

\* remove_memory logs only when there was a row.
Delete(c) ==
    /\ IF c.id \in mind.rows THEN Logged(<<Entry("RemoveMemory", c)>>) ELSE Unlogged(Dropped(mind, c.id))
    /\ corpus' = [i \in DOMAIN corpus \ {c.id} |-> corpus[i]] /\ misled' = misled \ {c.id}
    /\ told' = Forget(c.id)
    /\ UNCHANGED identity

Keystone(c) ==
    /\ Unlogged(With(mind, {c.id}, LAMBDA r : [r EXCEPT !.keystone = ~@]))
    /\ UNCHANGED <<corpus, misled, identity, told>>

Link(c) ==
    /\ Logged(<<Entry(IF c.op = "connect" THEN "Connect" ELSE "Disconnect", c)>>)
    /\ UNCHANGED <<corpus, misled, identity, told>>

Checkpoint ==
    /\ Checkpointed
    /\ UNCHANGED <<mind, corpus, misled, identity, told>>

\* What both kinds of input can ask for.
Execute(c) ==
    \/ /\ c.op = "remember"
       /\ \/ Remember(c, TRUE) /\ UNCHANGED job
          \/ Bounded("misfits") /\ Remember(c, FALSE)
    \/ c.op = "dream" /\ Dream(c.n) /\ UNCHANGED <<job, corpus, misled, told>>
    \/ c.op = "keystone" /\ Keystone(c) /\ UNCHANGED job
    \/ c.op \in {"connect", "disconnect"} /\ Link(c) /\ UNCHANGED job
    \/ c.op = "checkpoint" /\ Checkpoint /\ UNCHANGED job

-----------------------------------------------------------------------------
(* The HTTP thread                                                          *)

\* A request is sent to the main thread; its answer is awaited.
Request(c) ==
    /\ Up /\ mode = "serve" /\ http = {} /\ Bounded("requests")
    /\ queue' = Append(queue, [c EXCEPT !.req = job.requests])
    /\ http' = {job.requests}
    /\ UNCHANGED <<clock_vars, mind, snapshot, log, corpus, misled, identity, pc, mode, pending, should_stop, told, owed>>

\* After ten seconds the client is told so; the command stays where it is.
TimesOut ==
    /\ http # {} /\ Bounded("timeouts")
    /\ http' = {}
    /\ UNCHANGED <<clock_vars, mind, snapshot, log, corpus, misled, identity, pc, mode, queue, pending, should_stop,
                   told, owed>>

\* An answer reaches the request if it still waits.
Answered(reqs) == http' = http \ reqs

-----------------------------------------------------------------------------
(* The main thread                                                          *)

Goes(next) == pc' = next

\* The flag is looked at once per round.
Round ==
    /\ pc = "top" /\ ~should_stop
    /\ Goes("clock")
    /\ UNCHANGED <<job, clock_vars, mind, snapshot, log, corpus, misled, identity, mode, queue, pending, http, should_stop,
                   told, owed>>

\* A checkpoint that fails ends the program with an error.
Stop ==
    /\ pc = "top" /\ should_stop
    /\ \/ Checkpointed /\ Goes("stopped") /\ UNCHANGED job
       \/ Bounded("slips") /\ Goes("failed") /\ UNCHANGED <<snapshot, log>>
    /\ http' = {} /\ queue' = <<>> /\ pending' = <<>> /\ owed' = {}
    /\ UNCHANGED <<clock_vars, mind, corpus, misled, identity, mode, should_stop, told>>

\* process_clock_events
DreamOfTheClock ==
    /\ pc = "clock" /\ clock_events # <<>>
    /\ Dream(Head(clock_events))
    /\ clock_events' = Tail(clock_events)
    /\ UNCHANGED <<job, reservoir, radio, received, dreamt, corpus, misled, pc, mode, queue, pending, http, should_stop,
                   told, owed>>

ClockDrained ==
    /\ pc = "clock" /\ clock_events = <<>>
    /\ Goes(IF mode = "serve" THEN "http" ELSE "line")
    /\ UNCHANGED <<job, clock_vars, mind, snapshot, log, corpus, misled, identity, mode, queue, pending, http, should_stop,
                   told, owed>>

\* process_http_commands
Serve ==
    /\ pc = "http" /\ queue # <<>>
    /\ LET c == Head(queue) IN
       /\ \/ Execute(c)
          \/ c.op = "delete" /\ Delete(c) /\ UNCHANGED job
          \/ c.op = "confer" /\ Confer(c) /\ UNCHANGED job
          \/ /\ c.op = "recall" /\ ~c.flag
             /\ Recall(c.ids)
             /\ UNCHANGED <<job, corpus, misled, told>>
       /\ Answered({c.req})
    /\ queue' = Tail(queue)
    /\ UNCHANGED <<clock_vars, pc, mode, pending, should_stop, owed>>

\* A recall that needs the model goes to a planner thread of its own.
Defer ==
    /\ pc = "http" /\ queue # <<>> /\ Head(queue).op = "recall" /\ Head(queue).flag
    /\ pending' = Append(pending, [req |-> Head(queue).req, ids |-> Head(queue).ids, rx |-> "empty"])
    /\ owed' = owed \union {Head(queue).req}
    /\ queue' = Tail(queue)
    /\ UNCHANGED <<job, clock_vars, mind, snapshot, log, corpus, misled, identity, pc, mode, http, should_stop, told>>

CommandsDrained ==
    /\ pc = "http" /\ queue = <<>>
    /\ Goes("recalls")
    /\ UNCHANGED <<job, clock_vars, mind, snapshot, log, corpus, misled, identity, mode, queue, pending, http, should_stop,
                   told, owed>>

\* The planner answers with SQL, its own or the model's; or its thread dies.
PlannerEnds ==
    /\ \E i \in DOMAIN pending :
          /\ pending[i].rx = "empty"
          /\ \/ pending' = [pending EXCEPT ![i].rx = "sql"] /\ UNCHANGED job
             \/ Bounded("panics") /\ pending' = [pending EXCEPT ![i].rx = "dead"]
    /\ UNCHANGED <<clock_vars, mind, snapshot, log, corpus, misled, identity, pc, mode, queue, http, should_stop, told,
                   owed>>

\* swap_remove: the last element takes the place of the removed one.
SwapRemoved(s, i) == [j \in 1..(Len(s) - 1) |-> IF j = i THEN s[Len(s)] ELSE s[j]]

\* Mutant: the indices are used from the first to the last.
WithoutForward(s, done) ==
    FoldLeft(LAMBDA t, i : IF i \in done /\ i <= Len(t) THEN SwapRemoved(t, i) ELSE t,
             s, [i \in DOMAIN s |-> i])

\* The finished ones are removed from the last to the first.
Without(s, done) ==
    FoldRight(LAMBDA i, t : IF i \in done THEN SwapRemoved(t, i) ELSE t, [i \in DOMAIN s |-> i], s)

Finished(recall) == recall.rx # "empty"

\* process_pending_recalls: those that have an answer are executed in turn,
\* all of them are answered.
Recalls ==
    /\ pc = "recalls"
    /\ LET done == {i \in DOMAIN pending : Finished(pending[i])}
           answered == Chosen([i \in DOMAIN pending |-> i], {i \in done : pending[i].rx = "sql"})
       IN /\ \E temporal \in [done -> BOOLEAN] : Becomes(RecalledInTurn(Self, pending, temporal, answered))
          /\ pending' = Without(pending, done)
          /\ owed' = owed \ {pending[i].req : i \in done}
          /\ Answered({pending[i].req : i \in done})
    /\ Goes("top")
    /\ UNCHANGED <<job, clock_vars, corpus, misled, mode, queue, should_stop, told>>

\* A line of the REPL; `delete` and `upsert` are those of the row.
Line(c) ==
    /\ pc = "line" /\ Bounded("lines")
    /\ \/ /\ c.op \notin {"remember", "checkpoint"}
          /\ \/ c.op = "dream" /\ Dream(c.n) /\ UNCHANGED told
             \/ /\ c.op = "keystone"
                /\ Unlogged(With(mind, {c.id}, LAMBDA r : [r EXCEPT !.keystone = ~@]))
                /\ UNCHANGED <<identity, told>>
             \/ /\ c.op = "touch"
                /\ Unlogged(With(mind, {c.id}, OnRecall))
                /\ UNCHANGED <<identity, told>>
             \/ /\ c.op = "recall"
                /\ Recall(c.ids)
                /\ UNCHANGED told
             \/ /\ c.op = "delete" /\ told' = Forget(c.id)
                /\ IF c.id \in mind.rows THEN Logged(<<Entry("Delete", c)>>)
                   ELSE UNCHANGED <<mind, snapshot, log>>
                /\ UNCHANGED identity
       \/ /\ c.op = "remember"
          /\ \/ /\ Logged(<<Entry("Remember", c), Entry("InsertTerm", c)>>)
                /\ told' = Entered(told, c.id, c.text)
             \/ /\ Logged(<<Entry("Upsert", c)>>)
                /\ told' = Forget(c.id)
          /\ UNCHANGED identity
       \/ c.op = "checkpoint" /\ Checkpointed /\ UNCHANGED <<mind, identity, told>>
    /\ Goes("top")
    /\ UNCHANGED <<clock_vars, corpus, misled, mode, queue, pending, http, should_stop, owed>>

NoLine ==
    /\ pc = "line"
    /\ Goes("top")
    /\ UNCHANGED <<job, clock_vars, mind, snapshot, log, corpus, misled, identity, mode, queue, pending, http, should_stop,
                   told, owed>>

Signal ==
    /\ Up /\ ~should_stop /\ Bounded("signals")
    /\ should_stop' = TRUE
    /\ UNCHANGED <<clock_vars, mind, snapshot, log, corpus, misled, identity, pc, mode, queue, pending, http, told, owed>>

-----------------------------------------------------------------------------
(* Starts, crashes and time                                                 *)

\* The search engine is made from the rows that have a text.
Indexed(m) == [id \in m.rows |-> m.text[id]]

Crash ==
    /\ Up /\ Bounded("crashes")
    /\ Goes("down")
    /\ mind' = NoMind /\ corpus' = <<>> /\ misled' = {} /\ queue' = <<>> /\ pending' = <<>> /\ http' = {} /\ owed' = {}
    /\ should_stop' = FALSE /\ identity' = NoIdentity
    /\ reservoir' = 0 /\ radio' = FALSE /\ clock_events' = <<>> /\ received' = 0 /\ dreamt' = 0
    /\ UNCHANGED <<snapshot, log, mode, told>>

\* open: the identity is the one that was written when it was made.
Start(m) ==
    /\ m \in job.modes
    /\ pc \in {"down", "stopped", "failed"} /\ Bounded("starts")
    /\ mode' = m
    /\ mind' = OnDisk /\ corpus' = IF m = "serve" THEN Indexed(OnDisk) ELSE <<>>
    /\ misled' = {}
    /\ identity' = NoIdentity /\ should_stop' = FALSE /\ http' = {} /\ queue' = <<>> /\ pending' = <<>>
    /\ owed' = {}
    /\ Probe
    /\ Goes("top")
    /\ UNCHANGED <<snapshot, log, told>>

ClockTicks ==
    /\ Up /\ Bounded("ticks")
    /\ \E reachable, entropy \in BOOLEAN : Tick(reachable, entropy)
    /\ UNCHANGED loop_vars

\* An hour or a day without a recall, in which the agent cools.
Age ==
    /\ Up /\ Bounded("ages")
    /\ mind' = With(mind, DOMAIN mind.records, LAMBDA r : [r EXCEPT !.stale = AtMost(@ + 1, 2)])
    /\ identity' = [identity EXCEPT !.heat = 0]
    /\ UNCHANGED <<clock_vars, snapshot, log, corpus, misled, pc, mode, queue, pending, http, should_stop, told, owed>>

-----------------------------------------------------------------------------
LoopInit ==
    /\ job \in Jobs
    /\ snapshot \in Minds /\ log = <<>>
    /\ told = [id \in {i \in snapshot.rows \intersect DOMAIN snapshot.records : <<snapshot.text[i], i>> \in snapshot.tree}
                  |-> snapshot.text[id]]
    /\ mind = NoMind /\ corpus = <<>> /\ misled = {} /\ identity = NoIdentity
    /\ pc = "down" /\ mode = "serve"
    /\ queue = <<>> /\ pending = <<>> /\ http = {} /\ owed = {} /\ should_stop = FALSE
    /\ reservoir = 0 /\ radio = FALSE /\ clock_events = <<>> /\ received = 0 /\ dreamt = 0

MainStep ==
    \/ Round \/ Stop
    \/ DreamOfTheClock \/ ClockDrained
    \/ Serve \/ Defer \/ CommandsDrained \/ Recalls
    \/ NoLine

LoopNext ==
    \/ MainStep
    \/ \E c \in Commands : c.op \in job.ops /\ (Request(c) \/ Line(c))
    \/ TimesOut \/ PlannerEnds \/ Signal \/ Crash \/ ClockTicks \/ Age
    \/ \E m \in {"serve", "repl"} : Start(m)

\* What the main thread takes or where it goes; every step of MainStep is one
\* of these, and each of them is possible whenever its guard holds.
DreamTaken == pc = "clock" /\ clock_events # <<>> /\ clock_events' = Tail(clock_events)
CommandTaken == pc = "http" /\ queue # <<>> /\ queue' = Tail(queue)
Turn ==
    \/ pc = "top" /\ pc' \in {"clock", "stopped", "failed"}
    \/ pc = "clock" /\ clock_events = <<>> /\ pc' \in {"http", "line"}
    \/ pc = "http" /\ queue = <<>> /\ pc' = "recalls"
    \/ pc \in {"recalls", "line"} /\ pc' = "top"

\* The threads run; nobody has to ask for anything, and the radio owes no
\* entropy.
LoopFairness ==
    WF_clock_events(DreamTaken) /\ WF_queue(CommandTaken) /\ WF_pc(Turn) /\ WF_vars(PlannerEnds)

LoopSpec == LoopInit /\ [][LoopNext]_vars
FairLoopSpec == LoopSpec /\ LoopFairness

-----------------------------------------------------------------------------
(* Properties                                                               *)

\* The types, and that a term leads to something that is still stored.
LoopTypeOK ==
    /\ IsMemory(mind) /\ TermsAreStored(mind)
    /\ reservoir \in 0..Capacity
    /\ identity.heat \in 0..MaxHeat
    /\ pc \in {"down", "stopped", "failed", "top", "clock", "http", "recalls", "line"}
    /\ mode \in {"serve", "repl"}

\* A memory that was told and never deleted keeps its record, however long
\* the agent dreams: no memory loses all its fidelity, because forgiving
\* stops its decay first, and pruning finds nothing to prune.
NothingFadesAway == Up => DOMAIN told \subseteq DOMAIN mind.records

\* A memory that is archived while it was still active was absorbed, and the
\* one that absorbed it is active and has an edge to it: nothing is archived
\* without either a survivor or an hour among the forgiven.  The edge is the
\* causal one of the audit, unless a neighbour of a later absorbed memory,
\* read from a stale index, had a consolidated one put in its place.
AbsorbedHasASurvivor ==
    [][\A id \in DOMAIN mind.records \intersect DOMAIN mind'.records :
          mind.records[id].state = "Active" /\ mind'.records[id].state = "Archived" =>
             \E e \in mind'.graph.edges :
                /\ e.to = id /\ e.kind # "Structural"
                /\ mind'.records[e.from].state = "Active"]_mind

\* The recalls in the list are those whose answer is owed: removing the
\* finished ones by their indices loses none that still waits and keeps none
\* that was answered.
NoRecallIsDropped ==
    /\ owed = {pending[i].req : i \in DOMAIN pending}
    /\ Cardinality(owed) = Len(pending)

\* A graceful stop keeps everything, what recalls, dreams and keystones
\* changed and never logged included.
StopKeepsAll ==
    pc = "stopped" => /\ OnDisk.rows = mind.rows /\ OnDisk.text = mind.text
                      /\ OnDisk.records = mind.records
                      /\ OnDisk.graph.edges = mind.graph.edges
                      /\ OnDisk.tree = mind.tree

\* The texts under which a memory is found.
FoundBy(id) ==
    {text \in Texts : <<text, id>> \in mind.tree /\ id \in DOMAIN corpus /\ corpus[id] = text}

\* The search of the server finds every memory by the text it was told last,
\* by no other, and nothing that was deleted, over restarts and whichever of
\* the two front ends did the change.  A memory whose text a refused command
\* has replaced is out of it until it is told again, deleted, or the program
\* starts anew.
SearchIsCurrent ==
    Up /\ mode = "serve" =>
       /\ \A id \in DOMAIN told \ misled : FoundBy(id) = {told[id]}
       /\ \A id \in Nodes \ (mind.rows \union DOMAIN mind.records) : FoundBy(id) = {}

\* Every dream of the clock was paid for with entropy the radio gave: with
\* its threshold, or a batch where DREAM_THRESHOLD_BYTES asks for more.
DreamsArePaidFor == dreamt * AtMost(Threshold, Batch) <= received

\* Whatever was asked and every recall that waits for the model is dealt with.
LoopKeepsUp == (Up /\ (queue # <<>> \/ pending # <<>>)) ~> (~Up \/ (queue = <<>> /\ pending = <<>>))

\* Nothing that was told, asked or paid for is dropped by the loop: memories
\* and their index keep what they were told, recalls wait for their answer, and
\* a graceful stop leaves it all on disk.
NothingIsDropped ==
    /\ LoopTypeOK
    /\ NothingFadesAway
    /\ NoRecallIsDropped
    /\ StopKeepsAll
    /\ SearchIsCurrent
    /\ DreamsArePaidFor
=============================================================================
