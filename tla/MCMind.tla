-------------------------------- MODULE MCMind --------------------------------
(***************************************************************************)
(* Two processes with a store of their own, one of which is busy: the      *)
(* first generation, with three memories and an observation; and the chat  *)
(* sessions of the server with their router, on a day of retries and       *)
(* restarts, a day of connections that drop and writes that fail, and a    *)
(* day on which the curator and the worker spend.                          *)
(***************************************************************************)
EXTENDS MindLoop, ChatSessions

\* 1 and 2 say the same, 2 and 3 are related.
MCSimilar(a, b) == {a, b} = {1, 2}
MCRelated(a, b) == {a, b} = {2, 3}

Ask(op) == [Command EXCEPT !.op = op]
About(op, id) == [Ask(op) EXCEPT !.id = id]

MCCommands ==
    {[About("remember", id) EXCEPT !.text = t] : id \in 1..2, t \in Texts}
    \union {About(op, 1) : op \in {"delete", "keystone", "touch"}}
    \union {[Ask("confer") EXCEPT !.text = "a"]}
    \union {[Ask("recall") EXCEPT !.ids = ids, !.flag = f] : ids \in {{1}, {1, 2, 3}}, f \in BOOLEAN}
    \union {[Ask("dream") EXCEPT !.n = n] : n \in {2, 4}}
    \union {[About("connect", 1) EXCEPT !.to = 3, !.kind = k] : k \in {"Causal", "Structural"}}
    \union {[About("disconnect", 1) EXCEPT !.to = 3]}
    \union {Ask("checkpoint")}

Told(records, edges) ==
    [rows |-> DOMAIN records, text |-> [id \in DOMAIN records |-> IF id = 2 THEN "b" ELSE "a"],
     records |-> records, graph |-> Rebuilt(edges),
     tree |-> {<<IF id = 2 THEN "b" ELSE "a", id>> : id \in DOMAIN records}]

Fading == [NewRecord EXCEPT !.fid = Gate]

MCMinds ==
    {NoMind,
     Told([id \in 1..2 |-> NewRecord], {}),
     Told(3 :> Fading, {}),
     Told(<<Fading, [NewRecord EXCEPT !.recalls = PromoteAfter],
            [NewRecord EXCEPT !.keystone = TRUE, !.stale = 1]>>,
          {[from |-> 1, to |-> 3, kind |-> "Causal"]})}

Still == [requests |-> 0, timeouts |-> 0, misfits |-> 0, slips |-> 0, panics |-> 0, lines |-> 0,
          signals |-> 0, crashes |-> 0, starts |-> 1, ticks |-> 0, ages |-> 0,
          ops |-> {}, modes |-> {"serve"}]

MCJobs ==
    {[Still EXCEPT !.requests = 3, !.ages = 2, !.ops = {"dream", "keystone"}],
     [Still EXCEPT !.requests = 2, !.timeouts = 2, !.panics = 1, !.ops = {"recall"}],
     [Still EXCEPT !.requests = 2, !.timeouts = 1, !.misfits = 1, !.crashes = 1, !.starts = 2,
                   !.ops = {"remember", "delete", "confer"}],
     [Still EXCEPT !.requests = 2, !.signals = 1, !.slips = 1, !.starts = 2,
                   !.ops = {"remember", "recall", "connect", "disconnect", "checkpoint"}],
     [Still EXCEPT !.ticks = 3, !.requests = 1, !.signals = 1, !.ops = {"recall"}],
     [Still EXCEPT !.lines = 2, !.crashes = 1, !.signals = 1, !.starts = 2, !.modes = {"serve", "repl"},
                   !.ops = {"remember", "delete", "touch", "recall", "dream", "keystone", "checkpoint"}]}
-----------------------------------------------------------------------------
MCRoute == <<"local", "cloud">>

Quiet == [sends |-> 0, tasks |-> 0, restarts |-> 0, drops |-> 0, faults |-> 0, nights |-> 0,
          via |-> {"http"}, curator |-> FALSE]
MCSessions ==
    {[Quiet EXCEPT !.sends = 3, !.restarts = 1],
     [Quiet EXCEPT !.sends = 2, !.drops = 1, !.faults = 1, !.via = {"mcp"}],
     [Quiet EXCEPT !.sends = 1, !.tasks = 1, !.curator = TRUE],
     [Quiet EXCEPT !.tasks = 4, !.faults = 1],
     [Quiet EXCEPT !.tasks = 2, !.restarts = 1, !.nights = 1]}
NeverStarted == [Still EXCEPT !.starts = 0]
MCAllJobs == MCJobs \union {NeverStarted}
MCAllSessions == MCSessions \union {Quiet}

MCInit ==
    /\ LoopInit /\ (job = NeverStarted => snapshot = NoMind)
    /\ ServicesInit /\ (job = NeverStarted <=> session # Quiet)

MCNext ==
    \/ LoopNext /\ UNCHANGED <<chat_vars, router_vars>>
    \/ ServicesNext /\ UNCHANGED vars

MCSpec ==
    /\ MCInit /\ [][MCNext]_<<vars, chat_vars, router_vars>>
    /\ LoopFairness /\ ServicesFairness

\* What was asked is dealt with and stays dealt with: commands and recalls by
\* the loop, turns by the chat; and nothing is archived without a survivor.
MindGoesOn ==
    /\ AbsorbedHasASurvivor
    /\ LoopKeepsUp
    /\ TurnsAreFinal
    /\ PendingEnds
=============================================================================
