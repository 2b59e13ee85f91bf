# Ferricula: TLA+ models and proofs

This directory is a verification project for Ferricula, a memory system for
one long-lived agent ("Steve").  It holds TLA+ modules translated from the
sources, TLC configurations that check them on small instances, and proofs
that TLAPS checks for every value of the constants.  `PROJECT.json` is the
index: components, runs, mutants, the map from definitions to source lines,
findings, hazards and theorems.  Paths below are relative to the repository
(`src/` in `PROJECT.json` is the repository's root).

Contents

1. The system
2. The modules and how they correspond to the code
3. The runs: what each checks, and the bounds
4. Time and fairness
5. What is proved
6. Where code and documents disagree
7. What is not modelled
8. The plan

## 1. The system

The repository holds two generations of the program.  The first (`src/*.rs`)
is one process with a REPL and an HTTP server in front of an in-memory engine.
The second (`ferricula_v2/crates`) splits that engine into crates and adds the
server in which the agent now lives, a search tool and the semantic services.
`arena/` is a Python program in which two personas talk to the engine.

### Components, their state and their operations

| Component | Source | State | Operations |
|---|---|---|---|
| Autonomy machine | `ferricula-server/src/autonomy.rs` | phase, work lease, quiet window, budget flag, lease counter | `apply` of 13 triggers, `note_chat`, `record_step`, `set_budget_pressure`, `recover` |
| Steve runtime | `ferricula-server/src/runtime.rs` | `runtime-state.json`: mode, machine, task list, pen of deferred mentions, schedule, cooldowns, ledger; a `Notify` | `enqueue`, `set_mode`, `set_schedule`, `run_worker`, `run_scheduler`, `open` |
| Sleep cycle | `sleep_cycle.rs` | cooldown ledger | `plan_cycle_gated`, `note_run` |
| HTTP API, MCP | `api.rs`, `mcp.rs`, `main.rs` | none | turn requests into calls of the runtime |
| Mention ingestion | `mention_ingest.rs`, `nutnews_events.rs` | cursor, dedupe ring, considerations | `apply_batch`, `mark_enqueued`, `take_pending_for_enqueue`, `force_cursor` |
| Chat | `chat.rs` | list of turns, one admission permit | `converse`, `open` |
| Model router | `model.rs`, `model_config.rs`, `model_transport.rs` | usage ledger | `select`, `complete_with_budget` |
| Episode overlay | `ferricula-episode/src/overlay.rs` | append-only chain of events | `append`, `projection`, `verify`, `save`, `load` |
| Episode adapter | `adapter.rs`, `projection.rs`, `causal.rs` | a log, and its fold: observations, hypotheses, links, unresolved episodes | `commit` of five kinds of item, `open` |
| Episode queries | `query.rs` | none | seeds, hops, exclusions, budgets |
| Durable engine | `ferricula-core/src/persist.rs` | rows, records, graph, terms; snapshot and write-ahead log | `upsert`, `delete`, `remember`, `update_record`, `remove_memory`, `connect`, `checkpoint`, `open` |
| Graph, records, tree | `ferricula-core/src/{graph,memory,prime_tree,skg}.rs` | adjacency, life cycle, terms | `connect`, `remove_node`, `forgive`, `archive` |
| Dream and clock | `ferricula-cognition/src/{dream,clock}.rs` | none; entropy reservoir | `dream_cycle`, the polling thread |
| Nightly cycle, drift, curator | `bhavana.rs`, `sati.rs`, `curator.rs`, `karmic.rs`, `outcome.rs` | clusters, release proposals, drift counters | run once per cycle or per recall |
| Affect, advocate, council | `emotion.rs`, `advocate.rs`, `wisdom.rs`, ... | scores; none shared | pure planning |
| Search | `ferricula-search` | index and state file, section ledger | index runs, search, stream, answer, agents, tool server, crawler |
| Semantic services | `ferricula-semantic` | none | chunker, encryption, embedding clients |
| Gates | `ferricula-gates` | none | ask a service, parse, or abstain |
| First generation | `src/*.rs` | the durable engine, owned by one thread | a loop that drains the clock's and the HTTP server's channels |
| Arena | `arena/steve.py` and its pages | loops, chats, spend, heat, dreams | Flask handlers and daemon threads over module globals |

### How they interact

* `run_worker` and `run_scheduler` are two spawned tasks.  They and the HTTP
  handlers share one `DurableRuntimeState` behind a mutex.  No await happens
  while the mutex is held, so a holding of the mutex is one atomic step, and
  everything between two holdings is a chance for the others.
* Every holding that changes the state ends in `persist_locked`, which writes
  the whole state to a temporary file and renames it.  The write may fail;
  some callers pass the error on, others drop it (`let _ =`).
* `enqueue` wakes the worker with `notify_one`, which keeps a permit for a
  worker that is not waiting yet.  `set_mode` uses `notify_waiters`, which does
  not.
* The worker recovers the machine's snapshot before every use
  (`recover_autonomy`), so an expired lease never outlives its next use.
* The scheduler ticks every 60 s.  A tick may enqueue a scheduled wake, and
  then retries at most one mention of the pen.
* Mentions and scheduled wakes drive the machine when they are enqueued;
  `process_input` drives it when the worker starts a gated task, `queue_empty`
  when it has finished the last one.
* Model calls run on other threads without the mutex; worker and chat spend
  from one usage ledger, which is read before a call and written after it.
* Ingestion turns pages of the event ledger into considerations and hands one
  at a time to the runtime, marking it in a step of its own.
* The episode adapter keeps an `OverlayLog` of its own in which every item is
  the text of an ungated proposal, and publishes log and projection together
  after the save.
* The durable engine's calls change memory first and append to the log
  afterwards; the dream changes memory through `graph_mut` and
  `memory_store_mut` without a log entry.  The first generation's main thread
  is the only one that touches it; clock and HTTP server send it messages.
* Index runs, searches, the tool server and the agents are processes of their
  own that share the index, its state file and the ledger of forgotten
  sections through the file system, without locks.
* The arena's handlers and daemon threads share module globals; a few are
  guarded by locks, most by flags.

### What is hard

Interleavings of worker, scheduler and operator around those holdings;
permission read under the mutex and used after it; the state of one decision
kept twice (mode and phase); crashes between two durable steps; failed and torn
writes; leases, cooldowns and quiet windows that run out at the wrong moment;
bounded queues that drop; approvals that give effect to an old event after
newer ones were checked without it; rules stated twice (append and audit,
validation and fold); a registry or an index kept by patches; pages that repeat
and skip; flags of threads that raise; processes that share files.
`PROJECT.json` lists each hazard at its line.

### What makes each component correct

* Autonomy machine: work is done under a live, bounded lease for the phase the
  machine is in; withdrawn authority never returns; a pause ends only by the
  operator; quiet windows and idle gates hold whatever a caller claims.
* Runtime: no mention is lost, doubled or starved; scheduled wakes keep their
  distance; sleep work keeps its cooldown; mode and machine agree; at most one
  step budget is worked through per waking; queued work resumes after a pause.
* Ingestion: the cursor passes over nothing that was not looked at; a mention is
  considered at most once while its key or its consideration is remembered.
* Chat: one answer per request id, across retries and restarts.
* Router: the day's spend stays under the cap.
* Overlay: the fold of the chain is a legal history of each memory, decisions
  are final, destructive changes wait for the operator; what is accepted can be
  read again.
* Episodes: no verdict without an independent, linked ground; the registry of
  open questions is what reports and hypotheses say.
* Durable engine: what a restart finds is what was acknowledged; the derived
  indexes agree with what they are derived from.
* Night: what leaves the store is logged; a cluster resolves to its members.
* Search: the index describes the corpus; what was forgotten stays out.
* First generation: a recall that was put off is answered; a stop keeps all.
* Arena: a flag says whether its job runs; spend is what the calls cost.

## 2. The modules

Modules of one part (state, actions, properties):

| Module | Models |
|---|---|
| `AutonomyMachine` | the methods of the machine as pure operators |
| `Autonomy` | the machine alone, under any caller |
| `SteveRuntime` | worker, scheduler, operator, machine and file |
| `MentionIngest` | the event source, the client's checks, the ledger of considerations, its file and operator |
| `OverlayLog` | the chain of overlay events and its file |
| `Episodes` | the projection of the episode adapter |
| `EpisodeQuery` | queries over episodes |
| `SleepPlanner` | the planner of sleep work under the runtime: ledger, tasks, their file, a clock that may go back |
| `MemoryGraph` | edges, adjacency and causal predecessors (pure) |
| `DurableEngine` | rows, tag index, term tree, graph, log, snapshot, replay |
| `Store` | what the durable engine promises |
| `DreamCycle` | one dream of the first generation, on the graph (pure) |
| `MindLoop` | the first generation's main loop, front ends, clock and log |
| `ModelRouter`, `ChatSessions` | route and caps; turns, permit, retries (`ChatSessions` composes both) |
| `Bhavana`, `DriftMonitors`, `Affect`, `Curation` | nights, drift, affect, briefings |
| `SearchIndex`, `SearchQueries` | index runs; searches and the ledger of forgotten sections beside them |
| `SearchAgents`, `SearchServer`, `Crawler` | answer and tool loops; the tool's HTTP server; the crawler |
| `Chunker`, `Tagger`, `Retrieval` | texts: boundaries; patterns and tags; bitmaps, lexical search, spelling, fusion, boost |
| `Arena`, `ArenaChat` | the arena's threads; its chats and pages |

Modules for TLC give the constants their values and state workloads:
`MCSteveRuntime`, `MCState`, `MCMentionIngest`, `MCDurableEngine`, `MCMind`,
`MCCognition`, `MCSearch`, `MCAgents` (with `MCTexts`), `MCArena`.  `MCState`,
`MCMind`, `MCCognition`, `MCAgents` and `MCArena` put components that do not
interact into one run: the initial state chooses which of them is busy, the
others rest in their initial states.  The states of the run are therefore those
of the single components, one after the other, and no property speaks of two of
them.

### `AutonomyMachine` and `Autonomy`

One operator per method of `AutonomyMachine`, on the snapshot as a record:
`Recover`, `Apply`, `EnterWork`, `SleepClear`, `ExpireLease`, `NoteChat`,
`RecordStep`, `SetBudget`.  A trigger is a record with its claimed idle seconds
or lease id.  `NoLease`, `NoTime` stand for `None`.  Lease ids saturate at
`MaxLeaseId` as the code's counter saturates at `u64::MAX`.  In `Autonomy` each
trigger, chat, step, budget reading, restart and second is an action, in any
order; what holds here holds for every integrator, the runtime among them.
History variables: `outcome` (the last `TransitionOutcome`), `ended` (ids of
leases that are over).

### `SteveRuntime`

`rt` is `DurableRuntimeState`, `saved` the file.  Each action is one holding of
the mutex or one suspension:

| Action | Code |
|---|---|
| `PostMention`, `PostTask` | `enqueue` from the API |
| `SetMode`, `SetSchedule` | `set_mode`, `set_schedule` |
| `Tick`, `EnqueueWake`, `MarkWake` | the schedule half of a scheduler tick: decide, enqueue, mark |
| `Retry`, `Requeue` | the other half: take a deferred mention out of the pen, enqueue it again |
| `ClaimNext`, `ClaimNothing`, `Park` | `claim_next` with and without a task, then `notified().await` |
| `PreExecute` | `pre_execute_hooks`: `Skip` without a live lease, `Proceed` with one |
| `Decide`, `BeginCall`, `CallReturns` | the model gate, the call, its end |
| `Finish` | `finish`, with `queue_empty` when nothing is left |
| `Second`, `LedgerMoves`, `Restart` | time, the day's spend, `open` |

A finished task leaves the list at once (the code keeps finished tasks as
history and never looks at their payload again).  A task has a kind, a mention,
an expiry and a status.  `wake` stands for the scheduled and the operator's
wake, `read` for feed and Hacker News reads (no lease, no model), and the sleep
kinds for the proposals of the sleep cycle.  What a run posts and how many
writes and processes fail in it is one of the `Workloads`, chosen in the initial
state; failed writes and restarts may come at every step that writes.  Instants
are relative to the present, so that the passing of time is a change of the
state and the model stays finite without a clock.

### `MentionIngest`

The event source holds a fixed ledger and answers a request with any of
`Responses`, honest or not (skipping, repeating, out of order, from an expired
cursor, with a gap, in a broken envelope), or with the page it should
(`PollHonest`).  `Poll(r)` is `NutNewsClient::poll` followed by
`apply_batch`: `Accepted` says what the client takes, `ValidEventPage` and
`SuggestedCursor` what it checks and advises.  `Deliver(b)` is `apply_batch` on a
batch of another origin, fetched before a restart or a rewind.  In `AfterBatch`,
`Turn` looks at one event and admits it, skips it
or ends the loop, `Loop` runs over the batch, `Settled` moves the cursor.
`TakePending`, `MarkEnqueued(s)`, `Save`, the operator's `ForceCursor(n)` and
`ForceCursorRewind(n)`, and `Restart` are the remaining calls.  `state` is what
is in memory, `disk` the file, `handed` what was handed over, by event.

### `OverlayLog` and `Episodes`

`events` is the chain in memory, `disk` the file.  An event's place in the
sequence stands for its id, hash and parent.  `AppendEvent` is `append` with
`validate_payload` (`TouchAllowed`, `TransitionAllowed`, `EdgeAllowed`,
`DreamAllowed`, `ApprovalAllowed` are its arms), `Save` is `save`.  An event has
effect if it needs no approval or has one (`Effective`); the code computes the
life cycle of a memory, the state of an edge and the tombstones by walking the
chain, the model says with quantifiers which event is the last that counts.
Left out, because they accept or refuse a request on its own: lengths and
alphabets of texts and tags, ranges of scores, the checks of paths, and hashes.

`Episodes` keeps the five maps of `EpisodeProjection` that decide anything:
observations, goals, hypotheses, links and unresolved episodes.  One action per
kind of item; a status transition is three (`Support`, `Disconfirm`,
`Supersede`).  Of a relation only whether it authorizes evidence is kept.

### `Store`, `MemoryGraph` and `DurableEngine`

`DurableEngine` keeps memory (rows with their tag index, records, graph, term tree),
the snapshot and the write-ahead log.  `Call(c)` is one of the writing calls: memory
first (`Applied`), then the append, which may be refused, torn or go through, and at
`RotateAt` entries the checkpoint.  A checkpoint may fail, and then the log goes on
growing beyond `RotateAt`; how far is a bound of the caller (`maxWal`), not of the
engine.  A call and its log entry are the same record.  `Checkpoint` replaces the
snapshot and then empties the log; a crash may come between the two, in memory's
order or the other (`HalfCheckpoint` of `Store`).  `Dream` changes records behind
the log's back. `Open` replays.  A log that ends inside the length of an entry is
read up to it; one that ends inside a payload, or to which something was appended
after a cut append, cannot be read: open fails (`OpenFails`) and the engine is
`refused` from then on, as nothing in the code repairs a log.  `MemoryGraph` holds
what `connect`, `disconnect` and `remove_node` do to edges and adjacency, as pure
operators.  The term tree splits and merges its nodes as `prime_tree.rs` does, with
the primes of a small instance.

`Store` is the abstract specification: a register for each row, record, edge and
term, a live and a durable value of each, the set `acked` of registers whose last
write was acknowledged, the state of the log (whole, frayed, broken), and whether
the store is up, down or refused.  Its promise: a restart gives back what was
acknowledged or is refused, and it is refused only when an append since the last
checkpoint was cut short.
`DurableEngine` implements it (`KeepsItsPromise`, by `INSTANCE Store WITH`).

### `DreamCycle` and `MindLoop`

`MindLoop` is the process of the first generation: the main thread with its two
channels, the clock's thread, the HTTP thread with its timeout of ten seconds, the
planner threads of deferred recalls, the REPL, signals, crashes and starts, over a
log that is rotated.  A round of the main loop is `DreamOfTheClock`, `ClockDrained`,
`Serve`, `Defer`, `CommandsDrained`, `Finished`.  `DreamCycle` is what one dream
does to the memories, as pure operators.  Fidelity is a level (the gate is never
skipped, as a tick takes two per cent at most), staleness has three levels.  A
`remember` of an existing id whose vector does not fit is refused by the engine and
still replaces the text of the search engine; those ids are in `misled`.  Recalls
that have their answers are taken from the list by `swap_remove`, from the last
index to the first.  Commands are atomic with respect to crashes; torn writes are in
`DurableEngine`.

### `ModelRouter` and `ChatSessions`

A thread that calls a model is at one of the points of `complete_with_budget`:
it selects a profile, reads the ledger, asks, records and writes the file, each
an action of its own, because no lock is held over them.  `ChatSessions` adds
the requests with their ids, the handlers over HTTP (which run to their end) and
over MCP (which are dropped with the connection), the permit, the turns in
memory and in the file, and restarts.  The thread `chat` of the router is the
blocking task that holds the permit; the other threads are the worker's.

### `Bhavana`, `DriftMonitors`, `Affect`, `Curation`

`Bhavana` is one night: decay, proposals, consolidation group by group, the
discovery of edges, the promotion of an anchor; and between nights the owner's
decisions.  Each entry of the karmic log may be refused, which ends the night where
it is; its proposals are lost with the report that is not returned.  `DriftMonitors`
has the monitor of the service and the one of the research harness side by side
under overlapping recalls, and the rings in which a dream keeps the similarities of
terms.  `Affect` has the eight scores in thousandths, the label they resolve to and
the demand for a model under the budget.  `Curation` follows a briefing through
selection, prompt and answer, while the request and the selection, which are public,
may be edited.

### `SearchIndex` and `SearchQueries`

`SearchIndex` is `lume index` file by file: scan, chunk, session of the semantic
store, flush, extraction by workers with one collector, the state file at three
points; every write may be cut off by a crash.  A file has its time in whole
seconds: an edit may fall into the second of the last one, and then nothing shows
it (`hidden`).  `SearchQueries` adds the
processes that read those files without locks: `search` (ledger, session, store,
blend), `stream` and `answer` (`RetrieveUnion`), and `section` with its ledger.
There is one query, which every section matches: what the ledger lets through is
all that is left to decide.

### `SearchAgents`, `SearchServer`, `Crawler`, `EpisodeQuery`, `SleepPlanner`

`SearchAgents` has the answer loop (plans, union, field of nodes, refinement,
citations) and the tool loop of the agents.  `SearchServer` has the accept loop,
the limit on connections and a thread for each.  `Crawler` saves pages under
slugs and cleans HTML token by token.  `EpisodeQuery` has seeds, hops and the
sample of unresolved episodes with their budgets.  `SleepPlanner` has the planner
under any policy that validation lets through, and its caller in `runtime.rs`: what
is planned becomes a task, a claim notes the ledger, both are in one file whose
writes may fail, a restart reads that file, and the clock may go back.  History:
when each kind really started (`ran`), and whose last start a restart did not find
(`forgotten`).

### `Chunker`, `Tagger`, `Retrieval`

The algorithms on text, written as operators and checked against a definition of
what they should compute (`MCTexts`): the chunker's boundaries; patterns (parser,
NFA, longest match), tokenizers, dictionary and overlapping tags; bitmaps, prime
filters, Markdown sections, lexical search, spelling, glossary, fusion, entity
graph, boost and gate.  Characters stand for the classes the code tells apart,
offsets count characters, and scores are numerators over one denominator.

### `Arena` and `ArenaChat`

The arena's loops (think, advocate) as threads between a start, a stop and a raise;
the pollers, threads that the think loop sends for mail: each fetches the newest
messages, takes some of the new ones, marks one, remembers it or fails, and goes on
to the next, beside other pollers, replies and deletions; the model calls of its
jobs with heat, back-off, spend and the image renderer; the chat with its nonces,
log and summary; the pages of the live feed. Every access to a shared module global
outside a lock is a step of its own; what a call costs is added to the session and
to the log of the hour in two steps.

### The proof modules

| Module | Extends | Proves about |
|---|---|---|
| `RuntimeProofs` | `Autonomy`, `SteveRuntime` | the machine's operators, the machine under any caller; worker, scheduler, queue, pen, file |
| `IngestProofs` | `MentionIngest` | cursor, ring, considerations |
| `MemoryProofs` | `OverlayLog`, `Episodes`, `MindLoop` (with `DreamCycle`, `MemoryGraph`) | the overlay's chain; the projection; the first generation's loop |
| `Store` | | the abstract store (its proofs follow its definitions) |
| `DurableProofs` | `DurableEngine` | the engine's views, and that it implements `Store` |
| `ServicesProofs` | `ChatSessions` (with `ModelRouter`), `SearchQueries` (with `SearchIndex`) | spend, permit and turns; index runs, forgotten sections |
| `ArenaProofs` | `Arena`, `ArenaChat` | threads, calls and money; chat and pages |
| `CognitionProofs` | `MCCognition` (night, drift, rings, affect, curation) | each part, and their composition |

## 3. The runs

| Run | Module, configuration | Distinct states | Question |
|---|---|---|---|
| `runtime` | `MCSteveRuntime` | 432 thousand | do worker, scheduler and operator keep every mention, their distance, the budget, and mode and machine in step? |
| `runtime_settles` | `MCSteveRuntime`, `MCSteveSettles.cfg` | 42 thousand | is every mention settled in the end? |
| `runtime_stall` | `MCSteveRuntime`, `MCSteveStall.cfg` | (finding) | does queued work resume after a pause? |
| `state` | `MCState` | 406 thousand | do machine, overlay and episodes keep legal histories? |
| `ingest` | `MCMentionIngest` | 89 thousand | is no mention passed over, lost or considered twice? |
| `store` | `MCDurableEngine` | 356 thousand | does the engine keep what it acknowledged, and its views in agreement? |
| `mind` | `MCMind` | 335 thousand | is nothing dropped by the first generation's loop; do chat and router stay within the cap, and ask once? |
| `cognition` | `MCCognition` | 128 thousand | is a night logged, drift bounded, the mood justified, a briefing eligible? |
| `search` | `MCSearch` | 439 thousand | does the index follow the corpus, and a search the ledger? |
| `search_forgotten` | `MCSearch`, `MCSearchForgotten.cfg` | (finding) | does forgotten text stay out of streams and answers? |
| `agents` | `MCAgents` | 591 thousand | do the programs around index and log lose nothing, and do the text algorithms meet their definitions? |
| `arena` | `MCArena` | 170 thousand | do flags and spend say what is true; is the chat orderly? |

Each property of a passing run has a mutant in `PROJECT.json`: a plausible bug
in one mapped definition under which TLC finds the property violated.  A property
of a run is often a conjunction of several, stated one by one in the module of
the component:

| Property | Its parts |
|---|---|
| `AuthorityIsBounded` | `AutonomyTypeOK`, `AuthorityMatchesPhase`, `LeaseIsBounded`, `RevokedStaysRevoked` |
| `GatesHold` | `PauseIsSticky`, `QuietDefersAutonomousWakes`, `IdleClaimsAreClamped` |
| `HistoriesJoinUp` | `OverlayTypeOK`, `LifecycleIsAPath`, `TombstonesAreTheDead`, `EdgeActionsAlternate` |
| `MentionsAreKeptOnce` | `ConsideredIsKept`, `OneConsiderationPerEvent`, `HandedOnce` |
| `PagesAreTaken` | `AcceptedPageAdvances` |
| `IngestGoesOn` | `CatchesUp`, `PendingIsNeverDisplaced` |
| `ViewsAgree` | `IndexMatchesRows`, `EveryEdgeIsVisible`, `RecoveryIsNeverRejected` |
| `NothingIsDropped` | `LoopTypeOK`, `NothingFadesAway`, `NoRecallIsDropped`, `StopKeepsAll`, `SearchIsCurrent`, `DreamsArePaidFor` |
| `LedgerIsBounded` | `RouterTypeOK`, `DayIsBounded`, `UnreportedStops`, `UsageIsKept` |
| `MindGoesOn` | `AbsorbedHasASurvivor`, `LoopKeepsUp`, `TurnsAreFinal`, `PendingEnds` |
| `NightIsLogged` | `NightTypeOK`, `ReleasesAreLogged`, `DepthIsLogged`, `MembershipResolves` |
| `MeasuresAreTrue` | `SatiTypeOK`, `ChainIsBounded`, `HarnessAgrees`, `RingHoldsTheLatest`, `RateIsOfTheLastTwo`, `AffectTypeOK`, `LabelIsJustified`, `DemandFitsTheBudget` |
| `BriefingIsEligible` | `OnlyEligibleTextIsSent`, `BriefingIsOfItsRequest`, `TheBestAreChosen` |
| `CognitionGoesOn` | `DampedByAStreak`, `DriftEnds`, `AnchorsStayApart`, `LinksSurvive`, `FadedIsProposed` |
| `IndexIsTrue` | `SearchTypeOK`, `RecordsAreTrue`, `IndexIsTheCorpus`, `NothingTwice`, `ResultsLandRight` |
| `FlagsAndSpendAreTrue` | `LoopsTypeOK`, `AdvocateFlagIsTrue`, `CallsTypeOK`, `SpendIsAccounted`, `RendererIsReleased`, `ListedLocalStaysLocal` |
| `ChatIsOrderly` | `ChatTypeOK`, `NonceIsSpent`, `SummaryIsCurrent`, `PagesAgree` |
| `ArenaGoesOn` | `EveryJobEnds`, `StopIsHeard`, `MailIsHeard`, `DreamsComeAgain` |
| `AgentsGoOn` | `RefinementsAreNew`, `NobodyIsKeptWaiting`, `CooldownsHold` |
| `NothingIsLostOnTheWay`, `TextsAreRead` | see `MCAgents` and `MCTexts` |

### Bounds, and why they are enough

* `runtime`: five workloads, each with the operator's modes, settings, posts and
  failures it needs: a day of the schedule with two mentions; a burst of three
  mentions against a budget of two steps on an exhausted day; reads and
  deliberation; the schedule with its switch; the schedule and sleep work with
  one failed write and one crash at any step.  One mention can wait in each place
  (queue, worker, pen, scheduler) while another passes it; a pen of one
  overflows.  Spacing and lease are one unit so that both end within a run;
  mentions are symmetric.
* `runtime_settles`: two mentions under a schedule and an operator who engages
  while leases of two steps, quiet windows and the machine's own sleep defer
  them; no symmetry.
* `state`: leases of two steps and two seconds against a clock of three seconds
  and three ids let a lease be retained, used up, expire, be replaced, and the
  counter saturate; idle thresholds and quiet window can be crossed and missed.
  Four overlay events are enough for a gated event, one recorded while it waits,
  its approval and a fourth that depends on the outcome, or for two gated events
  and both approvals.  Two observations (the one explained, the one that is
  evidence), two hypotheses on one or both, one goal, one authorizing link in any
  direction.  Reports and hypotheses are symmetric (the run checks no
  liveness).
* `ingest`: one ledger of three events (a mention of one actor, a title of
  another, a reply of the first), a ring of one, two considerations, one pending
  per actor, batches of two, one crash, one forced cursor: ring and queue
  overflow, a batch is cut, a page falls on either side of each event.
* `store`: a log that is rotated at two entries and may grow to three while
  checkpoints fail (with one caller; the others stop before they would log beyond
  the limit), four callers each with the calls
  of one view (rows of two lengths, records, the edges of a pair, a term with
  enough members to split its root), one dream.
* `mind`: for the loop, six days (three commands with ageing; recalls that time
  out and a planner that panics; writes with a crash; signals with log entries
  that fail; the clock's dreams; the REPL), at most four memories, a rotation at
  three entries.  For chat and router, five sessions (retries and a restart;
  a dropped connection and a failed write; the curator beside the worker; the
  worker's failing writes; midnight).  The cap of a step (9) is above what a step
  can cost, so that the day's cap (3) is the one that binds; an estimate of 1
  against an actual cost of 2 makes the overrun visible.
* `cognition`: four memories with one group that grows, a pair in the band of
  discovered edges, an anchor, one refusal, one reload with another map order;
  two recalls at a time, streaks of two, a window of three; three stimuli; six
  dreams over rings of three; all pairs of nine candidates and triples of gated
  ones, one edit.
* `search`: two files (one split in two parts) with three contents, two workers,
  nine jobs, each with the faults, crashes, edits and commands of one question.
* `agents`: documents of a few words, queries in two cases, three clients and a
  limit of two, two crawls, three observations; a planner with three ticks, two
  setbacks of the clock and two failed writes or restarts; every input up to a small length
  for each text algorithm.
* `arena`: ten days in three groups (loops; calls; chat and feed), two threads
  each; at most three messages, of which a check fetches two and remembers one, with
  two pollers, so that one can be pushed out of what is fetched.

## 4. Time and fairness

In `SteveRuntime`, `Second` passes one unit of time.  Without `prompt` it may
pass at any moment, which makes worker and scheduler arbitrarily slow.  With it
the unit is the 60 s of the scheduler's interval: the scheduler ticks once per
unit, the worker's own steps take none, and time passes while the worker waits or
a model is called.  A feed read (20 s and 30 s) is well within a lease (120 s by
default), a model call (90 to 120 s) is not.  `FairSpec` adds weak fairness of
the worker and of the scheduler: both are tasks of the executor that are polled
again and again, and a call returns because the transport has a timeout.  It adds
strong fairness of `Second`: time passes even if the operator's calls keep waking
the worker.

* Ingestion: the client polls again and again and the source answers honestly
  from time to time (weak fairness of `PollHonest`); nothing is assumed of other
  answers.
* Main loop: each source of the main thread is drained again and again, and a
  planner thread ends (it may panic).
* Chat and router: a handler and a blocking task go on, a provider answers or
  fails, as its transport has a timeout.
* Cognition: a night that was called runs to its end, as it is one call; recalls
  end.  That a night is called, or that the scores are decayed, is not assumed:
  nothing in the repository does either on a clock.
* Search: an index run goes on; it may crash.
* Tool server: a connection that can be served is; a client may stay for ever.
* Arena: threads go on, pollers among them; a loop that sleeps wakes (strong
  fairness, as requests may disturb it); mail becomes due.

Nothing is assumed anywhere of operators, failures, crashes or restarts.  No
symmetry is used where a liveness property is checked.

## 5. What is proved

Every theorem is about the specification of one component with its constants
left open; the assumptions are those the modules state about their constants
(the `ASSUME`s, which TLC evaluates in each run), and where a theorem has a
hypothesis of its own it is named below.  `PROJECT.json` lists the theorems and
the properties of the runs they state.

**The machine** (`RuntimeProofs`).  `AuthorityIsBounded` and
`GatesHold` with all their parts.  They rest on one inductive invariant, `IInv`.
`RevokedStaysRevoked` alone is not inductive: it needs that ended ids lie below
the counter, that the id in force does not, and that the counter never goes back
(`EndedIdsPassed`), and those need that the machine is well formed between steps
(`Sound`: typed, lease and phase agreeing, lease bounded).  There is one lemma
per operator of `AutonomyMachine` (`RecoverSound`, `ApplySound`, ...): it maps a
sound machine to a sound one and keeps the lease's id or takes a fresh one.
`MoveKeepsIds` turns that into the invariant for any action, `NextIInv` goes
through the actions.  The three action properties follow by cases on the trigger.

**The runtime** (`RuntimeProofs`).

* `RuntimeInv` (in memory and in the file the record is typed, the pen bounded, a
  running task is the worker's, each phase of worker and scheduler has what it
  needs) is inductive through crashes and failed writes, for every workload.
* `ModeAndMachineStayAgreed`, for every initial mode but paused (see section 6): the
  agreement is inductive in memory and in the file together.
* `SleepWorkKeepsCool`: no sleep work starts within its cooldown of the last time
  that work of its kind really started (`ran`, a history variable).  The invariant
  says that sleep work that is queued is of a kind that the runtime's ledger takes
  for cool, and in the list at most once; and that the ledger is `ran`, for every
  kind but those of `forgotten`: a start whose write failed is not in the file, and
  a restart then has neither the start nor the note.  For these the claim is false,
  and section 6 has the trace.
* `WakesStaySpaced`: `SpacingInv` adds that the mark of the last wake is no younger
  than the wake was, except between the wake and its mark; the property itself
  speaks of runs without crashes and failed writes.
* `BurstStaysWithinOneBudget`: `BurstInv` says that the lease in memory accounts for
  the mentions considered since the last sleep, and the lease in the file for no
  more than was done; without failed writes the two are the same.  Hypothesis: no
  workload has mentions, crashes and failed writes at once, as a crash forgets a
  consideration whose write failed.
* `MentionsStayConserved`: `ConservedInv` places each mention in exactly one of
  queue, worker, pen, scheduler, settled.  Hypothesis: a workload that has mentions
  has neither crashes nor failed writes (section 6 has the losses).

**Ingestion** (`IngestProofs`).  `IngestInv` says of the state in memory and of
the one on disk that each is `Good` (typed, within its bounds, thorough: every
event behind the cursor was looked at or left to the operator; nothing admitted
is lost, nothing waits twice); that unless an operator rewound, ring and queue hold
only what is behind the cursor (`Behind`); and that without restart or rewind what
was handed over waits no more (`Done`).  The loop of `apply_batch` is a
recursive function over the batch; its lemmas are proved by induction over the
interval of its steps.  `PagesStayTaken` follows from what one turn of the loop
does to a page the client accepted.

**Overlay and episodes** (`MemoryProofs`).  The properties of the overlay speak
of the events that have effect, and an approval changes that set in the middle of
the chain, so none is inductive.  The invariant `Sound` speaks of the events that
are *standing*: in effect or waiting for a decision.  A waiting transition is
always the last standing one of its memory, a waiting removal the last standing
one of its edge, or the first of an edge that has only been added since: so the
path holds whether it is approved or rejected.  `Appended` relates a chain to its
extension, `Decisions` says which events an approval settles, `LeftAlone` that
other memories and edges keep their standing events, `Joined` that an event whose
`from` matches extends a path; `LifecycleStep`, `EdgeStep` and `UsesStep` carry
the parts over an append, `SoundStep` collects them, `Inv` adds that the file
holds a beginning of the chain.  For the episodes: grounds only grow
(`NothingIsWithdrawn`, `IndependentKept`), and a commit that leaves an episode's
hypotheses alone leaves it as it was (`OtherEpisodes`); the one it touches is
recomputed from all of them.

**Store and engine** (`Store`, `DurableProofs`).  In the abstract store
`AckedIsDurable` is inductive, because a call writes the same value whatever its
registers held (`SameEffect`).  The engine implements the store: `EInv` says
that memory is in order (typed; tag index, adjacency and tree agree with what they
are derived from), that the snapshot is what such a memory saves, that the log is
a sequence of entries, of any length, as checkpoints may fail, and that the vectors
of both have the length memory knows (`Measured`), so that no replay of a log that
can be read is refused.  That replaying a
log over its snapshot gives the acknowledged registers is not in the invariant but
in the mapping: an entry writes the same value to its registers whatever they
held, and leaves the others alone, so replay can be followed register by register
(`Run`, by induction over the log), also over a snapshot that holds some of it
already.  Each call maps to `Write`,
`Unacknowledged` or `Slip`, a rotation to `Checkpoint` or `HalfCheckpoint`.
`AcknowledgedComesBack` is then the store's theorem: a restart gives back what was
acknowledged, or is refused; and it is refused only when an append since the last
checkpoint was cut short where the log cannot be read any more
(`RefusedIsBroken`).  What the engine does with such a log is to fail, so what was
acknowledged before is out of reach, and the theorem says so.

**Chat and router** (`ServicesProofs`).  `RouterInv`: the file is a beginning of
the ledger; each call under way is at a point that fits what it has selected and
what it was told; room is left under the cap, plus one call of each thread, for
the calls that passed the check and have not recorded (`Afford`); a profile that
answered without usage is asked only by threads that had selected it before
(`Hushed`).  A route goes on to its next step when one fails, and every route ends
in the step without a model, which is recorded like a call (`model_config.rs:518`).
`ChatInv`: the turns in memory are those of the file; the permit is
held by one request, from its candidates to the end of its task, whether its
handler lives or not; an outcome is for a handler that still waits; a request that
was asked has its turn, and the one whose task has not come to its reply was not
asked.  Both are
inductive for every route, budget, and any finite number of threads and handlers.

**Arena** (`ArenaProofs`).  `LoopsInv` types the threads of a loop and carries the
flag of the advocate; `CallsInv` says, call by call (`CallerOK`), what a caller
holds at its place, so that the sums of money are those of the calls and the
renderer's flag is up exactly while a job draws; the back-off of a model is
justified by its failures.  `ChatInv`: the log and each page's copy of it
(`LogInv`, `FeedInv`); a nonce is processed once per time the nonces were
forgotten, and once more while it is known (`DedupInv`); a request that holds a
summary has the one of what its prompt leaves out, with one request at a time
(`RequestsInv`).

**Cognition** (`CognitionProofs`).  Each part keeps an invariant of its own, and
`CognitionStaysTrue` is about their composition.  `NightInv`: what is unlogged,
deeper than the log says, or a member of a cluster that does not exist, is no more
than the entries the sink refused (`Unlogged`, `Dangling`); a superseded cluster
takes the names of all its members with it.  `CurationInv`: a prompt holds what the
selection holds, unless both were edited after; that the first k of the ranking are
what no other candidate is ahead of needs ranks as a bijection of a finite strict
order (`RanksFollowTheOrder`).  `SatiInv`: a recall under way may lengthen the chain
after it was admitted, by one for each of them; the two monitors differ at most in a
chain that the recall under way ends; the streak is the length of the last run of
skewed recalls in `recent`.  `TermInv`: the k-th entry before the head of a ring is the
k-th observation before the last, in a full ring as in one that is filling.
`AffectInv`: the label is one that the scores justify.

**First generation** (`MemoryProofs`).  `LoopInv` has three parts.  `MemoryIsKept`:
what was told is in memory, filed in snapshot and log together, and the search
engine has its text, but for the ids a refused `remember` misled it about; and what
a start makes of the files is what was filed.  `RequestsAreApart`: the requests of
the channel and the recalls that were put off have different ids, and answers are
owed to exactly the recalls that wait.  `Clockwork`: what dreams have cost and what
the reservoir holds is no more than what was received.  A dream folds over sets of
memories whose order is arbitrary; such a fold is followed through functions on the
subsets of its index set (`SetInduction`, `FoldExists`).  `LoopDropsNothing` is the
invariant of the run; `AbsorbedIsSurvived`, that a dream which absorbs a memory
leaves a survivor, rests on the same lemmas.

**Search** (`ServicesProofs`).  `SearchAssumption` says that a section of a file is
known by its title and line, as the chunker starts each at a line of its own.
`IndexInv` speaks of the corpus, the run and the files of the index together:
the files a run has cached are cut from a content they had, and know only facts
of their own sections (`FilesOK`); what was known of a section when the run began
is known of it as long as it is cached (`HadOK`); a task is with one worker or in
one result, once (`HandsOK`), and points at a section that is there (`TasksOK`);
the searchable index is that of the run's files while it is written, and of the
state file after a run that ended well (`DbOK`).  An edit moves a file's
time on or keeps it (`CorpusMoves`); in the second case nothing shows the edit, and
the file is excepted until the next one that shows (`hidden`).  `RecordsOK` adds that the
record of a session is of one the store gave out.  `IndexStaysTrue` has no
hypothesis.  `ForgottenStaysAway` has two, and needs both: one operator at a time
(commands read the ledger, change it and write it whole, so one of two may be
lost), and a write that may die is the only one (`save_at` does not replace the
file in one step, and what it leaves is read as an empty ledger).  `EditInv` and
`ToldInv` then say that the ledger holds what operators were told; each search
filters with a ledger it reads after its hits were found.

Out of the proof system's reach: liveness and `ENABLED`; the induction theorems
of the library, whose parameter is an operator (a form for sets is proved where
it is needed: `SetInduction`, `IntervalInduction`); what a recursive operator
computes for every input (`Retrieval`, `Tagger`).

Only model-checked: `NothingIsLostOnTheWay` and `TextsAreRead` (agents
and texts: their modules use recursive operators), and every liveness property.

## 6. Where code and documents disagree

Two runs show a disagreement with a comment or a document, quoted under
"findings" in `PROJECT.json`: `runtime_stall` and `search_forgotten`.  Met while
modelling, and not given a run:

Server

* Sleep work can start twice within its cooldown.  `claim_next` ignores a write
  that fails (`runtime.rs:988`), and a restart then finds the task queued and the
  old ledger.  `sleep_cycle.rs` calls its ledger "Restart-safe".
* `NUTS_EVENT_CONTRACT.md` (3.3, 7, 13.3) and a comment at `mention_ingest.rs:642`
  say that a gap stops ingestion until a reconcile.  The code resumes by itself as
  soon as a page is contiguous again, and so does the model.
* The tool `steve_chat` of MCP mints a request id for each call (`mcp.rs:405`), so a
  retry through it is a new turn, and is asked and paid for again.
* A crash between taking a consideration and saving the ingest state hands it over
  twice or never (`mention_ingest.rs:873`).
* A task that was running at a crash stays `running` for ever: `open` restores it
  and `claim_queued_task` takes queued tasks only (`runtime.rs:521`).  It keeps
  `finish` from applying `queue_empty` and its sleep kind from being planned.
* A restart between `EnqueueWake` and `MarkWake` lets a second wake be enqueued at
  once; `docs/STEVE_RUNTIME.md` says that restarts cannot bunch the schedule.
* A wake that was skipped and is owed is overwritten by the next mark
  (`runtime.rs:938`).
* The last step of a lease deliberates nothing: the model gate takes it
  (`runtime.rs:1438`), so a lease of n steps deliberates n - 1 mentions.
* A restart loses a mention that was popped from the pen for its retry
  (`runtime.rs:955`).
* A pause between the model gate and the call is not seen by the call
  (`runtime.rs:1644`).
* A failed write in `enqueue` reports an error though the task is queued
  (`runtime.rs:839`).  A crash forgets a consideration whose write failed, so a
  budget can then be exceeded.
* The bare machine gives a stream of `process_input` one budget after another;
  the comment in `enter_work` says it must consume one.  The runtime's recovery
  before every use prevents it (`BurstWithinOneBudget`).
* `legal_edges` lacks the edge from awake to asleep on `queue_empty`, which the
  machine takes.
* With `initial_mode = "paused"` a first boot has a paused mode on an asleep
  machine.
* After `force_cursor` went back, the cursor does not advance over events whose
  keys the ring still holds (`mention_ingest.rs:716`).
* Errors of a provider after it charged are not recorded; the cap of a reflection
  is computed from a figure read before the call.
* A turn whose connection was dropped over MCP stays pending until a restart
  (`api.rs:97` says the turn ends).
* `SleepPlanner`: with a cap below three, kinds that come early in the order and
  cool down fast keep later ones from ever being planned.

Overlay and episodes

* `recompute_episode_resolution` lists "all proposed hypotheses were disconfirmed"
  among the reasons to stay unresolved; it is one only for an observation that was
  flagged, as a later comment in the same function says.
* A disconfirmed hypothesis can be superseded (`adapter.rs:330`), and two
  hypotheses may supersede each other.
* An approved dream or edge removal may name memories that were pruned while it
  waited.
* `EpisodeQuery`: the combined `hits` are cut to 50 although the arms have
  "independent" budgets.

Engine

* A torn append in the middle of the log makes it unreadable (`persist.rs:501`);
  `site/docs.html:919` promises that a torn tail is dropped.
* `remove_memory` logs only when a row was there.
* `graph.rs:70-72`, "only from sees to", fails after a semantic edge was
  reconnected as a causal one.

First generation

* Pruning cannot be reached: a memory is forgiven, and stops decaying, long before
  its fidelity is small enough.
* `README.md:58` and `clock.rs:1-6` say that time does not flow without the radio;
  ticks use the system's clock.
* Consolidation drops an incoming causal edge of the absorbed memory; a keystone
  of lower fidelity can be absorbed and archived.
* A command that timed out still runs later; a keystone toggle that is retried
  undoes itself.
* An unreadable `identity.json` silently makes a new identity.
* A `remember` over HTTP that fails on an existing id still replaces its text in
  the search index; `SearchIsCurrent` excepts those ids (`misled`).
* Where the adjacency is stale (see `graph.rs` above), consolidation may overwrite
  the causal audit edge to an absorbed memory with a semantic one: the test at
  `dream.rs:391` spares structural edges only.
* With `DREAM_THRESHOLD_BYTES` above a batch a dream costs a batch, not the
  threshold.

Cognition

* Grouping follows the order of a hash map and a similarity that is not
  transitive: after a reload groups may flap, and members deepen again ("Idempotent
  membership" in `bhavana.rs`).
* `apply_release` changes the record before the entry is written: a refused entry
  leaves a release unlogged.  A review is marked before it is logged.
* `forgive` does not look at keystones, and a decision is not tied to a proposal.
* A dream's cue satisfies a pending return although the comment says "task or an
  external input"; overlapping recalls exceed `d_max` by those under way.
* The digest of a request leaves scores and the gate's verdicts out.
* Between 50 and 75 per cent of the budget `Frontier` is dropped and `Deep` stays.
* The runtime never applies decay, so the scores only accumulate.

Search and texts

* `hybrid.rs:579-584`: with a store that returns fewer hits, the semantic leg is
  not complete.  A torn `suppression.json` reads as an empty ledger; concurrent
  `section` commands lose one of two forgets; a torn state file loses the progress
  of the extraction; an empty corpus leaves the old index searchable; edits within
  one second are not seen, until the next one that is (`IndexIsTheCorpus` excepts
  such a file).
* `stream.rs:184-188` skips a node that fails, and the ids of the citations then
  shift (`main.rs` near 2207).
* The chunker's "Enforce size limits" does not split a long sentence; texts of
  three to ten sentences are never split semantically, as the step is zero.
* In the crawler an error in writing after the retry is ignored while "Successfully
  added" is printed; two addresses with one slug overwrite each other; `&#38;lt;`
  is decoded twice.
* In the tool server a request head that fills the buffer without an end panics and
  leaks its place.
* `bm25.rs` near 690 slices a text at a byte offset; `rerank.rs` says that an
  abstention keeps the order, but a judged hit may move ahead; a boosted hit may
  rank above a lexical match although the comment says below.

Arena

* A tool that raises kills the loop's thread and leaves its flag set: later starts
  are refused.  A start during a stop is answered "already running" and lost.
* Two renders clear the busy flag early, and some jobs bypass it.
* The nonces are cleared at their limit together with the present one.
* A mail is marked as seen before it is remembered, and a failure of the remember is
  swallowed (`steve.py:1564-1573`); a mail that is older than the twenty newest when
  the poller looks stays unheard (`steve.py:1620`).  `MailIsHeard` names both as its
  exceptions.
* Mails beyond the fifth of a batch are remembered and not shown to the think loop.
* The cached summary is keyed by a count that stays the same once the log is full.
* A cloud model can be called in local mode (`steve.py:4757-4760`).
* `_dream_log_append` always fails, as `datetime` is the class there.

## 7. What is not modelled

Runtime: emotion and advocate snapshots, the overlay writes after a reflection,
the pruning of finished tasks, the jitter of the spacing of scheduled wakes (a fixed
function of the last wake, so a constant suffices), the provider ledger (one boolean that the
world moves; `ModelRouter` has the ledger), de-duplication by proposal id (the
cooldown and the live-kind test already exclude it), clock steps backwards (which
`Autonomy` and `SleepPlanner` have).  Of `sleep_cycle.rs`, `next_cycle_at`,
`cycle_is_due`, the merge of ledgers and their repair: only its tests call them.
Mention retries read the clock once per tick; in the model the quiet window cannot
end between the two reads of one tick.

Ingestion: HTTP and the parsing of events.  Chat and router: texts, candidates,
transport.  Engine: distances, payloads, the older layouts that `load` converts.
First generation: decay rates, halo, neglect, the term ring, emotion, SQL,
casting, the inbox.  Cognition: rates and centroids, casting, identity, prose, the
tables of advocate, council and vocabulary.  Search: the token that sections
carry, older index sessions, chunk ranges, deep diagnostics, the terminal front
end, exact scores, entity postings.  Agents: the dynamics of the stream.  Semantic
services: encryption, embedding clients, vector arithmetic.  Arena: prompts, tools
without shared state, HTML.

Whole components: the decision gates (HTTP adapters that parse a typed answer or
abstain; `Retrieval` and `Curation` take their answers as inputs); the site, the
tools, the papers and the deployment, which are not the program.

What the properties leave out.  `MentionsAreConserved` and `WakesAreSpaced`
are about workloads without crashes and failed writes; `HandedOnce` is about
behaviours without restarts and rewinds; `MindGoesOn` exempts a turn whose handler
was dropped or whose write failed, which stays pending until a restart.

Six hazards have no property, as what would be stated of them is false in the code
and no document promises it.  The models reach each of them.

* a skipped wake whose re-arming the mark overwrites (`runtime.rs:938`);
* a mention that a restart loses between pen and queue (`runtime.rs:955`);
* tasks that stay `running` after a crash (`runtime.rs:521`);
* the permission to call a model that is read before the call (`runtime.rs:1644`);
* a consideration handed over on one side of a crash and saved on the other
  (`mention_ingest.rs:873`);
* a turn that stays pending when its request is dropped (`chat.rs:219`).

## 8. The plan

Done, in this order: the machine, the runtime, the overlay and the episodes; the
durable engine with its abstract store, ingestion, chat and router; the first
generation's loop, search, cognition, agents, texts and arena; the proofs of
section 5, those of the first generation last.

Left: a composition of ingestion with the runtime (the hand-over and its mark are
two steps), and of the overlay with the episode adapter that keeps its log; a finer
loop of the first generation in which a command can be cut off by a crash.
