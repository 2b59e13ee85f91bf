------------------------------ MODULE SearchIndex ------------------------------
(***************************************************************************)
(* `lume index` (ferricula-search main.rs, hybrid.rs): files are chunked   *)
(* into sections, the sections are embedded in a session of the semantic   *)
(* store, the searchable files are written, and workers extract the        *)
(* entities of the sections while one collector checkpoints state.json.    *)
(*                                                                         *)
(* A section is named by its file, its title and its text (section_hash);  *)
(* its line counts only when entities are carried over.  The process may   *)
(* die between any two steps, and in the middle of a write, which leaves   *)
(* the file it was writing unreadable.                                     *)
(***************************************************************************)
EXTENDS Naturals, FiniteSets, SequencesExt

CONSTANTS
    Files,             \* the paths of the corpus, sorted
    Contents,          \* what a file may hold
    Chunks(_, _),      \* the sections a content of a file is cut into
    IsText(_),         \* whether a content decodes as text
    Size(_),           \* its length
    Workers,           \* threads that extract entities
    LastSession,       \* sessions of the semantic store
    Jobs               \* bounds: edits, runs, faults, crashes, flushes, expiries
                       \* (and those of SearchQueries), whether runs are semantic or
                       \* extract entities, whether the store keeps its sessions

\* A section as it is cut, and what a behaviour allows.
Pieces == [title : STRING, at : Nat, text : STRING]
SearchJobs ==
    [edits : Nat, runs : Nat, faults : Nat, crashes : Nat, flushes : Nat, expiries : Nat,
     searches : Nat, streams : Nat, commands : Nat, slips : Nat,
     semantic : BOOLEAN, entities : BOOLEAN, store_keeps : BOOLEAN]

\* A section starts at a line of its own (parse_markdown, chunk_text_file): no
\* two of a file have their title and their line in common.
ASSUME SearchAssumption ==
    /\ IsFiniteSet(Files) /\ Files # {} /\ \E c \in Contents : IsText(c)
    /\ \A f \in Files, c \in Contents :
          LET cut == Chunks(f, c)
          IN  /\ cut \in Seq(Pieces)
              /\ \A j, k \in DOMAIN cut : cut[j].title = cut[k].title /\ cut[j].at = cut[k].at => j = k
    /\ LastSession \in Nat
    /\ \A j \in Jobs : j \in SearchJobs /\ (j.store_keeps => j.expiries = 0)

VARIABLES
    job,               \* the bounds of this behaviour, counted down
    corpus,            \* file -> its content and its time, for those that exist, and
                       \* whether the time is that of an earlier content too
    clock,             \* the second of the last edit
    db,                \* the index files
    run,               \* the indexing process
    sessions,          \* the semantic store: session -> the sections it holds
    cached,            \* .lume-session-cache.json: {} or a session's record
    torn               \* whether a crash ever spoiled state.json

index_vars == <<corpus, clock, db, run, sessions, cached, torn>>
FileSeq == SetToSeq(Files)

Empty == [x \in {} |-> {}]
NoState == [whole |-> FALSE, cached_files |-> Empty, session |-> {}]
NoIndex == [state |-> NoState, bm25 |-> [whole |-> FALSE, sections |-> <<>>],
            others |-> [spelling |-> FALSE, graph |-> FALSE]]
Idle == [pc |-> "idle", force |-> FALSE, todo |-> <<>>, seen |-> {}, cached_files |-> Empty,
         had |-> {}, session |-> {}, back |-> "idle", tasks |-> <<>>, next |-> 1,
         hands |-> [w \in Workers |-> {}], results |-> <<>>, outcome |-> "none"]

IsDone(sec) == sec.entities # {}
Hash(f, sec) == <<f, sec.title, sec.text>>
Bounded(what) == job[what] > 0 /\ job' = [job EXCEPT ![what] = @ - 1]
MovesTo(pc) == run' = [run EXCEPT !.pc = pc]

\* The sections of all files, in the order of their paths.
AllSections(files) ==
    FlattenSeq([i \in 1..Len(FileSeq) |->
        LET f == FileSeq[i] IN
        IF f \in DOMAIN files
        THEN [k \in DOMAIN files[f].sections |->
                 [hash |-> Hash(f, files[f].sections[k]), title |-> files[f].sections[k].title]]
        ELSE <<>>])
Hashes(sections) == {sections[i].hash : i \in DOMAIN sections}

\* The fingerprint of the corpus: its total size and its newest time.
Fingerprint ==
    <<FoldSet(LAMBDA f, n : n + Size(corpus[f].content), 0, DOMAIN corpus),
      FoldSet(LAMBDA f, n : IF corpus[f].mtime > n THEN corpus[f].mtime ELSE n, 0, DOMAIN corpus)>>

-----------------------------------------------------------------------------
(* The semantic store.  The first ingest into a session creates it.         *)

Store(id, hashes) ==
    sessions' = [s \in DOMAIN sessions \union {id} |->
                    IF s = id THEN hashes \union (IF id \in DOMAIN sessions THEN sessions[id] ELSE {})
                    ELSE sessions[s]]

\* A new session takes all sections; a failure deletes it and the record.
Ingest(hashes, fp, got) ==
    \E id \in (1..LastSession) \ DOMAIN sessions :
        /\ \A s \in 1..(id - 1) : s \in DOMAIN sessions
        /\ \/ got = {id} /\ Store(id, hashes)
              /\ cached' = {[id |-> id, fp |-> fp, hashes |-> hashes]} /\ UNCHANGED job
           \/ got = {} /\ Bounded("faults")
              /\ cached' = {} /\ Store(id, {})

\* The cached session takes the sections it lacks; a failure leaves some of
\* them behind and drops the record.
TopUp(old, hashes, fp, got) ==
    LET missing == hashes \ old.hashes IN
    \/ got = {old.id} /\ Store(old.id, missing) /\ UNCHANGED job
       /\ cached' = {[old EXCEPT !.fp = fp, !.hashes = @ \union missing]}
    \/ got = {} /\ missing # {} /\ Bounded("faults")
       /\ \E some \in SUBSET missing : some # missing /\ Store(old.id, some)
       /\ cached' = {}

\* ensure_semantic_session: `got` is the session, {} for an error.
Ensure(hashes, fp, got) ==
    \/ \E old \in cached : old.fp = fp /\ got = {old.id} /\ UNCHANGED <<job, sessions, cached>>
    \/ \E old \in cached : old.fp # fp /\ TopUp(old, hashes, fp, got)
    \/ cached = {} /\ Ingest(hashes, fp, got)

-----------------------------------------------------------------------------
(* The corpus and the store change on their own                             *)

\* A file has its time in seconds: an edit in the second of the last one, or
\* of a file that was there until then, does not show in it.
Hides(f) == clock' = clock /\ (f \in DOMAIN corpus => corpus[f].mtime = clock)

Edit(f, c) ==
    /\ Bounded("edits")
    /\ f \in DOMAIN corpus => corpus[f].content # c
    /\ clock' \in {clock, clock + 1}
    /\ corpus' = [g \in DOMAIN corpus \union {f} |->
                     IF g = f THEN [content |-> c, mtime |-> clock', hidden |-> Hides(f)] ELSE corpus[g]]
    /\ UNCHANGED <<db, run, sessions, cached, torn>>

Delete(f) ==
    /\ Bounded("edits") /\ f \in DOMAIN corpus
    /\ corpus' = [g \in DOMAIN corpus \ {f} |-> corpus[g]]
    /\ UNCHANGED <<clock, db, run, sessions, cached, torn>>

\* The store drops a session, or the record of it outlives its seven days.
Expire(id) ==
    /\ Bounded("expiries") /\ id \in DOMAIN sessions /\ sessions[id] # {}
    /\ sessions' = [sessions EXCEPT ![id] = {}]
    /\ UNCHANGED <<corpus, clock, db, run, cached, torn>>

Outlived ==
    /\ Bounded("expiries") /\ cached # {}
    /\ cached' = {}
    /\ UNCHANGED <<corpus, clock, db, run, sessions, torn>>

-----------------------------------------------------------------------------
(* A run                                                                    *)

\* The sections of a state whose entities are known.
Extracted(files) ==
    UNION {{<<f, files[f].sections[k].title, files[f].sections[k].at>> :
               k \in {k \in DOMAIN files[f].sections : IsDone(files[f].sections[k])}} : f \in DOMAIN files}

Scan == FlattenSeq([i \in 1..Len(FileSeq) |-> IF FileSeq[i] \in DOMAIN corpus THEN <<FileSeq[i]>> ELSE <<>>])

\* `index update` takes its options from state.json and refuses without it.
CanStart(verb) == verb = "update" => db.state.whole

\* `index DIR` starts from nothing when state.json cannot be read.
Start(force, verb) ==
    /\ Bounded("runs") /\ run.pc = "idle" /\ CanStart(verb)
    /\ run' = [Idle EXCEPT !.pc = "scan", !.force = force, !.cached_files = db.state.cached_files,
                           !.had = Extracted(db.state.cached_files),
                           !.todo = Scan]
    /\ UNCHANGED <<corpus, clock, db, sessions, cached, torn>>

\* A file whose bytes do not decode is binary; it is passed over.
IsReadable(f) == IsText(corpus[f].content)

NewSections(f) == Chunks(f, corpus[f].content)

NeedsIndex(f) ==
    \/ run.force
    \/ f \in DOMAIN run.cached_files =>
          \/ run.cached_files[f].mtime # corpus[f].mtime
          \/ job.entities /\ \E k \in DOMAIN run.cached_files[f].sections :
                                ~IsDone(run.cached_files[f].sections[k])

\* The sections of a file; those of the cached ones with the same title at
\* the same line keep their entities, unless the run is forced.
Chunked(f) ==
    LET new == NewSections(f)
        old == IF f \in DOMAIN run.cached_files /\ ~run.force THEN run.cached_files[f].sections ELSE <<>>
        known(sec) == UNION {old[k].entities : k \in {k \in DOMAIN old : old[k].title = sec.title /\ old[k].at = sec.at}}
    IN [k \in DOMAIN new |-> [title |-> new[k].title, at |-> new[k].at, text |-> new[k].text,
                              entities |-> known(new[k])]]

\* The next file: one that is gone by now, or that the extractor rejects,
\* ends the run; one that is not text is passed over.
IndexFile(flush) ==
    /\ run.pc = "scan" /\ run.todo # <<>>
    /\ LET f == Head(run.todo) IN
       /\ f \in DOMAIN corpus
       /\ LET taken == NeedsIndex(f) /\ IsReadable(f)
              files == IF taken
                       THEN [g \in DOMAIN run.cached_files \union {f} |->
                                IF g = f THEN [mtime |-> corpus[f].mtime, sections |-> Chunked(f)]
                                ELSE run.cached_files[g]]
                       ELSE run.cached_files
          IN /\ flush => (taken /\ AllSections(files) # <<>>)
             /\ run' = [run EXCEPT !.todo = Tail(@), !.seen = @ \union {f}, !.cached_files = files,
                                   !.pc = IF flush THEN "bm25" ELSE "scan", !.back = "scan"]
    /\ IF flush THEN Bounded("flushes") ELSE UNCHANGED job
    /\ UNCHANGED <<corpus, clock, db, sessions, cached, torn>>

IndexFileFails ==
    /\ run.pc = "scan" /\ run.todo # <<>>
    /\ IF Head(run.todo) \in DOMAIN corpus
       THEN NeedsIndex(Head(run.todo)) /\ Bounded("faults")
       ELSE UNCHANGED job
    /\ run' = [Idle EXCEPT !.outcome = "failed"]
    /\ UNCHANGED <<corpus, clock, db, sessions, cached, torn>>

\* Files that were not scanned leave the cache; with no section left the run
\* ends and writes nothing.
DropDeleted ==
    /\ run.pc = "scan" /\ run.todo = <<>>
    /\ LET files == [f \in DOMAIN run.cached_files \intersect run.seen |-> run.cached_files[f]]
       IN run' = IF AllSections(files) = <<>> THEN [Idle EXCEPT !.outcome = "empty"]
                 ELSE [run EXCEPT !.pc = "session", !.cached_files = files]
    /\ UNCHANGED <<job, corpus, clock, db, sessions, cached, torn>>

Embed ==
    /\ run.pc = "session"
    /\ \E got \in {{}} \union {{id} : id \in 1..LastSession} :
          /\ IF job.semantic THEN Ensure(Hashes(AllSections(run.cached_files)), Fingerprint, got)
             ELSE got = {} /\ UNCHANGED <<job, sessions, cached>>
          /\ run' = [run EXCEPT !.session = got, !.pc = "bm25", !.back = "state"]
    /\ UNCHANGED <<corpus, clock, db, torn>>

\* The three searchable files, one after the other.
Flush ==
    \/ /\ run.pc = "bm25"
       /\ db' = [db EXCEPT !.bm25 = [whole |-> TRUE, sections |-> AllSections(run.cached_files)]]
       /\ MovesTo("spelling")
       /\ UNCHANGED <<job, corpus, clock, sessions, cached, torn>>
    \/ /\ run.pc = "spelling"
       /\ db' = [db EXCEPT !.others.spelling = TRUE]
       /\ MovesTo("graph")
       /\ UNCHANGED <<job, corpus, clock, sessions, cached, torn>>
    \/ /\ run.pc = "graph"
       /\ db' = [db EXCEPT !.others.graph = TRUE]
       /\ MovesTo(run.back)
       /\ UNCHANGED <<job, corpus, clock, sessions, cached, torn>>

State == [whole |-> TRUE, cached_files |-> run.cached_files, session |-> run.session]

\* The sections that still need their entities, of a file and over all files.
Undone(f, sections) ==
    FlattenSeq([k \in DOMAIN sections |-> IF IsDone(sections[k]) THEN <<>> ELSE <<[file |-> f, k |-> k]>>])
Worklist ==
    FlattenSeq([i \in 1..Len(FileSeq) |->
        LET f == FileSeq[i]
        IN  IF f \in DOMAIN run.cached_files THEN Undone(f, run.cached_files[f].sections) ELSE <<>>])

SaveEarlyState ==
    /\ run.pc = "state"
    /\ db' = [db EXCEPT !.state = State]
    /\ run' = IF job.entities /\ Worklist # <<>>
              THEN [run EXCEPT !.pc = "extract", !.tasks = Worklist]
              ELSE [run EXCEPT !.pc = "bm25", !.back = "end"]
    /\ UNCHANGED <<job, corpus, clock, sessions, cached, torn>>

-----------------------------------------------------------------------------
(* Entity extraction: workers take tasks, one collector applies results     *)

Extracting == run.tasks # <<>> /\ run.back # "end"

Take(w) ==
    /\ Extracting
    /\ run.hands[w] = {} /\ run.next <= Len(run.tasks)
    /\ run' = [run EXCEPT !.hands[w] = {run.next}, !.next = @ + 1]
    /\ UNCHANGED <<job, corpus, clock, db, sessions, cached, torn>>

\* A model found entities, or none, or failed.
Extract(w, ok) ==
    /\ Extracting
    /\ \E t \in run.hands[w] :
          run' = [run EXCEPT !.hands[w] = {}, !.results = Append(@, [task |-> t, ok |-> ok])]
    /\ IF ok THEN UNCHANGED job ELSE Bounded("faults")
    /\ UNCHANGED <<corpus, clock, db, sessions, cached, torn>>

\* The section a task's entities are extracted from.
Source(t) ==
    LET sec == run.cached_files[t.file].sections[t.k] IN <<t.file, sec.title, sec.at, sec.text>>

\* Mutant: the result is written at the position it arrives in.
CollectInOrder(flush) ==
    /\ run.pc = "extract" /\ run.results # <<>>
    /\ LET got == Head(run.results)
           t == run.tasks[run.next - Len(run.results) - Cardinality({w \in Workers : run.hands[w] # {}})]
           after == [run EXCEPT !.results = Tail(@),
                                !.cached_files[t.file].sections[t.k].entities = {Source(run.tasks[got.task])}]
       IN /\ ~flush
          /\ IF got.ok THEN run' = after /\ db' = [db EXCEPT !.state.cached_files = after.cached_files]
             ELSE run' = [run EXCEPT !.results = Tail(@)] /\ UNCHANGED db
    /\ UNCHANGED <<job, corpus, clock, sessions, cached, torn>>

\* The collector applies a result to the section of its task and checkpoints
\* state.json; a failure leaves the section for the next run.
Collect(flush) ==
    /\ run.pc = "extract" /\ run.results # <<>>
    /\ LET got == Head(run.results)
           t == run.tasks[got.task]
           after == [run EXCEPT !.results = Tail(@), !.cached_files[t.file].sections[t.k].entities = {Source(t)},
                                !.pc = IF flush THEN "bm25" ELSE @, !.back = "extract"]
       IN /\ flush => got.ok
          /\ IF got.ok
             THEN run' = after /\ db' = [db EXCEPT !.state = [State EXCEPT !.cached_files = after.cached_files]]
             ELSE run' = [run EXCEPT !.results = Tail(@)] /\ UNCHANGED db
    /\ IF flush THEN Bounded("flushes") ELSE UNCHANGED job
    /\ UNCHANGED <<corpus, clock, sessions, cached, torn>>

\* Mutant: the collector waits until every section has its entities.
ExtractionComplete ==
    /\ run.pc = "extract" /\ run.results = <<>> /\ Worklist = <<>>
    /\ run.next > Len(run.tasks) /\ \A w \in Workers : run.hands[w] = {}
    /\ run' = [run EXCEPT !.pc = "bm25", !.back = "end"]
    /\ UNCHANGED <<job, corpus, clock, db, sessions, cached, torn>>

\* Every worker is gone and every result is taken.
Extraction ==
    /\ run.pc = "extract" /\ run.results = <<>>
    /\ run.next > Len(run.tasks) /\ \A w \in Workers : run.hands[w] = {}
    /\ run' = [run EXCEPT !.pc = "bm25", !.back = "end"]
    /\ UNCHANGED <<job, corpus, clock, db, sessions, cached, torn>>

SaveState ==
    /\ run.pc = "end"
    /\ db' = [db EXCEPT !.state = State]
    /\ run' = [Idle EXCEPT !.outcome = "done", !.seen = run.seen]
    /\ UNCHANGED <<job, corpus, clock, sessions, cached, torn>>

\* The process dies; a file it was writing is cut short.
Crash ==
    /\ Bounded("crashes") /\ run.pc # "idle"
    /\ run' = [Idle EXCEPT !.outcome = "crashed"]
    /\ \/ UNCHANGED <<db, torn>>
       \/ run.pc \in {"state", "end", "extract"} /\ (run.pc = "extract" => run.results # <<>> /\ Head(run.results).ok)
          /\ db' = [db EXCEPT !.state = NoState] /\ torn' = TRUE
       \/ run.pc = "bm25" /\ db' = [db EXCEPT !.bm25 = NoIndex.bm25] /\ UNCHANGED torn
       \/ run.pc = "spelling" /\ db' = [db EXCEPT !.others.spelling = FALSE] /\ UNCHANGED torn
       \/ run.pc = "graph" /\ db' = [db EXCEPT !.others.graph = FALSE] /\ UNCHANGED torn
    /\ UNCHANGED <<corpus, clock, sessions, cached>>

IndexInit ==
    /\ corpus \in {[f \in Files |-> [content |-> c, mtime |-> 1, hidden |-> FALSE]] : c \in {CHOOSE c \in Contents : IsText(c)}}
    /\ clock = 1 /\ db = NoIndex /\ run = Idle
    /\ sessions = Empty /\ cached = {} /\ torn = FALSE

\* The steps of a run that has started.
RunStep ==
    \/ \E flush \in BOOLEAN : IndexFile(flush)
    \/ IndexFileFails
    \/ DropDeleted
    \/ Embed
    \/ Flush
    \/ SaveEarlyState
    \/ \E flush \in BOOLEAN : Collect(flush)
    \/ Extraction
    \/ SaveState

IndexNext ==
    \/ \E f \in Files, c \in Contents : Edit(f, c)
    \/ \E f \in Files : Delete(f)
    \/ \E id \in 1..LastSession : Expire(id)
    \/ Outlived
    \/ \E force \in BOOLEAN, verb \in {"init", "update"} : Start(force, verb)
    \/ RunStep
    \/ \E w \in Workers : Take(w)
    \/ \E w \in Workers, ok \in BOOLEAN : Extract(w, ok)
    \/ Crash

=============================================================================
