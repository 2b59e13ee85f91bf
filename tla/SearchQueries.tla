------------------------------- MODULE SearchQueries -------------------------------
(***************************************************************************)
(* `lume search`, `lume stream`, `lume answer` and `lume section` over the *)
(* files SearchIndex writes (ferricula-search main.rs, hybrid.rs): each is *)
(* a process of its own, and none locks a file.                            *)
(*                                                                         *)
(* There is one query, and every section matches it: lexically, in the     *)
(* semantic store and in the entity graph.  What the ledger of suppressed  *)
(* sections lets through is all that is left to decide.                    *)
(***************************************************************************)
EXTENDS SearchIndex

-----------------------------------------------------------------------------
(***************************************************************************)
(* suppression.json (ferricula-search suppress.rs): the sections that were *)
(* forgotten and those that are sealed, by their content hash.             *)
(***************************************************************************)
NoLedger == [forgotten |-> {}, sealed |-> {}]

\* Forgotten is stronger than sealed.
Forget(ledger, hash) ==
    [forgotten |-> ledger.forgotten \union {hash}, sealed |-> ledger.sealed \ {hash}]

Seal(ledger, hash) ==
    IF hash \in ledger.forgotten THEN ledger
    ELSE [ledger EXCEPT !.sealed = @ \union {hash}]

Restore(ledger, hash) ==
    [forgotten |-> ledger.forgotten \ {hash}, sealed |-> ledger.sealed \ {hash}]

IsSearchable(ledger, hash, include_sealed) ==
    /\ hash \notin ledger.forgotten
    /\ hash \in ledger.sealed => include_sealed

Apply(ledger, verb, hash) ==
    CASE verb = "forget" -> Forget(ledger, hash)
      [] verb = "seal" -> Seal(ledger, hash)
      [] OTHER -> Restore(ledger, hash)

-----------------------------------------------------------------------------

CONSTANTS
    Operators,         \* who runs `lume section`
    SameSplit(_, _)    \* whether two titles are parts of one section

VARIABLES
    suppression,       \* suppression.json
    queries,           \* .lume-semantic-cache.json: {} or the answer it holds
    search,            \* the search process
    shown,             \* what the last search printed
    edit,              \* operator -> the `lume section` command under way
    gone,              \* sections an operator was told are forgotten
    put_away           \* sections an operator was told are sealed

query_vars == <<suppression, queries, search, shown, edit, gone, put_away>>
vars == <<job, index_vars, query_vars>>

NoSearch == [pc |-> "idle", sections |-> <<>>, fp |-> <<0, 0>>, tries |-> 0, session |-> {}, semantic |-> {},
             include_sealed |-> FALSE]
NoEdit == [pc |-> "idle", verb |-> "list", hash |-> {}, ledger |-> NoLedger]
Nothing == [path |-> "none", hits |-> {}, texts |-> {}, complete |-> TRUE, sealed |-> FALSE]

Readable == db.state.whole /\ db.bm25.whole /\ db.others.spelling
Goes(pc) == search' = [search EXCEPT !.pc = pc]

-----------------------------------------------------------------------------
(* handle_search and execute_hybrid_search                                  *)

\* The search reads the index; it is hybrid when the state names a session.
SearchStarts(include_sealed) ==
    /\ Bounded("searches") /\ search.pc = "idle" /\ Readable
    /\ search' = [NoSearch EXCEPT !.sections = db.bm25.sections, !.include_sealed = include_sealed,
                                  !.pc = IF db.state.session # {} THEN "fingerprint" ELSE "lexical"]
    /\ UNCHANGED <<index_vars, suppression, queries, shown, edit, gone, put_away>>

\* The answer of the query may be cached for this fingerprint.
LookUp ==
    /\ search.pc = "fingerprint"
    /\ LET known == {q \in queries : q.fp = Fingerprint} IN
       search' = [search EXCEPT !.fp = Fingerprint,
                                !.semantic = UNION {q.found : q \in known},
                                !.pc = IF known # {} THEN "blend" ELSE "session"]
    /\ UNCHANGED <<job, index_vars, suppression, queries, shown, edit, gone, put_away>>

\* The session is brought up to the sections of the index; an error leaves
\* the lexical path.
GetSession ==
    /\ search.pc = "session"
    /\ \E got \in {{}} \union {{id} : id \in 1..LastSession} :
          /\ Ensure(Hashes(search.sections), search.fp, got)
          /\ search' = [search EXCEPT !.session = got, !.pc = IF got = {} THEN "lexical" ELSE "ask"]
    /\ UNCHANGED <<corpus, clock, db, run, torn, suppression, queries, shown, edit, gone, put_away>>

\* The store answers with what the session holds; a session it has dropped
\* is forgotten and made again, once.
AskStore ==
    /\ search.pc = "ask"
    /\ \E id \in search.session :
          IF sessions[id] # {}
          THEN /\ queries' = {[fp |-> search.fp, found |-> sessions[id]]}
               /\ search' = [search EXCEPT !.semantic = sessions[id], !.pc = "blend"]
               /\ UNCHANGED cached
          ELSE /\ UNCHANGED queries
               /\ IF search.tries = 0
                  THEN cached' = {} /\ search' = [search EXCEPT !.tries = 1, !.pc = "session"]
                  ELSE UNCHANGED cached /\ search' = [search EXCEPT !.pc = "lexical"]
    /\ UNCHANGED <<job, corpus, clock, db, run, sessions, torn, suppression, shown, edit, gone, put_away>>

\* Mutant: only the lexical hits are filtered.
SemanticUnfiltered(found) == found

\* The semantic hits that are left: those of a section of the index, and
\* searchable.
SemanticFiltered(found) ==
    IF suppression = NoLedger THEN found
    ELSE {h \in found \intersect Hashes(search.sections) : IsSearchable(suppression, h, search.include_sealed)}

\* The sections the three signals propose; one that is no longer in the
\* index does not resolve.
Blended ==
    LET all == Hashes(search.sections)
        searchable == {h \in all : IsSearchable(suppression, h, search.include_sealed)}
    IN searchable \union (SemanticFiltered(search.semantic) \intersect all)

\* A hit on a part shows the text of the parts before and after it as well.
Texts(sections, hits) ==
    UNION {{sections[j].hash : j \in {j \in (i - 1)..(i + 1) :
                /\ j \in DOMAIN sections
                /\ j = i \/ /\ sections[j].hash[1] = sections[i].hash[1]
                            /\ SameSplit(sections[j].title, sections[i].title)}} :
           i \in {i \in DOMAIN sections : sections[i].hash \in hits}}

Blend ==
    /\ search.pc = "blend"
    /\ shown' = [path |-> "hybrid", hits |-> Blended, texts |-> Texts(search.sections, Blended),
                 complete |-> Hashes(search.sections) \subseteq search.semantic,
                 sealed |-> search.include_sealed]
    /\ search' = NoSearch
    /\ UNCHANGED <<job, index_vars, suppression, queries, edit, gone, put_away>>

Lexical ==
    /\ search.pc = "lexical"
    /\ LET hits == {h \in Hashes(search.sections) : IsSearchable(suppression, h, search.include_sealed)}
       IN shown' = [path |-> "lexical", hits |-> hits, texts |-> hits, complete |-> TRUE,
                    sealed |-> search.include_sealed]
    /\ search' = NoSearch
    /\ UNCHANGED <<job, index_vars, suppression, queries, edit, gone, put_away>>

\* `lume stream` and `lume answer` retrieve from the index as it is.
RetrieveUnion ==
    /\ Bounded("streams") /\ search.pc = "idle" /\ db.state.whole /\ db.bm25.whole
    /\ LET all == Hashes(db.bm25.sections)
       IN shown' = [path |-> "stream", hits |-> all, texts |-> all, complete |-> TRUE, sealed |-> FALSE]
    /\ UNCHANGED <<index_vars, suppression, queries, search, edit, gone, put_away>>

-----------------------------------------------------------------------------
(* handle_section                                                           *)

\* The hash is one of the index, and the ledger is read.
Command(o, verb, hash) ==
    /\ Bounded("commands") /\ edit[o].pc = "idle"
    /\ db.state.whole /\ db.bm25.whole /\ hash \in Hashes(db.bm25.sections)
    /\ edit' = [edit EXCEPT ![o] = [pc |-> "save", verb |-> verb, hash |-> {hash},
                                    ledger |-> Apply(suppression, verb, hash)]]
    /\ UNCHANGED <<index_vars, suppression, queries, search, shown, gone, put_away>>

\* The whole ledger is written, and the operator told; what was printed
\* before is not held against it.
Save(o) ==
    /\ edit[o].pc = "save"
    /\ suppression' = edit[o].ledger
    /\ edit' = [edit EXCEPT ![o] = NoEdit]
    /\ gone' = IF edit[o].verb = "forget" THEN gone \union edit[o].hash
               ELSE IF edit[o].verb = "restore" THEN gone \ edit[o].hash ELSE gone
    /\ put_away' = IF edit[o].verb = "seal" THEN put_away \union (edit[o].hash \ gone) ELSE put_away \ edit[o].hash
    /\ shown' = Nothing
    /\ UNCHANGED <<job, index_vars, queries, search>>

\* The command dies in its write: the ledger cannot be read and is taken to
\* be empty.
SaveDies(o) ==
    /\ Bounded("slips") /\ edit[o].pc = "save"
    /\ suppression' = NoLedger
    /\ edit' = [edit EXCEPT ![o] = NoEdit]
    /\ UNCHANGED <<index_vars, queries, search, shown, gone, put_away>>

-----------------------------------------------------------------------------
Init ==
    /\ job \in Jobs
    /\ IndexInit
    /\ suppression = NoLedger /\ queries = {} /\ search = NoSearch /\ shown = Nothing
    /\ edit = [o \in Operators |-> NoEdit] /\ gone = {} /\ put_away = {}

SearchStep == LookUp \/ GetSession \/ AskStore \/ Blend \/ Lexical

Next ==
    \/ IndexNext /\ UNCHANGED query_vars
    \/ \E include_sealed \in BOOLEAN : SearchStarts(include_sealed)
    \/ SearchStep
    \/ RetrieveUnion
    \/ \E o \in Operators, verb \in {"forget", "seal", "restore"}, i \in DOMAIN db.bm25.sections :
          Command(o, verb, db.bm25.sections[i].hash)
    \/ \E o \in Operators : Save(o) \/ SaveDies(o)

\* Processes that run go on; the environment need not.
Fairness ==
    /\ WF_vars(RunStep /\ UNCHANGED query_vars)
    /\ \A w \in Workers :
          WF_vars((Take(w) \/ \E ok \in BOOLEAN : Extract(w, ok)) /\ UNCHANGED query_vars)
    /\ WF_vars(SearchStep)

Spec == Init /\ [][Next]_vars /\ Fairness

-----------------------------------------------------------------------------
SearchTypeOK ==
    /\ run.pc \in {"idle", "scan", "session", "bm25", "spelling", "graph", "state", "extract", "end"}
    /\ run.back \in {"idle", "scan", "state", "extract", "end"}
    /\ run.next \in 1..(Len(run.tasks) + 1)
    /\ \A w \in Workers : run.hands[w] \subseteq DOMAIN run.tasks /\ Cardinality(run.hands[w]) <= 1
    /\ \A i \in DOMAIN run.results : run.results[i].task \in DOMAIN run.tasks
    /\ DOMAIN sessions \subseteq 1..LastSession /\ Cardinality(cached) <= 1 /\ Cardinality(queries) <= 1
    /\ suppression.forgotten \intersect suppression.sealed = {}

\* A section an operator was told is forgotten is no hit of a search any
\* more, and a sealed one only of a search that asks for sealed sections:
\* across new index runs, answers cached before it was forgotten, sections
\* the semantic store still holds and searches that began before.
ForgottenIsNoHit ==
    shown.path \in {"hybrid", "lexical"} =>
        /\ shown.hits \intersect gone = {}
        /\ ~shown.sealed => shown.hits \intersect put_away = {}

\* The text of a forgotten section is not shown by any command, within the
\* hit of another section neither.
ForgottenTextStaysOut == shown.texts \intersect gone = {}

\* The record of a session never claims a section the store was not given:
\* a top-up believed before it succeeded would lose the section for good.
RecordsAreTrue ==
    job.store_keeps => \A r \in cached : r.hashes \subseteq sessions[r.id]

\* After a run that ended well the index is that of its state, without the
\* files that were gone, and the texts it holds of a readable file are those of
\* the file for as long as its time says so: a run does not look at a file
\* whose time, in seconds, it knows, so an edit within the second of the one
\* before stays out of the index until the next.
IndexIsTheCorpus ==
    run.outcome = "done" /\ db.bm25.whole =>
        /\ db.bm25.sections = AllSections(db.state.cached_files)
        /\ DOMAIN db.state.cached_files \subseteq run.seen
        /\ \A f \in DOMAIN db.state.cached_files \intersect DOMAIN corpus :
              LET file == db.state.cached_files[f] IN
              IsReadable(f) /\ corpus[f].mtime = file.mtime /\ ~corpus[f].hidden =>
                  [k \in DOMAIN file.sections |-> file.sections[k].text] =
                      [k \in DOMAIN NewSections(f) |-> NewSections(f)[k].text]

\* A section whose entities state.json held when the run began is not
\* handed to a worker again, unless the run is forced, and none is handed
\* out twice.
NothingTwice ==
    /\ ~run.force => \A i \in DOMAIN run.tasks :
           LET t == run.tasks[i]
               sec == run.cached_files[t.file].sections[t.k]
           IN <<t.file, sec.title, sec.at>> \notin run.had
    /\ \A v, w \in Workers : v # w => run.hands[v] \intersect run.hands[w] = {}
    /\ \A i, j \in DOMAIN run.results : i # j => run.results[i].task # run.results[j].task

\* The entities of a section are those of the section at its place: results
\* that arrive out of order, and files that are chunked again, do not move
\* them.
ResultsLandRight ==
    \A f \in DOMAIN run.cached_files : \A k \in DOMAIN run.cached_files[f].sections :
        LET sec == run.cached_files[f].sections[k] IN
        \A e \in sec.entities : e[1] = f /\ e[2] = sec.title /\ e[3] = sec.at

\* A run ends.
RunEnds == run.pc # "idle" ~> run.pc = "idle"

\* What the index, the state file and the records of the sessions say is true
\* of the corpus and of the store, over runs that fail, crash, are forced and
\* are begun anew while files change.
IndexIsTrue ==
    /\ SearchTypeOK
    /\ RecordsAreTrue
    /\ IndexIsTheCorpus
    /\ NothingTwice
    /\ ResultsLandRight
=============================================================================
