------------------------------- MODULE MCAgents -------------------------------
(***************************************************************************)
(* The programs around the index and the text algorithms they stand on,    *)
(* one busy at a time.  A sample is the input of a pure function, a case   *)
(* that of an algorithm with an output.                                    *)
(***************************************************************************)
EXTENDS Chunker, SearchAgents, SearchServer, Crawler, EpisodeQuery, SleepPlanner, MCTexts

VARIABLES
    busy,               \* which of them runs
    sample              \* [text, page, reply], at most one of them not empty

\* The chunker.
Alphabet == {"a", ".", " ", "\n", "#", "1"}
MCSentences == UNION {[1..n -> Alphabet] : n \in 0..5}
Piece(a, n, t, e) == [words |-> [k \in 1..n |-> [id |-> 10 * a + k, tokens |-> t]], ends |-> e]
MCDocuments ==
    {<<>>, <<Piece(1, 5, 1, TRUE)>>, <<Piece(1, 1, 1, TRUE), Piece(2, 1, 2, FALSE)>>, <<Piece(1, 3, 2, TRUE), Piece(2, 1, 1, TRUE)>>,
     <<Piece(1, 1, 1, TRUE), Piece(2, 2, 1, FALSE), Piece(3, 1, 2, TRUE), Piece(4, 1, 1, TRUE),
       Piece(5, 4, 1, TRUE), Piece(6, 1, 1, FALSE), Piece(7, 2, 2, TRUE)>>,
     [k \in 1..6 |-> Piece(k, 1, 1, TRUE)], [k \in 1..7 |-> Piece(k, 1, 2, k % 2 = 0)],
     [k \in 1..4 |-> Piece(k, 2, 1, TRUE)]}

\* The answer loop.
Query(w, c) == [word |-> w, case |-> c]
HitOn(s, n) == [section |-> s, score |-> n]
MCHits(w) ==
    CASE w = "a" -> <<HitOn(1, 2), HitOn(2, 1)>>
      [] w = "b" -> <<HitOn(3, 3), HitOn(2, 3), HitOn(4, 1)>>
      [] w = "c" -> <<HitOn(5, 4)>>
      [] OTHER -> <<>>
MCQuestions == {<<Query("a", "low")>>, <<Query("z", "low")>>}
MCPlans == {<<>>, <<Query("a", "low"), Query("b", "low")>>, <<Query("b", "low"), Query("b", "low")>>, <<Query("z", "low")>>}
MCWishes ==
    {<<>>, <<Query("a", "up"), Query("c", "low")>>,
     <<Query("c", "low"), Query("c", "up"), Query("b", "low")>>, <<Query("b", "up")>>}
MCReplies ==
    {<<>>, <<"[", "2", "]", "x", "[", "1", "]", "[", "2", "]">>,
     <<"[", "[", "3", "]", "[", "]", "[", "2", "0", "]">>, <<"[", "0", "]", "[", "2", "x", "]", "[", "1">>}
MCBrackets == UNION {[1..n -> {"[", "]", "x"}] : n \in 0..6}

\* The tools.
Call == [name |-> "lume_index", dir |-> FALSE, force |-> FALSE, query |-> TRUE, ok |-> TRUE]
MCCalls ==
    {<<>>, <<Call>>, <<[Call EXCEPT !.dir = TRUE], [Call EXCEPT !.name = "lume_search"]>>,
     <<[Call EXCEPT !.name = "lume_search"], [Call EXCEPT !.name = "lume_not_found"]>>,
     <<[Call EXCEPT !.name = "lume_search", !.ok = FALSE]>>}
MCFiles == <<"a", "b", "c">>
MCSections(f) == IF f = "a" THEN 1 ELSE 2
TextLine(n) == <<"text", n>>
MCPrints(q) ==
    CASE q = "p" -> <<[file |-> "a", lines |-> <<TextLine(1), TextLine(2)>>],
                      [file |-> "b", lines |-> <<TextLine(3), <<"score", "x">>, TextLine(4)>>]>>
      [] q = "q" -> <<[file |-> "b", lines |-> <<TextLine(3)>>]>>
      [] OTHER -> <<>>
MCQueryPlans == {<<"p", "q">>, <<"z">>, <<>>, <<"q", "p", "q">>}

\* The crawler.
MCAddresses == {[url |-> "u", slug |-> "s", story |-> FALSE], [url |-> "v", slug |-> "s", story |-> FALSE],
                [url |-> "w", slug |-> "t", story |-> TRUE]}
MCServices == {[token |-> t, local |-> l, localhost |-> l] : t, l \in BOOLEAN}
Element == [kind : {"text", "break", "link", "script", "title"}, word : {"w", ">"}]
MCPages == UNION {[1..n -> {e \in Element : e.word = ">" => e.kind = "link"}] : n \in 0..4}

\* The queries over episodes.
MCObservations == <<"o1", "o2", "o3", "o4">>
Bond(a, b) == [from |-> a, to |-> b]
AllEdges == <<Bond("o1", "o2"), Bond("o1", "h1"), Bond("o1", "o3"), Bond("o2", "o4"), Bond("g1", "o3"), Bond("h2", "x")>>
Hypothesis(i, t, s, n, m) == [id |-> i, target |-> t, status |-> s, at |-> n, matched |-> m]
MCHypotheses ==
    {<<Hypothesis("h1", "o3", "Supported", 1, FALSE), Hypothesis("h2", "o3", "Candidate", 2, TRUE)>>,
     <<Hypothesis("h1", "o4", "Disconfirmed", 2, TRUE), Hypothesis("h2", "o4", "Candidate", 1, TRUE)>>}
Keep(f) ==
    LET at == SelectSeq([i \in DOMAIN AllEdges |-> i], LAMBDA i : f[i])
    IN  [k \in DOMAIN at |-> AllEdges[at[k]]]
MCEdges == {Keep(f) : f \in {g \in [DOMAIN AllEdges -> BOOLEAN] : g[6] = g[1]}}
Budgets ==
    {[limit |-> 1, links |-> 2, seeds |-> 3, cap |-> 1, explore |-> 1],
     [limit |-> 2, links |-> 3, seeds |-> 6, cap |-> 2, explore |-> 2]}
Matchings ==
    {[o \in ToSet(MCObservations) |-> CASE o = "o1" -> 1 [] o = "o2" -> 2 [] OTHER -> 0],
     [o \in ToSet(MCObservations) |-> IF o = "o4" THEN 0 ELSE 1],
     [o \in ToSet(MCObservations) |-> 0]}
MCAsks ==
    {Unasked} \union
    {[mode |-> m, limit |-> b.limit, links |-> b.links, seeds |-> b.seeds, cap |-> b.cap, explore |-> b.explore,
      match |-> f, goals |-> <<"g1">>, hyps |-> h, edges |-> e, unresolved |-> {"o2", "o3", "o4"}] :
        m \in {"plain", "linked", "explore"}, b \in Budgets, h \in MCHypotheses, e \in MCEdges, f \in Matchings}

\* The planner of sleep.
MCKinds == <<"reflection", "dream">>
PlainPolicy ==
    [on |-> TRUE, perDay |-> 2, jitter |-> 1, ttl |-> 1, cap |-> 3,
     cooldown |-> [k \in KindSet |-> IF k = "reflection" THEN 1 ELSE 2],
     budget |-> [calls |-> 1, tokens |-> 2, usd |-> 1],
     privacy |-> [share |-> FALSE, redact |-> TRUE, excerpt |-> 2]]
MCPolicies ==
    {PlainPolicy, [PlainPolicy EXCEPT !.cap = 1, !.budget.usd = 0, !.privacy.share = TRUE],
     [PlainPolicy EXCEPT !.perDay = 1, !.jitter = 2, !.ttl = 3, !.budget.calls = 0]}

-----------------------------------------------------------------------------
NoSample == [text |-> <<>>, page |-> <<>>, reply |-> <<>>]
Samples ==
    {[text |-> t, page |-> <<>>, reply |-> <<>>] : t \in MCSentences}
    \union {[text |-> <<>>, page |-> p, reply |-> <<>>] : p \in MCPages}
    \union {[text |-> <<>>, page |-> <<>>, reply |-> r] : r \in MCBrackets}

MCInit ==
    /\ busy \in 1..9
    /\ ChunkInit /\ (busy # 1 => document = <<>>)
    /\ AnswerInit /\ (busy # 2 => answer = Idle)
    /\ AgentInit /\ (busy # 3 => task.kind = "none")
    /\ ServerInit
    /\ CrawlInit /\ (busy # 5 => crawl.left = 0)
    /\ QueryInit /\ (busy # 6 => ask = Unasked)
    /\ SleepInit /\ (busy # 7 => sleeper.policy = PlainPolicy)
    /\ sample \in IF busy = 8 THEN Samples ELSE {NoSample}
    /\ IF busy = 9 THEN TextsInit ELSE case = [kind |-> "none"] /\ output = {}

otherVars == <<busy, sample>>

MCNext ==
    /\ UNCHANGED otherVars
    /\ \/ ChunkNext /\ UNCHANGED <<answer, agentVars, serverVars, crawlVars, queryVars, sleepVars, textVars>>
       \/ AnswerNext /\ UNCHANGED <<chunkVars, agentVars, serverVars, crawlVars, queryVars, sleepVars, textVars>>
       \/ AgentNext /\ UNCHANGED <<chunkVars, answer, serverVars, crawlVars, queryVars, sleepVars, textVars>>
       \/ busy = 4 /\ ServerNext /\ UNCHANGED <<chunkVars, answer, agentVars, crawlVars, queryVars, sleepVars, textVars>>
       \/ CrawlNext /\ UNCHANGED <<chunkVars, answer, agentVars, serverVars, queryVars, sleepVars, textVars>>
       \/ QueryNext /\ UNCHANGED <<chunkVars, answer, agentVars, serverVars, crawlVars, sleepVars, textVars>>
       \/ busy = 7 /\ SleepNext /\ UNCHANGED <<chunkVars, answer, agentVars, serverVars, crawlVars, queryVars, textVars>>
       \/ TextsNext /\ UNCHANGED <<chunkVars, answer, agentVars, serverVars, crawlVars, queryVars, sleepVars>>

MCSpec ==
    /\ MCInit
    /\ [][MCNext]_<<chunkVars, answer, agentVars, serverVars, crawlVars, queryVars, sleepVars, textVars, otherVars>>
    /\ ServerFairness

-----------------------------------------------------------------------------
\* Sentences are parted at blanks only: their words, in order, are the words
\* of the text, whatever marks, list items and blank lines it has (chunker.rs
\* split_sentences).
SentencesKeepTheWords == SplitKeepsTheWords(sample.text)

\* Rendering elements and cleaning them gives their text back (crawl.rs
\* clean_html_to_markdown).
CleaningKeepsTheText == CleaningGivesBack(sample.page)

\* A reply with one array is read alike by the two planners (answer.rs
\* first_json_span, agent.rs extract_json_block).
PlannersReadAlike == ReadAlike(sample.reply)

\* Between the document and the answer no word, passage, call or place is lost
\* or counted twice.
NothingIsLostOnTheWay ==
    /\ SentencesKeepTheWords /\ ChunksKeepTheWords /\ BoundariesAscend /\ OnlyASentenceIsTooLong
    /\ FedAreTheBest /\ CitesAreFed /\ FieldHasEveryQuery /\ PlannersReadAlike
    /\ EveryCallIsAnswered /\ NoLineIsLost
    /\ WithinTheLimit /\ PlacesAreCounted /\ UpdatesFindTheirState
    /\ SavedIsThere /\ CleaningKeepsTheText
    /\ NoEpisodeTwice /\ LinkedIsOneHop /\ HopsAreAccounted /\ StandingIsShown
    /\ ProposalsAreHardened

\* Rounds, connections and sleep cycles go on without repeating themselves.
AgentsGoOn ==
    /\ RefinementsAreNew
    /\ NobodyIsKeptWaiting
    /\ CooldownsHold
=============================================================================
