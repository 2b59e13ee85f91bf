-------------------------------- MODULE SearchAgents --------------------------------
(***************************************************************************)
(* `lume answer` (ferricula-search main.rs handle_answer, answer.rs): a    *)
(* model plans queries, their hits are united and streamed as a field of   *)
(* nodes (stream.rs), the model judges the passages and may ask for more,  *)
(* and at last answers with citations that are handed on as node ids.      *)
(*                                                                         *)
(* A query is a word and the case it is written in.  Hits(word) is what    *)
(* one retrieval returns, best first.  The model is a choice among Plans,  *)
(* Wishes and Replies; an empty one stands for a call that failed or whose *)
(* answer does not parse.  The dynamics that move the nodes are left out.  *)
(***************************************************************************)
EXTENDS Naturals, SequencesExt

CONSTANTS
    Questions,          \* queries a user may ask; none when nobody asks
    Plans, Wishes,      \* sequences of queries
    Replies,            \* answers, as sequences of characters
    Hits(_),            \* word -> sequence of [section, score]
    Width,              \* -k, candidates per query
    FeedLow, FeedHigh,  \* 10 and 20, the bounds of what the model is fed
    MaxRounds           \* --rounds

VARIABLE answer         \* the command: phase, queries, candidates, nodes, answer

Idle == [phase |-> "idle", queries |-> <<>>, cands |-> <<>>, nodes |-> <<>>, round |-> 1,
         used |-> <<>>, cites |-> <<>>]

Feed == IF Width < FeedLow THEN FeedLow ELSE IF Width > FeedHigh THEN FeedHigh ELSE Width

-----------------------------------------------------------------------------
\* retrieve_union: a section keeps the place of its first hit, its best score
\* and the queries that found it.
Joined(cands, hit, q) ==
    IF \E k \in DOMAIN cands : cands[k].section = hit.section
    THEN [k \in DOMAIN cands |->
            IF cands[k].section # hit.section THEN cands[k]
            ELSE [cands[k] EXCEPT !.score = IF hit.score > @ THEN hit.score ELSE @, !.members = @ \union {q}]]
    ELSE Append(cands, [section |-> hit.section, score |-> hit.score, members |-> {q}])

First(n, s) == SubSeq(s, 1, IF n < Len(s) THEN n ELSE Len(s))

Union(queries) ==
    FoldLeft(LAMBDA acc, q :
                FoldLeft(LAMBDA cs, h : Joined(cs, h, q), acc, First(Width, Hits(queries[q].word))),
             <<>>, [q \in DOMAIN queries |-> q])

\* The stable sort by score, best first.
Ranked(cands) ==
    LET Before(i, j) == cands[i].score > cands[j].score \/ (cands[i].score = cands[j].score /\ i < j)
    IN  [r \in DOMAIN cands |-> CHOOSE i \in DOMAIN cands : Cardinality({j \in DOMAIN cands : Before(j, i)}) = r - 1]

\* first_json_span, extract_json_block: from the first bracket to the one
\* that closes it, from the first to the last.
Closing(s, i) ==
    LET Depth(j) == Cardinality({m \in i..j : s[m] = "["}) - Cardinality({m \in i..j : s[m] = "]"})
    IN  {j \in i..Len(s) : s[j] = "]" /\ Depth(j) = 0}
Opening(s) == Min({i \in DOMAIN s : s[i] = "["})
FirstSpan(s) ==
    IF "[" \notin Range(s) \/ Closing(s, Opening(s)) = {} THEN <<>>
    ELSE SubSeq(s, Opening(s), Min(Closing(s, Opening(s))))
WholeBlock(s) ==
    IF {"[", "]"} \subseteq Range(s) /\ Max({j \in DOMAIN s : s[j] = "]"}) > Opening(s)
    THEN SubSeq(s, Opening(s), Max({j \in DOMAIN s : s[j] = "]"}))
    ELSE s

\* parse_citations
Digits == [d \in {"0", "1", "2", "3"} |-> CASE d = "0" -> 0 [] d = "1" -> 1 [] d = "2" -> 2 [] OTHER -> 3]
MarkEnds(text, i) ==
    {j \in (i + 2)..Len(text) :
        text[i] = "[" /\ text[j] = "]" /\ \A m \in (i + 1)..(j - 1) : text[m] \in DOMAIN Digits}
Number(text, i, j) == FoldLeft(LAMBDA n, d : 10 * n + Digits[d], 0, SubSeq(text, i + 1, j - 1))
Citations(text, n) ==
    FoldLeft(LAMBDA out, i :
                LET cited == IF MarkEnds(text, i) = {} THEN 0 ELSE Number(text, i, Max(MarkEnds(text, i)))
                IN  IF cited \in 1..n /\ cited \notin ToSet(out) THEN Append(out, cited) ELSE out,
             <<>>, [i \in DOMAIN text |-> i])

-----------------------------------------------------------------------------
\* plan_queries; without a plan the question is the query.
PlanAnswer ==
    /\ answer.phase = "plan"
    /\ \E plan \in Plans :
        answer' = [answer EXCEPT !.phase = "search", !.queries = IF plan = <<>> THEN @ ELSE plan]

\* run: the queries are nodes, then the candidates that could be embedded.
Nodes(queries, cands, lost) ==
    [q \in DOMAIN queries |-> <<"query", q>>]
    \o LET shown == SelectSeq(cands, LAMBDA c : c.section \notin lost)
       IN  [k \in DOMAIN shown |-> <<"section", shown[k].section>>]

Retrieve ==
    /\ answer.phase = "search"
    /\ \E cands \in {Union(answer.queries)} :
        IF cands = <<>>
        THEN answer' = [answer EXCEPT !.phase = "answer", !.cands = cands]
        ELSE \E lost \in SUBSET {cands[k].section : k \in DOMAIN cands} :
                IF \A k \in DOMAIN cands : cands[k].section \in lost
                THEN answer' = [answer EXCEPT !.phase = "failed"]
                ELSE answer' = [answer EXCEPT !.cands = cands, !.nodes = Nodes(answer.queries, cands, lost),
                                    !.phase = IF answer.round >= MaxRounds THEN "answer" ELSE "evaluate"]

\* eq_ignore_ascii_case against all that is there already.
Added(queries, wishes) ==
    FoldLeft(LAMBDA qs, w : IF \E k \in DOMAIN qs : qs[k].word = w.word THEN qs ELSE Append(qs, w), queries, wishes)

AfterRefining(round) == "search"

\* evaluate: passages that suffice, wishes already tried, and a call that
\* failed, all end the search.
Evaluate ==
    /\ answer.phase = "evaluate"
    /\ \E wishes \in Wishes, sufficient \in BOOLEAN :
        LET more == Added(answer.queries, wishes)
        IN  IF sufficient \/ more = answer.queries
            THEN answer' = [answer EXCEPT !.phase = "answer"]
            ELSE answer' = [answer EXCEPT !.phase = AfterRefining(answer.round), !.queries = more, !.round = @ + 1]

\* synthesize, parse_citations: markers become node ids, counted from 0.
Synthesize ==
    /\ answer.phase = "answer"
    /\ \E text \in Replies :
        LET fed == First(Feed, Ranked(answer.cands))
            Id(k) == Len(answer.queries) + fed[k] - 1
            cited == Citations(text, Len(fed))
        IN  answer' = [answer EXCEPT !.phase = "done", !.used = [k \in DOMAIN fed |-> Id(k)],
                                     !.cites = [k \in DOMAIN cited |-> Id(cited[k])]]

AnswerInit ==
    \E question \in Questions \union {<<>>} :
        answer = IF question = <<>> THEN Idle ELSE [Idle EXCEPT !.phase = "plan", !.queries = question]

AnswerNext == PlanAnswer \/ Retrieve \/ Evaluate \/ Synthesize

-----------------------------------------------------------------------------
\* What the model is shown is the best of what all rounds' queries found: a
\* passage it did not see scores no higher than one it did.
FedAreTheBest ==
    answer.phase = "done" =>
        LET fed == {answer.used[k] - Len(answer.queries) + 1 : k \in DOMAIN answer.used}
        IN  /\ Cardinality(fed) = Len(answer.used)
            /\ \A i \in fed, j \in DOMAIN answer.cands \ fed : answer.cands[i].score >= answer.cands[j].score

\* A citation is of a passage the model was fed, and each passage is cited
\* once, however often and however wildly the answer refers to it.
CitesAreFed ==
    /\ ToSet(answer.cites) \subseteq ToSet(answer.used)
    /\ \A i, j \in DOMAIN answer.cites : answer.cites[i] = answer.cites[j] => i = j

\* Ids in the answer start after the queries, so the last field that was
\* streamed must have had a node for every query, those of a refinement too.
FieldHasEveryQuery ==
    answer.phase \in {"answer", "done"} /\ answer.nodes # <<>> =>
        Cardinality({i \in DOMAIN answer.nodes : answer.nodes[i][1] = "query"}) = Len(answer.queries)

\* A refinement asks nothing that was asked before, in whatever case.
RefinementsAreNew ==
    [][answer'.round > answer.round =>
        /\ Len(answer'.queries) > Len(answer.queries)
        /\ \A k \in (Len(answer.queries) + 1)..Len(answer'.queries), m \in DOMAIN answer'.queries :
                k # m => answer'.queries[k].word # answer'.queries[m].word]_answer

\* A reply with one array is read alike by the planners of `lume answer` and
\* `lume summarize`.
ReadAlike(s) ==
    ("[" \in Range(s) /\ Closing(s, Opening(s)) = {Max({j \in DOMAIN s : s[j] \in {"[", "]"}})})
        => WholeBlock(s) = FirstSpan(s)

-----------------------------------------------------------------------------
(***************************************************************************)
(* The agents of ferricula-search agent.rs that drive the index with a     *)
(* model: run_agent_loop, which lets the model call tools for a number of  *)
(* turns, and summarize_document, which plans queries, gathers the         *)
(* snippets they print and has them summarised.                            *)
(*                                                                         *)
(* What the model says is a choice.  Of the tools only what they do to the *)
(* index matters: `lume_index` makes or updates it, `lume_search` needs it.*)
(* A line of a snippet is a value; one that begins with a bracket and has  *)
(* "Score:" in it is <<"score", n>>, like the lines that head the hits.    *)
(***************************************************************************)

CONSTANTS
    Tasks,              \* what is asked: "none", "agent" or "summary"
    Calls,              \* sequences of tool calls a turn may make
    MaxTurns,           \* 10
    CachedFiles,          \* cached files, in order
    Sections(_),        \* file -> how many sections it has
    Targets,            \* files a user may name
    QueryPlans,         \* sequences of queries
    Prints(_)           \* query -> sequence of hits, each [file, lines]

VARIABLES
    task,               \* the command and where it is
    talk,               \* the messages so far: role, and what it answers
    pending,            \* tool calls of this turn still to be executed
    indexed,            \* state.json exists
    summary             \* the file, the plan, how far it has been asked, the snippets

agentVars == <<task, talk, pending, indexed, summary>>

NoSummary == [file |-> "none", plan |-> <<>>, asked |-> 0, snippets |-> {}]
System == [role |-> "system", of |-> "prompt"]
User == [role |-> "user", of |-> "question"]

-----------------------------------------------------------------------------
\* execute_tool_by_name: [name, db, dir, force, ok]; ok is whether the
\* command line succeeds when it is run.
UpdatesIndex(call, exists) == exists /\ ~call.force
Runs(call, exists) ==
    CASE call.name = "lume_index" -> UpdatesIndex(call, exists) \/ call.dir
      [] call.name = "lume_search" -> call.query
      [] OTHER -> FALSE
Done(call, exists) == Runs(call, exists) /\ call.ok /\ (call.name = "lume_search" => exists)
Result(call, exists) ==
    CASE call.name = "lume_not_found" -> "guidance"
      [] call.name # "lume_not_found" /\ Done(call, exists) -> "output"
      [] OTHER -> "error"

Ask(calls, text) ==
    /\ task.phase = "ask"
    /\ talk' = Append(talk, [role |-> "assistant", of |-> calls])
    /\ pending' = calls
    /\ task' = [task EXCEPT !.turn = @ + 1,
                            !.phase = CASE calls # <<>> -> "execute"
                                        [] calls = <<>> /\ text -> "answered"
                                        [] OTHER -> IF task.turn + 1 >= MaxTurns THEN "exceeded" ELSE "ask"]
    /\ UNCHANGED <<indexed, summary>>

\* "Error executing tool: ..." is a result like any other.
Heard(call, result) == Append(talk, [role |-> "tool", of |-> call])

ExecuteCall ==
    /\ task.phase = "execute"
    /\ LET call == Head(pending)
           result == Result(call, indexed)
       IN  /\ talk' = Heard(call, result)
           /\ indexed' = (indexed \/ (call.name = "lume_index" /\ result = "output"))
    /\ pending' = Tail(pending)
    /\ task' = [task EXCEPT !.phase = IF Len(pending) > 1 THEN "execute"
                                      ELSE IF task.turn >= MaxTurns THEN "exceeded" ELSE "ask"]
    /\ UNCHANGED summary

\* The model cannot be reached, or answers with an error: the loop ends.
Fails ==
    /\ task.phase \in {"ask", "plan", "synthesize"}
    /\ task' = [task EXCEPT !.phase = "failed"]
    /\ UNCHANGED <<talk, pending, indexed, summary>>

-----------------------------------------------------------------------------
\* summarize_document: the file named, or the one with most sections.
Largest ==
    CHOOSE f \in ToSet(CachedFiles) :
        \A k \in DOMAIN CachedFiles :
            \/ Sections(CachedFiles[k]) < Sections(f)
            \/ Sections(CachedFiles[k]) = Sections(f) /\ \E j \in 1..k : CachedFiles[j] = f

Select ==
    /\ task.phase = "select"
    /\ IF ~indexed \/ CachedFiles = <<>> \/ (task.target # "none" /\ task.target \notin ToSet(CachedFiles))
       THEN task' = [task EXCEPT !.phase = "failed"] /\ UNCHANGED summary
       ELSE /\ task' = [task EXCEPT !.phase = "plan"]
            /\ summary' = [summary EXCEPT !.file = IF task.target = "none" THEN Largest ELSE task.target]
    /\ UNCHANGED <<talk, pending, indexed>>

PlanQueries(queries) ==
    /\ task.phase = "plan"
    /\ task' = [task EXCEPT !.phase = "search"]
    /\ summary' = [summary EXCEPT !.plan = queries]
    /\ UNCHANGED <<talk, pending, indexed>>

IsHeading(line) == line[1] = "score"
\* What a search prints: a line that heads each hit, then its lines.
Printed(q) == FoldLeft(LAMBDA acc, hit : Append(acc, <<"score", hit.file>>) \o hit.lines, <<>>, Prints(q))

\* The snippets between the headings; an empty one is none.
Gathered(lines) ==
    LET at == SelectSeq([i \in DOMAIN lines |-> i], LAMBDA i : IsHeading(lines[i]))
        End(k) == IF k = Len(at) THEN Len(lines) ELSE at[k + 1] - 1
    IN  {SubSeq(lines, at[k] + 1, End(k)) : k \in DOMAIN at} \ {<<>>}

SearchOne ==
    /\ task.phase = "search" /\ summary.asked < Len(summary.plan)
    /\ \E ok \in BOOLEAN :
        IF ok THEN /\ summary' = [summary EXCEPT !.asked = @ + 1, !.snippets = @ \union Gathered(Printed(summary.plan[summary.asked + 1]))]
                   /\ UNCHANGED task
              ELSE task' = [task EXCEPT !.phase = "failed"] /\ UNCHANGED summary
    /\ UNCHANGED <<talk, pending, indexed>>

Searched ==
    /\ task.phase = "search" /\ summary.asked = Len(summary.plan)
    /\ task' = [task EXCEPT !.phase = IF summary.snippets = {} THEN "nothing" ELSE "synthesize"]
    /\ UNCHANGED <<talk, pending, indexed, summary>>

Synthesized ==
    /\ task.phase = "synthesize"
    /\ task' = [task EXCEPT !.phase = "answered"]
    /\ UNCHANGED <<talk, pending, indexed, summary>>

AgentInit ==
    /\ \E kind \in Tasks :
       \E target \in IF kind = "summary" THEN Targets \union {"none"} ELSE {"none"},
          exists \in IF kind = "none" THEN {FALSE} ELSE BOOLEAN :
        /\ task = [kind |-> kind, turn |-> 0, target |-> target,
                   phase |-> CASE kind = "agent" -> "ask" [] kind = "summary" -> "select" [] OTHER -> "idle"]
        /\ indexed = exists
    /\ talk = IF task.kind = "agent" THEN <<System, User>> ELSE <<>>
    /\ pending = <<>>
    /\ summary = NoSummary

AgentNext ==
    \/ \E calls \in Calls, text \in BOOLEAN : Ask(calls, text)
    \/ ExecuteCall
    \/ Fails
    \/ Select
    \/ \E queries \in QueryPlans : PlanQueries(queries)
    \/ SearchOne
    \/ Searched
    \/ Synthesized

-----------------------------------------------------------------------------
\* The model never speaks over a call it made: when it is asked again, every
\* call of its last message has its result behind it, in order, and also the
\* calls that failed.
EveryCallIsAnswered ==
    task.phase = "ask" =>
        \A k \in DOMAIN talk : talk[k].role = "assistant" =>
            \A j \in DOMAIN talk[k].of :
                k + j \in DOMAIN talk /\ talk[k + j] = [role |-> "tool", of |-> talk[k].of[j]]

\* The passages a summary is made of are what the searches printed: every
\* line of every hit of every query, however often it was found, unless the
\* line itself looks like the heading of a hit.
NoLineIsLost ==
    task.phase = "synthesize" =>
        \A q \in ToSet(summary.plan) : \A k \in DOMAIN Prints(q) : \A j \in DOMAIN Prints(q)[k].lines :
            LET line == Prints(q)[k].lines[j]
            IN  IsHeading(line) \/ \E s \in summary.snippets : line \in ToSet(s)
=============================================================================
