-------------------------------- MODULE Chunker --------------------------------
(***************************************************************************)
(* The semantic chunker (ferricula-semantic chunker.rs): a text is split   *)
(* into sentences, boundaries are sampled, searched and optimised by the   *)
(* similarity of embeddings, and chunks above the size limit are split     *)
(* again.                                                                  *)
(*                                                                         *)
(* Two views of a text.  For split_sentences it is a sequence of           *)
(* characters, one for each class the code tells apart.  For the rest it   *)
(* is a sequence of sentences, each a sequence of words; a word has a      *)
(* weight in tokens.  Embeddings are not modelled: whether two texts are   *)
(* similar, and which of two cuts is the more coherent, is a choice.       *)
(***************************************************************************)
EXTENDS Naturals, SequencesExt

CONSTANTS
    Documents,          \* sequences of sentences, and the empty one
    TinyWords,          \* stands for the 100 bytes below which a text is not split
    MaxTokens,          \* config.max_chunk_tokens
    SampleCount,        \* config.sample_count
    Iterations          \* config.optimization_iterations

VARIABLES
    document,           \* sentences of the text to chunk
    cutting,            \* where the work is: phase, regions, boundaries, position
    chunks              \* what has been built so far

chunkVars == <<document, cutting, chunks>>

Space == {" ", "\n"}

\* is_double_newline, next_line_starts_boundary; "#" stands for the markers
\* of headings, lists and quotes.
DoubleNewline(s, i) == i < Len(s) /\ s[i + 1] = "\n"
AfterBlanks(s, i) ==
    LET stops == {j \in i..Len(s) : s[j] # " "}
    IN  IF stops = {} THEN Len(s) + 1 ELSE Min(stops)
LineStarts(s, i) ==
    LET j == AfterBlanks(s, i)
        k == Min({m \in (j + 1)..(Len(s) + 1) : m > Len(s) \/ s[m] # "1"})
    IN  \/ j > Len(s)
        \/ s[j] \in {"\n", "#"}
        \/ s[j] = "1" /\ k <= Len(s) /\ s[k] = "."

SentenceEnds(s, i) == s[i] = "." /\ (i = Len(s) \/ s[i + 1] \in Space)
LineEnds(s, i) == s[i] = "\n" /\ (DoubleNewline(s, i) \/ LineStarts(s, i + 1))

Trimmed(s) ==
    LET ink == {i \in DOMAIN s : s[i] \notin Space}
    IN  IF ink = {} THEN <<>> ELSE SubSeq(s, Min(ink), Max(ink))

\* push_sentence
Pushed(acc, s, from, to) ==
    LET t == Trimmed(SubSeq(s, from, to)) IN IF t = <<>> THEN acc ELSE Append(acc, t)

SplitSentences(s) ==
    LET Step(acc, i) ==
            CASE i < acc.at -> acc
              [] SentenceEnds(s, i) ->
                    [out |-> Pushed(acc.out, s, acc.at, i), at |-> i + 1]
              [] LineEnds(s, i) ->
                    [out |-> Pushed(acc.out, s, acc.at, i - 1), at |-> i]
              [] OTHER -> acc
        \* The blanks after a boundary are skipped; those before a sentence
        \* count for nothing, Trimmed drops them.
        end == FoldLeft(Step, [out |-> <<>>, at |-> 1], [i \in DOMAIN s |-> i])
    IN  IF end.at > Len(s) THEN end.out ELSE Pushed(end.out, s, end.at, Len(s))

\* split_whitespace
Words(s) ==
    LET starts == {i \in DOMAIN s : s[i] \notin Space /\ (i = 1 \/ s[i - 1] \in Space)}
        EndOf(i) == Min({j \in i..Len(s) : j = Len(s) \/ s[j + 1] \in Space})
    IN  [k \in 1..Cardinality(starts) |->
            LET i == CHOOSE j \in starts : Cardinality({m \in starts : m < j}) = k - 1
            IN  SubSeq(s, i, EndOf(i))]

-----------------------------------------------------------------------------
\* A sentence: its words, and whether it ends with a mark that still ends it
\* when it is joined to the next one.
Tokens(ws) == FoldLeft(LAMBDA n, w : n + w.tokens, 0, ws)
Flat(sentences) == FoldLeft(LAMBDA acc, s : acc \o s.words, <<>>, sentences)

\* split_sentences of sentences joined by blanks: only marks part them.
Resplit(sentences) ==
    FoldLeft(LAMBDA acc, s :
                IF acc = <<>> \/ Last(acc).ends THEN Append(acc, s)
                ELSE [acc EXCEPT ![Len(acc)] = [words |-> @.words \o s.words, ends |-> s.ends]],
             <<>>, sentences)

\* word_text_windows: a window is counted in words.
WordWindows(ws) ==
    [k \in 1..((Len(ws) + MaxTokens - 1) \div MaxTokens) |->
        SubSeq(ws, (k - 1) * MaxTokens + 1, IF k * MaxTokens < Len(ws) THEN k * MaxTokens ELSE Len(ws))]

\* sentence_text_windows: as many sentences as fit, at least one.
SentenceWindows(sentences) ==
    FoldLeft(LAMBDA acc, s :
                IF acc # <<>> /\ Tokens(Last(acc)) + Tokens(s.words) <= MaxTokens
                THEN [acc EXCEPT ![Len(acc)] = @ \o s.words]
                ELSE Append(acc, s.words),
             <<>>, sentences)

\* split_large_chunk
SplitLarge(sentences) ==
    LET again == Resplit(sentences)
    IN  IF Len(again) <= 1 THEN WordWindows(Flat(sentences)) ELSE SentenceWindows(again)

\* enforce_size_limits
Enforced(groups) ==
    FoldLeft(LAMBDA acc, g :
                IF Tokens(Flat(g)) <= MaxTokens THEN Append(acc, Flat(g)) ELSE acc \o SplitLarge(g),
             <<>>, groups)

-----------------------------------------------------------------------------
\* chunk: tiny texts are one chunk; texts of one or two sentences, and those
\* without a region, are not cut by similarity.
Begin ==
    /\ cutting.phase = "text"
    /\ CASE Len(Flat(document)) <= TinyWords ->
                /\ chunks' = <<Flat(document)>>
                /\ cutting' = [cutting EXCEPT !.phase = "done"]
         [] Len(Flat(document)) > TinyWords /\ Len(document) <= 1 ->
                /\ chunks' = WordWindows(Flat(document))
                /\ cutting' = [cutting EXCEPT !.phase = "done"]
         [] Len(Flat(document)) > TinyWords /\ Len(document) = 2 ->
                /\ chunks' = SentenceWindows(document)
                /\ cutting' = [cutting EXCEPT !.phase = "done"]
         [] OTHER -> cutting' = [cutting EXCEPT !.phase = "sample"] /\ UNCHANGED chunks
    /\ UNCHANGED document

\* monte_carlo_sample: regions around the positions that look like a change.
Positions ==
    LET step == Len(document) \div (SampleCount + 1)
    IN  SelectSeq([i \in 1..SampleCount |-> i * step], LAMBDA p : p > 0 /\ p < Len(document) - 1)
Region(p) == <<IF p < 3 THEN 0 ELSE p - 3, IF p + 3 < Len(document) THEN p + 3 ELSE Len(document)>>

Sample ==
    /\ cutting.phase = "sample"
    /\ \E changes \in SUBSET ToSet(Positions) :
        LET regions == IF Len(document) < 5 THEN <<>>
                       ELSE [k \in DOMAIN SelectSeq(Positions, LAMBDA p : p \in changes) |->
                                Region(SelectSeq(Positions, LAMBDA p : p \in changes)[k])]
        IN  IF regions = <<>>
            THEN /\ chunks' = SentenceWindows(document)
                 /\ cutting' = [cutting EXCEPT !.phase = "done"]
            ELSE /\ cutting' = [cutting EXCEPT !.phase = "search", !.regions = regions]
                 /\ UNCHANGED chunks
    /\ UNCHANGED document

\* chunk: boundaries ascend.
Ahead(bs, b) == IF b > Last(bs) THEN Append(bs, b) ELSE bs

\* binary_search_boundary: the least similar neighbours of the region, or its
\* start when all are alike.
SearchBoundary ==
    /\ cutting.phase = "search"
    /\ IF cutting.regions = <<>>
       THEN cutting' = [cutting EXCEPT !.phase = "optimise", !.bounds = Append(@, Len(document))]
       ELSE \E b \in Head(cutting.regions)[1]..(Head(cutting.regions)[2] - 1) :
                cutting' = [cutting EXCEPT !.regions = Tail(@), !.bounds = Ahead(@, b)]
    /\ UNCHANGED <<document, chunks>>

Moves(bs, i) == {p \in {bs[i] - 1, bs[i], bs[i] + 1} : p = bs[i] \/ (p > bs[i - 1] /\ p < bs[i + 1])}

\* optimize_boundaries: rounds over the inner boundaries, one at a time.
Optimise ==
    /\ cutting.phase = "optimise"
    /\ IF cutting.at >= Iterations * (Len(cutting.bounds) - 2)
       THEN cutting' = [cutting EXCEPT !.phase = "build"]
       ELSE LET i == 2 + (cutting.at % (Len(cutting.bounds) - 2))
            IN  \E p \in Moves(cutting.bounds, i) :
                    cutting' = [cutting EXCEPT !.bounds[i] = p, !.at = @ + 1]
    /\ UNCHANGED <<document, chunks>>

Groups ==
    [k \in 1..(Len(cutting.bounds) - 1) |-> SubSeq(document, cutting.bounds[k] + 1, cutting.bounds[k + 1])]

Build ==
    /\ cutting.phase = "build"
    /\ chunks' = Enforced(SelectSeq(Groups, LAMBDA g : g # <<>>))
    /\ cutting' = [cutting EXCEPT !.phase = "done"]
    /\ UNCHANGED document

ChunkInit ==
    /\ document \in Documents
    /\ cutting = [phase |-> IF document = <<>> THEN "idle" ELSE "text", regions |-> <<>>, bounds |-> <<0>>, at |-> 0]
    /\ chunks = <<>>

ChunkNext == Begin \/ Sample \/ SearchBoundary \/ Optimise \/ Build

-----------------------------------------------------------------------------
Glued(ss) == FoldLeft(LAMBDA acc, s : acc \o s, <<>>, ss)

\* Sentences are parted at blanks only: their words, in order, are the words
\* of the text, whatever marks, list items and blank lines it has.
SplitKeepsTheWords(s) ==
    LET parts == SplitSentences(s)
    IN  Glued([k \in DOMAIN parts |-> Words(parts[k])]) = Words(s)

\* Nothing is lost and nothing is said twice: the chunks hold the words of
\* the document in their order, whichever cuts sampling, search and
\* optimisation arrive at.
ChunksKeepTheWords == cutting.phase = "done" => Glued(chunks) = Flat(document)

\* Boundaries stay strictly ascending while they are searched and moved: no
\* cut swallows a section or is left empty.
BoundariesAscend ==
    \A k \in 1..(Len(cutting.bounds) - 1) : cutting.bounds[k] < cutting.bounds[k + 1]

\* The size limit holds but where the code gives up: a chunk above it is one
\* sentence, or a window of no more words than the limit has tokens.
OnlyASentenceIsTooLong ==
    cutting.phase = "done" =>
        \A k \in DOMAIN chunks :
            \/ Tokens(chunks[k]) <= MaxTokens
            \/ Len(chunks[k]) <= MaxTokens
            \/ \E i \in DOMAIN Resplit(document) : Resplit(document)[i].words = chunks[k]
            \/ \E i \in DOMAIN document : document[i].words = chunks[k]
            \/ \E i, j \in DOMAIN document : i <= j /\ ~(\E m \in i..(j - 1) : document[m].ends)
                    /\ Flat(SubSeq(document, i, j)) = chunks[k]
=============================================================================
