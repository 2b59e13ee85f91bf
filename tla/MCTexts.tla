------------------------------ MODULE MCTexts ------------------------------
(* One state per case: an algorithm and its input, then its output.        *)
EXTENDS Retrieval
VARIABLES case, output
textVars == <<case, output>>

Content == {<<"c">>}

StringsOf(set, n) == UNION {[1..k -> set] : k \in 0..n}

-----------------------------------------------------------------------------
(* Patterns: one or two factors, joined or alternative, repeated.  A case   *)
(* has the pattern as it is written and the tree of what it means.          *)
LeafTree(set) == [op |-> "leaf", accepts |-> set]
Bases == {<< <<"a">>, LeafTree({"a"})>>, << <<".">>, LeafTree(Wildcard)>>, << <<"[", "^", "a", "-", "b", "]">>, LeafTree(AllChars \ {"a", "b"})>>,
          << <<"(", "b", "|", "a", "b", ")">>, [op |-> "alternate", left |-> LeafTree({"b"}),
              right |-> [op |-> "concat", left |-> LeafTree({"a"}), right |-> LeafTree({"b"})]]>>}
Quantifiers == {<< <<>>, 1, 1>>, << <<"*">>, 0, 9>>, << <<"?">>, 0, 1>>, << <<"+">>, 1, 9>>, << <<"{", "2", "}">>, 2, 2>>,
                << <<"{", "1", ",", "2", "}">>, 1, 2>>, << <<"{", "1", ",", "}">>, 1, 9>>}
Repeated(tree, q) == [op |-> "repeat", of |-> tree, min |-> q[2], max |-> q[3]]
Factors == {<<b[1] \o q[1], Repeated(b[2], q)>> : b \in Bases, q \in Quantifiers}
Paired(f, g, sign) == <<f[1] \o sign \o g[1], [op |-> IF sign = <<>> THEN "concat" ELSE "alternate",
                                               left |-> f[2], right |-> g[2]]>>
Grouped(p, q) == << <<"(">> \o p[1] \o <<")">> \o q[1], Repeated(p[2], q)>>
RegexTexts == StringsOf({"a", "b"}, 3) \cup {<<"c", "a", "c">>, <<"a", "\n">>}

NfaOf(pattern) == CompileAst(Parse(pattern).tree, 0)
RegexCase == \E f \in Factors, g \in Factors, sign \in {<<>>, <<"|">>}, q \in {r \in Quantifiers : r[2] = 0 \/ r[3] = 1} :
               case = [kind |-> "regex", pattern |-> Grouped(Paired(f, g, sign), q)]
RunRegex == /\ case.kind = "regex" /\ output = {} /\ UNCHANGED case
            /\ \E nfa \in {NfaOf(case.pattern[1])} : output' = {[t \in RegexTexts |-> Matches(nfa, t)]}
(* The automaton of a pattern finds, from every position, the longest word the *)
(* pattern stands for: parser, construction and active sets together agree with *)
(* the meaning of the pattern (Nfa::compile, Nfa::matches).                 *)
MatchesAreLongest == case.kind = "regex" /\ output # {} => output = {[t \in RegexTexts |-> LongestSpans(case.pattern[2], t)]}

TypoCase == \E term \in StringsOf({"a", "b"}, 3) \ {<<>>} : case = [kind |-> "typo", term |-> term]
Misspelt == StringsOf({"a", "b", "c"}, 4) \ {<<>>}
RunTypo == /\ case.kind = "typo" /\ output = {} /\ UNCHANGED case
           /\ \E nfa \in {NfaOf(LevenshteinRegex(case.term))} : output' = {{w \in Misspelt : <<0, Len(w)>> \in Matches(nfa, w)}}
(* The pattern generated for a term accepts the words one deletion, insertion, *)
(* substitution or swap of neighbours away, and no other (levenshtein_regex). *)
OneEditIsFound == case.kind = "typo" /\ output # {} => output = {{w \in Misspelt : OneEdit(case.term, w)}}

-----------------------------------------------------------------------------
(* The tagger: dictionaries with phrases that share tokens and with regex   *)
(* entries; spellings of a phrase inside a text; pieces of a text.          *)
Entry(phrase, id) == [phrase |-> phrase, id |-> id]
Dictionaries == {{Entry(<<"a">>, 1), Entry(<<"a", " ", "b">>, 2), Entry(<<"b", " ", "a'">>, 3), Entry(<<"b", "b">>, 4)},
                 {Entry(<<"a", "-", "b">>, 1), Entry(<<"ab'">>, 2), Entry(<<"b", "*">>, 3), Entry(<<"b", " ", "a">>, 4)}}
TagCase == \E d \in Dictionaries, t \in StringsOf({"a", "b", " ", "-", "a'"}, 4) : case = [kind |-> "tags", entries |-> d, text |-> t]
RunTags == /\ case.kind = "tags" /\ output = {} /\ UNCHANGED case
           /\ output' = {[all |-> AllTags(case.entries, case.text), kept |-> TagText(case.entries, case.text)]}
(* Among overlapping tags of a text the kept ones are apart, and each dropped one *)
(* lost to a kept one that began earlier or was longer (resolve_longest_only). *)
LongerTagWins == case.kind = "tags" => \A o \in output : LongestOfEach(o.kept, o.all)

IsWord(w) == w # <<>> /\ Fold(w[1]) # <<>> /\ Fold(w[Len(w)]) # <<>>
SpelledWords == {w \in StringsOf({"a", "A", "b", "a'", "ab'", "--"}, 3) : IsWord(w)}
SpelledPairs == {u \o <<" ">> \o w : u, w \in {<<"a">>, <<"a'">>, <<"A", "-", "b">>}}
PhraseCase == \E p, w \in SpelledWords \cup SpelledPairs : Plain(p) = Plain(w) /\ case = [kind |-> "phrase", phrase |-> p, spelling |-> w]
RunPhrase == /\ case.kind = "phrase" /\ output = {} /\ UNCHANGED case
             /\ output' = {TagText({Entry(case.phrase, 1)}, <<"b", " ">> \o case.spelling \o <<" ", "x1">>)}
IsTagged == Tag(<<2, 2 + Len(case.spelling)>>, 1) \in UNION output
(* A dictionary word is found in a text under every spelling that differs by *)
(* case, accents and hyphens: the two tokenizers, one for keys and one for texts, *)
(* agree (normalize_key, tokenize).                                         *)
SpellingIsTagged == case.kind = "phrase" /\ output # {} /\ case.phrase \in SpelledWords => IsTagged
PieceCase == \E t \in StringsOf({"a", "x1", "x2", " ", "-", "a'"}, 4) : \E i, j \in {k \in 0..Len(t) : Cut(t, k)} :
               i < j /\ case = [kind |-> "piece", text |-> t, from |-> i, to |-> j]
RunPiece == /\ case.kind = "piece" /\ output = {} /\ UNCHANGED case
            /\ output' = {ToSet(TokenWords(Tokenize(SubSeq(case.text, case.from + 1, case.to)))) \ ToSet(TokenWords(Tokenize(case.text)))}
(* A piece of a text, cut where no word is split, has no word the text does not *)
(* have: what is indexed of a section finds whatever query is copied from it *)
(* (tokenize, with the pairs of neighbouring ideographs).                   *)
PieceHasNoOtherWord == case.kind = "piece" => UNION output = {}

Quoted(cell) == <<"q">> \o FlattenSeq([k \in DOMAIN cell |-> IF cell[k] = "q" THEN <<"q", "q">> ELSE <<cell[k]>>]) \o <<"q">>
CsvCase == \E a, b \in StringsOf({"x", "q", ","}, 3) : case = [kind |-> "csv", cells |-> <<a, b>>]
RunCsv == /\ case.kind = "csv" /\ output = {} /\ UNCHANGED case
          /\ output' = {ParseCsvLine(Quoted(case.cells[1]) \o <<",">> \o Quoted(case.cells[2]))}
(* Cells written with quotes, inner quotes doubled, are read back as they were, *)
(* with their commas (parse_csv_line).                                      *)
QuotedCellsAreRead == case.kind = "csv" /\ output # {} => output = {case.cells}

-----------------------------------------------------------------------------
(* The filters: two bitmaps built in any order, and a filter with its tags. *)
RoaringCase == \E a \in StringsOf({0, 1, 2, 5}, 3), b \in SUBSET (0..5) : case = [kind |-> "roaring", a |-> a, b |-> b]
RunRoaring == /\ case.kind = "roaring" /\ output = {} /\ UNCHANGED case
              /\ LET a == FoldLeft(InsertId, EmptyRoaring, case.a)
                     b == FoldLeft(InsertId, EmptyRoaring, Ascending(case.b))
                 IN output' = {[meet |-> Ids(Intersect(a, b)), join |-> Ids(Unite(a, b)), count |-> IntersectionCount(a, b),
                                union |-> UnionCount(a, b), holds |-> {id \in 0..7 : ContainsId(Unite(a, b), id)}]}
(* Whatever the order of insertion and the kind of its containers, a bitmap is a *)
(* set: meeting, joining, counting and membership agree with the sets (MiniRoaring). *)
BitmapsAreSets == case.kind = "roaring" => \A o \in output :
  LET a == ToSet(case.a)
  IN /\ o.meet = Ascending(a \cap case.b) /\ o.join = Ascending(a \cup case.b) /\ o.holds = a \cup case.b
     /\ o.count = Cardinality(a \cap case.b) /\ o.union = Cardinality(a \cup case.b)

FilterCase == \E tags \in StringsOf(1..4, 3), hashes \in SUBSET {0, 5, 6, 9, 15} : case = [kind |-> "filter", tags |-> tags, hashes |-> hashes]
RunFilter == /\ case.kind = "filter" /\ output = {} /\ UNCHANGED case
             /\ \E f \in {FoldLeft(AddTagPrime, FoldLeft(AddTerm, NewFilter, Ascending(case.hashes)),
                                     [k \in DOMAIN case.tags |-> NthPrime(case.tags[k])])} :
                  output' = {[tags |-> {n \in 1..20 : TestTagPrime(f, NthPrime(n))}, terms |-> {h \in 0..15 : TestTerm(f, h)}]}
(* A section's filter lets through each of its terms and tags; its tags are exact *)
(* until the product overflows its width, and then it lets everything through *)
(* (PrimeFilter).                                                           *)
FilterNeverRejectsAMember == case.kind = "filter" => \A o \in output :
  /\ case.hashes \subseteq o.terms
  /\ ToSet(case.tags) \subseteq o.tags
  /\ o.tags \in {ToSet(case.tags), 1..20}

-----------------------------------------------------------------------------
(* The lexical index.                                                      *)
MarkdownCase == \E lines \in StringsOf({Line("heading", 1), Line("bare", 1), Line("text", 1), Line("text", 2)}, 5) :
                  case = [kind |-> "markdown", lines |-> lines]
RunMarkdown == /\ case.kind = "markdown" /\ output = {} /\ UNCHANGED case
               /\ output' = {ParseMarkdown(case.lines)}
HeadingAbove(lines, k) == LET heads == {h \in 1..k : lines[h].kind = "heading"} IN IF heads = {} THEN 1 ELSE Max(heads)
UnderHeading(lines, h) == {k \in DOMAIN lines : lines[k].kind # "heading" /\ HeadingAbove(lines, k) = h}
(* The sections of a text are its headings with the lines under them, the text *)
(* before the first heading included, that are long enough; a heading without *)
(* words is a line like any other (parse_markdown).                         *)
LongSections == case.kind = "markdown" => \A o \in output :
  {<<o[k].from, ToSet(o[k].lines)>> : k \in DOMAIN o} =
  {<<h, UnderHeading(case.lines, h)>> : h \in {i \in DOMAIN case.lines :
     FoldSet(LAMBDA k, n : n + case.lines[k].length, 0, UnderHeading(case.lines, i)) > KeepLength}}

IndexEntries == {Entry(<<"a">>, 1), Entry(<<"b">>, 2), Entry(<<"b", " ", "c">>, 3)}
Titles == {<<>>, <<"a">>, <<"b">>}
Bodies == {<<"c">>, <<"a", " ", "b">>, <<"b", " ", "c">>, <<"1", " ", "a">>}
Queries == {<<"a">>, <<"b", " ", "c">>, <<"c">>, <<"A", " ", "2">>, <<"1", " ", "c">>, <<"b", " ", "a">>}
SearchCase == \E t, u \in Titles, b, c \in Bodies, q \in Queries :
                case = [kind |-> "search", sections |-> <<[title |-> t, body |-> b], [title |-> u, body |-> c]>>, query |-> q]
RunSearch == /\ case.kind = "search" /\ output = {} /\ UNCHANGED case
             /\ \E index \in {BuildIndex(IndexEntries, case.sections)} :
                 output' = {[hits |-> Search(IndexEntries, index, case.query),
                             overflowed |-> {d \in DOMAIN index.docs : index.docs[d].filter.signature = 0}]}
Reached == {d \in DOMAIN case.sections :
              /\ \E w \in AsksFor(case.query) : Holds(case.sections[d], w)
              /\ IsTaggedAs(IndexEntries, case.sections[d], Tags(IndexEntries, case.query))}
WordsHeld(d) == Cardinality({w \in AsksFor(case.query) : Holds(case.sections[d], w)})
(* The two filters in front of the ranking change no answer: the hits of a query *)
(* are the sections that hold one of its words and every tag of it, unless the *)
(* product of a section's primes overflowed, which only lets more through; a hit *)
(* is weighed by how many of the query's words it holds (Bm25Index::search). *)
HitsAreTheTagged == case.kind = "search" => \A o \in output : \E reached \in {Reached} :
  /\ reached \subseteq DOMAIN o.hits
  /\ DOMAIN o.hits \subseteq reached \cup o.overflowed
  /\ \A d \in reached : o.hits[d] = Cardinality(AsksFor(case.query)) + WordsHeld(d)

-----------------------------------------------------------------------------
(* Spelling: a known word, what was typed, and what is suggested for it.    *)
SpellCase == \E w \in [1..4 -> {"a", "b"}], t \in StringsOf({"a", "b"}, 5) : case = [kind |-> "spell", word |-> w, typed |-> t]
RunSpell == /\ case.kind = "spell" /\ output = {} /\ UNCHANGED case
            /\ \E index \in {SpellIndex({case.word, <<"a">>, <<"1", "2">>})} :
                 output' = {[of |-> Suggestions(index, case.typed), queries |-> CorrectedQueries(index, <<case.typed>>)]}
(* A known word of four letters one edit away from what was typed is among the *)
(* suggestions, nothing further than two edits is, and a known word stays as it    *)
(* is (correct_word, correct_query).                                        *)
NearWordIsSuggested == case.kind = "spell" => \A o \in output :
  /\ Distance(case.typed, case.word) <= 1 => case.word \in o.of
  /\ \A w \in o.of : Distance(case.typed, w) <= 2
  /\ case.word = case.typed => o.queries = {<<case.word>>}

(* The glossary: pairs that share words, meanings and code terms.           *)
Pair(pali, meaning, codes) == [pali |-> pali, meaning |-> meaning, codes |-> codes]
Glossaries == {<<Pair("p", <<"m">>, <<c1, c2>>), Pair(r, n, <<c3>>)>> :
                 r \in {"q", "m"}, n \in {<<"m">>, <<"n">>}, c1 \in {<<"x">>, <<"x", "y">>}, c2 \in {<<"y">>, <<"q">>}, c3 \in {<<"x">>, <<"y", "x">>}}
ExpandCase == \E g \in Glossaries, w \in StringsOf({"p", "q", "m", "n", "x", "y"}, 3), on \in BOOLEAN : case = [kind |-> "expand", glossary |-> g, words |-> w, on |-> on]
RunExpand == /\ case.kind = "expand" /\ output = {} /\ UNCHANGED case
             /\ output' = {TermsAdded(case.glossary, case.words, case.on)}
IsAsked(phrase) == \E i, j \in DOMAIN case.words : i <= j /\ SubSeq(case.words, i, j) = phrase
(* A query that names the code term of a pair gains the pair's word, one that *)
(* names the word gains its code terms and meaning, each term once (expand_query). *)
BothVocabulariesMeet == case.kind = "expand" => \A o \in output :
  /\ Cardinality(ToSet(o)) = Len(o)
  /\ case.on => \A k \in DOMAIN case.glossary : LET pair == case.glossary[k] IN
       /\ (\E c \in ToSet(pair.codes) : IsAsked(c)) => <<pair.pali>> \o pair.meaning \in ToSet(o)
       /\ IsAsked(<<pair.pali>>) => ToSet(pair.codes) \cup {pair.meaning} \subseteq ToSet(o)

-----------------------------------------------------------------------------
(* Rankings: fusion, the entity graph, the walk and its boost, the gate.    *)
FuseIds == {"s", "t", "u", "v"}
Rankings == {s \in StringsOf(FuseIds, 3) : IsInjective(s)}
FuseCase == \E a, b \in Rankings, tagged \in SUBSET {"s", "t"} : case = [kind |-> "fuse", lexical |-> a, semantic |-> b, tagged |-> tagged]
RunFuse == /\ case.kind = "fuse" /\ output = {} /\ UNCHANGED case
           /\ output' = {[id \in FuseIds |-> Fused(case.lexical, case.semantic, case.tagged, id)]}
NotAfter(ranking, a, b) == b \notin ToSet(ranking) \/ \E i, j \in DOMAIN ranking : i < j /\ ranking[i] = a /\ ranking[j] = b
(* When neither ranking puts one result before another and only the other has a *)
(* tag, fusion does not either (reciprocal_rank_fusion).                    *)
FusionKeepsAgreement == case.kind = "fuse" => \A o \in output : \A a, b \in FuseIds :
  NotAfter(case.lexical, a, b) /\ NotAfter(case.semantic, a, b) /\ (b \in case.tagged => a \in case.tagged) => o[a] >= o[b]

Entities == 1..3
EdgeCase == \E p \in [Entities -> SUBSET (1..3)], num \in 0..3 : case = [kind |-> "edges", postings |-> p, num |-> num]
RunEdges == /\ case.kind = "edges" /\ output = {} /\ UNCHANGED case
            /\ output' = {Edges(case.postings, case.num, 4, 3)}
(* The shortcut that skips pairs by their counts loses no edge: two entities are *)
(* joined exactly if the quotient of common sections reaches the threshold; an *)
(* entity that is everywhere is related to nothing (EntityGraph::build).    *)
EdgesAreTheSimilar == case.kind = "edges" => \A o \in output :
  /\ {x.pair : x \in o} = {p \in Pairs(case.postings) :
        LET both == case.postings[p[1]] \cap case.postings[p[2]]
        IN both # {} /\ 4 * Cardinality(both) >= case.num * Cardinality(case.postings[p[1]] \cup case.postings[p[2]])}
  /\ \A x \in o : \E e \in {1, 2} : case.postings[x.pair[e]] = 1..3 => x.sign = 0

Names == {<<"a">>, <<"b">>, <<"a", "b">>, <<"b", "b", "a">>}
SeedCase == \E w \in StringsOf({"a", "b", "c"}, 5), n \in SUBSET Names, most \in {2, 3} : case = [kind |-> "seeds", words |-> w, names |-> n, most |-> most]
RunSeeds == /\ case.kind = "seeds" /\ output = {} /\ UNCHANGED case
            /\ output' = {SeedsFrom(case.names, case.words, 1, case.most)}
NamedAt(i, n) == i + n - 1 <= Len(case.words) /\ SubSeq(case.words, i, i + n - 1) \in case.names
(* A name of an entity in a query is recognised unless an earlier or longer name *)
(* took its words, and that one is recognised (resolve_query_entities).     *)
LongestNameWins == case.kind = "seeds" => \A o \in output :
  \A i \in DOMAIN case.words, n \in 1..case.most : NamedAt(i, n) =>
    \E j \in 1..i, m \in 1..case.most :
       /\ NamedAt(j, m) /\ j + m > i
       /\ SubSeq(case.words, j, j + m - 1) \in o
       /\ j = i => m >= n

Edge(a, b, weight) == [a |-> a, b |-> b, weight |-> weight]
GraphCase == \E w12, w23 \in {0, 1, 8}, w13 \in {0, 4}, seeds \in SUBSET Entities, p \in [Entities -> {{}, {1}, {2, 3}}],
                scores \in {<<0, 1>>, <<3, 1>>, <<1, 3>>}, topK \in {1, 2} :
                  case = [kind |-> "graph", edges |-> {Edge(1, 2, w12), Edge(1, 3, w13), Edge(2, 3, w23)}, seeds |-> seeds,
                          postings |-> p, scores |-> scores, topK |-> topK]
HitsOf == [s \in {i \in 1..2 : case.scores[i] > 0} |-> case.scores[s]]
RunGraph == /\ case.kind = "graph" /\ output = {} /\ UNCHANGED case
            /\ \E w \in {Weights(case.edges, case.seeds, 1, case.topK)} : \E m \in {Masses(case.postings, w)} :
                 output' = {[weights |-> w, mass |-> m, boosted |-> Boosted(HitsOf, m)]}
MassOf(o, s) == IF s \in DOMAIN o.mass THEN o.mass[s] ELSE 0
(* The walk gives a neighbour at most half the weight of a seed, however many *)
(* seeds reach it; the boost drops no hit, lets no hit overtake one that is ahead *)
(* in score and weight, and adds only sections of reached entities          *)
(* (compute_skg_scores, apply_skg_boost).                                   *)
BoostKeepsTheHits == case.kind = "graph" => \A o \in output :
  /\ \A e \in DOMAIN o.weights \ case.seeds : 2 * o.weights[e] <= Seed
  /\ DOMAIN HitsOf \subseteq DOMAIN o.boosted
  /\ \A s, t \in DOMAIN HitsOf : HitsOf[s] >= HitsOf[t] /\ MassOf(o, s) >= MassOf(o, t) => o.boosted[s] >= o.boosted[t]
  /\ \A s \in DOMAIN o.boosted \ DOMAIN HitsOf : \E e \in Entities : s \in case.postings[e] /\ e \in DOMAIN o.weights

Verdicts == [judged : BOOLEAN, answers : 0..1, relevance : {0, 3}]
GateCase == \E n \in 0..3, topN \in 0..3 : \E v \in [1..n -> Verdicts] : case = [kind |-> "gate", verdicts |-> v, topN |-> topN]
RunGate == /\ case.kind = "gate" /\ output = {} /\ UNCHANGED case
           /\ output' = {RerankHits(case.verdicts, case.topN)}
Position(o, k) == CHOOSE i \in DOMAIN o : o[i] = k
(* Reranking keeps every hit once; a hit moves ahead of another only if the gate *)
(* judged it, and never ahead of one that answers the query better (rerank_hits). *)
GateLosesNoHit == case.kind = "gate" => \A o \in output :
  /\ ToSet(o) = DOMAIN case.verdicts /\ Len(o) = Len(case.verdicts)
  /\ \A j, k \in DOMAIN case.verdicts : j < k /\ Position(o, k) < Position(o, j) =>
       /\ k <= case.topN /\ case.verdicts[k].judged
       /\ case.verdicts[j].judged => case.verdicts[k].answers >= case.verdicts[j].answers

-----------------------------------------------------------------------------
TextsInit == output = {} /\ (\/ RegexCase \/ TypoCase \/ TagCase \/ PhraseCase \/ PieceCase \/ CsvCase
                             \/ RoaringCase \/ FilterCase \/ MarkdownCase \/ SearchCase \/ SpellCase \/ ExpandCase
                             \/ FuseCase \/ EdgeCase \/ SeedCase \/ GraphCase \/ GateCase)
TextsNext == \/ RunRegex \/ RunTypo \/ RunTags \/ RunPhrase \/ RunPiece \/ RunCsv
             \/ RunRoaring \/ RunFilter \/ RunMarkdown \/ RunSearch \/ RunSpell \/ RunExpand
             \/ RunFuse \/ RunEdges \/ RunSeeds \/ RunGraph \/ RunGate

\* The algorithms that read and rank texts meet their reference: tags, words,
\* cells, sets, filters and sections; and search, spelling, glossary, fusion,
\* entity graph and gate lose no hit and invert no order they agree on.
TextsAreRead ==
    /\ MatchesAreLongest
    /\ OneEditIsFound
    /\ LongerTagWins
    /\ SpellingIsTagged
    /\ PieceHasNoOtherWord
    /\ QuotedCellsAreRead
    /\ BitmapsAreSets
    /\ FilterNeverRejectsAMember
    /\ LongSections
    /\ HitsAreTheTagged
    /\ NearWordIsSuggested
    /\ BothVocabulariesMeet
    /\ FusionKeepsAgreement
    /\ EdgesAreTheSimilar
    /\ LongestNameWins
    /\ BoostKeepsTheHits
    /\ GateLosesNoHit
=============================================================================
