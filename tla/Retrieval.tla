--------------------------------- MODULE Retrieval ---------------------------------
(***************************************************************************)
(* From a query to ranked hits: the terms of the query, the filters in     *)
(* front of the ranking, the lexical index, and what moves a hit after it. *)
(*                                                                         *)
(* The lexical index (ferricula-search, bm25.rs): how a Markdown text is   *)
(* cut into sections, what is recorded of a section, which sections a      *)
(* query reaches and how they are scored.                                  *)
(*                                                                         *)
(* A text is a sequence of characters, cut into words and tagged as in     *)
(* Tagger.  A section keeps its words, its tags and its prime filter.      *)
(* Scores are numerators over one denominator: see Score.                  *)
(***************************************************************************)
EXTENDS Integers, Sequences, FiniteSets, SequencesExt, Tagger

-----------------------------------------------------------------------------
(***************************************************************************)
(* The spelling corrector of search queries (ferricula-search,             *)
(* spelling.rs; correct_query of main.rs): an index of the trigrams of the *)
(* known words, the words that share a trigram with a misspelt one, and    *)
(* the edit distance that decides among them.                              *)
(*                                                                         *)
(* Ranking among candidates is real-valued and left out: a correction is   *)
(* any word of the least distance class that the ranking could put first.  *)
(* The cut at twenty candidates does not bind in a vocabulary this small.  *)
(***************************************************************************)

MaxDistance == 2

Trigrams(word) == LET padded == <<"_">> \o word \o <<"_">>
                  IN IF Len(padded) < 3 THEN {word} ELSE {SubSeq(padded, i, i + 2) : i \in 1..(Len(padded) - 2)}
(* One row of the table of distances after another: row[j + 1] is the       *)
(* distance to the first j letters of b.                                   *)
NextRow(row, a, i, b) ==
  LET new[j \in 0..Len(b)] == IF j = 0 THEN i
                              ELSE IF a[i] = b[j] THEN row[j]
                              ELSE 1 + Min({row[j], row[j + 1], new[j - 1]})
  IN [j \in 1..(Len(b) + 1) |-> new[j - 1]]
LevenshteinDistance(a, b) ==
  CASE a = <<>> -> Len(b)
    [] b = <<>> -> Len(a)
    [] OTHER -> FoldLeft(LAMBDA row, i : NextRow(row, a, i, b), [j \in 1..(Len(b) + 1) |-> j - 1],
                         [i \in 1..Len(a) |-> i])[Len(b) + 1]

(* SpellIndex::build: words without a letter are left out.                  *)
Digits10 == {"0", "1", "2"}
SpellIndex(words) ==
  LET known == {w \in words : \E k \in DOMAIN w : w[k] \notin Digits10}
  IN [vocabulary |-> known,
      postings |-> [t \in UNION {Trigrams(w) : w \in known} |-> {w \in known : t \in Trigrams(w)}]]

(* correct_word: the candidates are the union of the posting lists.         *)
Sharing(index, word) == UNION {index.postings[t] : t \in Trigrams(word) \cap DOMAIN index.postings}
Suggestions(index, word) ==
  IF word = <<>> THEN {} ELSE {w \in Sharing(index, word) : LevenshteinDistance(word, w) <= MaxDistance}

(* correct_query: a known word stays, and so does one without a suggestion. *)
Corrections(index, word) ==
  LET found == Suggestions(index, word)
  IN IF word \in index.vocabulary \/ found = {} THEN {word} ELSE found
CorrectedQueries(index, query) ==
  {q \in [DOMAIN query -> UNION {Corrections(index, query[k]) : k \in DOMAIN query}] :
     \A k \in DOMAIN query : q[k] \in Corrections(index, query[k])}

-----------------------------------------------------------------------------
(* The distance by its definition: the fewest edits that lead from a to b.  *)
RECURSIVE Distance(_, _)
Distance(a, b) == CASE a = <<>> -> Len(b)
                    [] b = <<>> -> Len(a)
                    [] OTHER -> Min({Distance(Tail(a), Tail(b)) + (IF a[1] = b[1] THEN 0 ELSE 1),
                                     Distance(Tail(a), b) + 1, Distance(a, Tail(b)) + 1})

-----------------------------------------------------------------------------
(***************************************************************************)
(* The glossary expansion of a query (ferricula-search, query_expand.rs):  *)
(* the two maps built from a list of pairs, and the terms they add.        *)
(*                                                                         *)
(* A pair has a Pali word, its meaning and its code terms; a meaning and a *)
(* code term are phrases (sequences of words).  An added term is a phrase  *)
(* or the word of a pair.                                                  *)
(***************************************************************************)

(* pali_to_code of build_maps: a later pair of the same word replaces the   *)
(* earlier one, the meanings collect.                                      *)
LastOf(glossary, word) == Max({0} \cup {k \in DOMAIN glossary : glossary[k].pali = word})
ByWord(glossary, word) ==
  LET k == LastOf(glossary, word)
  IN IF k = 0 THEN <<>> ELSE Append(glossary[k].codes, glossary[k].meaning)
Extended(glossary, pick(_), terms(_)) ==
  FoldLeft(LAMBDA all, pair : IF pick(pair) THEN all \o terms(pair) ELSE all, <<>>, glossary)
ByMeaning(glossary, phrase) ==
  Extended(glossary, LAMBDA pair : pair.meaning = phrase, LAMBDA pair : pair.codes)
PaliToCode(glossary, word) == ByWord(glossary, word) \o ByMeaning(glossary, <<word>>)

CodeToPali(glossary, phrase) ==
  Extended(glossary, LAMBDA pair : phrase \in ToSet(pair.codes), LAMBDA pair : << <<pair.pali>> \o pair.meaning>>)
(* expand_query: both maps for every word, then code terms of two words;    *)
(* each term once, in that order.                                          *)
Found(glossary, words) ==
  FlattenSeq([k \in DOMAIN words |-> PaliToCode(glossary, words[k]) \o CodeToPali(glossary, <<words[k]>>)])
  \o FlattenSeq([k \in 1..Max({0, Len(words) - 1}) |-> CodeToPali(glossary, <<words[k], words[k + 1]>>)])
Once(terms) == FoldLeft(LAMBDA seen, t : IF t \in ToSet(seen) THEN seen ELSE Append(seen, t), <<>>, terms)
TermsAdded(glossary, words, enabled) == IF enabled THEN Once(Found(glossary, words)) ELSE <<>>
Expanded(glossary, words, enabled) == words \o FlattenSeq(TermsAdded(glossary, words, enabled))

-----------------------------------------------------------------------------
(***************************************************************************)
(* The two filters in front of the lexical ranking (ferricula-search,      *)
(* fast_retrieval.rs): the roaring bitmap of section numbers, with its     *)
(* sorted arrays and packed bitmaps, and the prime filter of a section, a  *)
(* Bloom mask of its terms and a product of one prime per tag.             *)
(*                                                                         *)
(* ChunkSize, ArrayLimit, Bits and SignatureLimit are 2^16, 1024, 64 and   *)
(* 2^128 - 1 in the code.                                                  *)
(***************************************************************************)

CONSTANTS ChunkSize, ArrayLimit, Bits, SignatureLimit

-----------------------------------------------------------------------------
(* A container is a sorted array of low halves, or a set of bits.          *)
ArrayOf(list) == [kind |-> "array", list |-> list, bits |-> {}]
BitmapOf(bits) == [kind |-> "bitmap", list |-> <<>>, bits |-> bits]
EmptyRoaring == <<>>
Key(id) == id \div ChunkSize
Low(id) == id % ChunkSize

(* An array beyond the limit becomes a bitmap.                             *)
Packed(list) == IF Len(list) > ArrayLimit THEN BitmapOf(ToSet(list)) ELSE ArrayOf(list)
Inserted(list, v) == SelectSeq(list, LAMBDA x : x < v) \o <<v>> \o SelectSeq(list, LAMBDA x : x > v)

Put(map, key, container) == [k \in DOMAIN map \cup {key} |-> IF k = key THEN container ELSE map[k]]
InsertId(map, id) ==
  LET old == IF Key(id) \in DOMAIN map THEN map[Key(id)] ELSE ArrayOf(<<>>)
  IN Put(map, Key(id), CASE old.kind = "bitmap" -> BitmapOf(old.bits \cup {Low(id)})
                         [] Low(id) \in ToSet(old.list) -> old
                         [] OTHER -> Packed(Inserted(old.list, Low(id))))

Has(c, v) == IF c.kind = "bitmap" THEN v \in c.bits ELSE v \in ToSet(c.list)
ContainsId(map, id) == Key(id) \in DOMAIN map /\ Has(map[Key(id)], Low(id))

(* The merges of two sorted arrays.                                        *)
RECURSIVE Common(_, _), UnionOf(_, _)
Common(a, b) == CASE a = <<>> \/ b = <<>> -> <<>>
                  [] a[1] = b[1] -> <<a[1]>> \o Common(Tail(a), Tail(b))
                  [] a[1] < b[1] -> Common(Tail(a), b)
                  [] OTHER -> Common(a, Tail(b))
UnionOf(a, b) == CASE a = <<>> -> b
                  [] b = <<>> -> a
                  [] a[1] < b[1] -> <<a[1]>> \o UnionOf(Tail(a), b)
                  [] b[1] < a[1] -> <<b[1]>> \o UnionOf(a, Tail(b))
                  [] OTHER -> <<a[1]>> \o UnionOf(Tail(a), Tail(b))

(* Two bitmaps meet in a bitmap, however few bits are left; an array meets  *)
(* anything in an array.  An empty meeting leaves no container.             *)
Meet(a, b) == CASE a.kind = "array" /\ b.kind = "array" -> ArrayOf(Common(a.list, b.list))
                [] a.kind = "bitmap" /\ b.kind = "bitmap" -> BitmapOf(a.bits \cap b.bits)
                [] a.kind = "array" -> ArrayOf(SelectSeq(a.list, LAMBDA x : x \in b.bits))
                [] OTHER -> ArrayOf(SelectSeq(b.list, LAMBDA x : x \in a.bits))
IsEmptyContainer(c) == c.list = <<>> /\ c.bits = {}
Intersect(a, b) == LET both == {k \in DOMAIN a \cap DOMAIN b : ~IsEmptyContainer(Meet(a[k], b[k]))}
                   IN [k \in both |-> Meet(a[k], b[k])]

Join(a, b) == CASE a.kind = "array" /\ b.kind = "array" -> Packed(UnionOf(a.list, b.list))
                [] OTHER -> BitmapOf(a.bits \cup b.bits \cup ToSet(a.list) \cup ToSet(b.list))
Unite(a, b) == [k \in DOMAIN a \cup DOMAIN b |->
                  IF k \notin DOMAIN b THEN a[k] ELSE IF k \notin DOMAIN a THEN b[k] ELSE Join(a[k], b[k])]

RECURSIVE Ascending(_)
Ascending(set) == IF set = {} THEN <<>> ELSE <<Min(set)>> \o Ascending(set \ {Min(set)})
Lows(c) == IF c.kind = "bitmap" THEN Ascending(c.bits) ELSE c.list
Ids(map) == FlattenSeq([n \in 1..Cardinality(DOMAIN map) |->
              LET key == Ascending(DOMAIN map)[n]
              IN [i \in DOMAIN Lows(map[key]) |-> key * ChunkSize + Lows(map[key])[i]]])
Count(c) == Len(c.list) + Cardinality(c.bits)
LenIds(map) == FoldSet(LAMBDA k, n : n + Count(map[k]), 0, DOMAIN map)
IntersectionCount(a, b) == FoldSet(LAMBDA k, n : n + Count(Meet(a[k], b[k])), 0, DOMAIN a \cap DOMAIN b)
UnionCount(a, b) == LenIds(a) + LenIds(b) - IntersectionCount(a, b)

-----------------------------------------------------------------------------
IsPrime(n) == n > 1 /\ (n <= 3 \/ (/\ n % 2 # 0 /\ n % 3 # 0
                                 /\ \A i \in {6 * k - 1 : k \in 1..n} : i * i <= n => n % i # 0 /\ n % (i + 2) # 0))
RECURSIVE PrimesFrom(_, _)
PrimesFrom(candidate, n) == IF IsPrime(candidate) THEN (IF n = 1 THEN candidate ELSE PrimesFrom(candidate + 1, n - 1))
                            ELSE PrimesFrom(candidate + 1, n)
NthPrime(n) == IF n = 0 THEN 1 ELSE PrimesFrom(1, n)

NewFilter == [mask |-> {}, signature |-> 1]
(* The two bits of a term; a hash stands for FNV-1a.                       *)
TermBits(hash) == {hash % Bits, (hash \div Bits) % Bits}
AddTerm(f, hash) == [f EXCEPT !.mask = @ \cup TermBits(hash)]
TestTerm(f, hash) == TermBits(hash) \subseteq f.mask
AddTagPrime(f, p) == [f EXCEPT !.signature = IF @ * p > SignatureLimit THEN 0 ELSE @ * p]
TestTagPrime(f, p) == f.signature = 0 \/ f.signature % p = 0

-----------------------------------------------------------------------------

CONSTANTS Stopwords,   \* a set of words
          KeepLength   \* a section with a shorter body is dropped: 100 in the code

-----------------------------------------------------------------------------
(* parse_markdown.  A line is a heading, a heading without a text, or text; *)
(* the section before the first heading has a title of its own.             *)
Line(kind, n) == [kind |-> kind, length |-> n]
NewSection(line) == [from |-> line, lines |-> <<>>]
BodyLength(section, lines) == FoldLeft(LAMBDA n, k : n + lines[k].length, 0, section.lines)
Parts(lines) ==
  LET read(sections, k) == IF lines[k].kind = "heading" THEN Append(sections, NewSection(k))
                           ELSE [sections EXCEPT ![Len(sections)].lines = Append(@, k)]
  IN FoldLeft(read, <<NewSection(1)>>, [k \in 1..Len(lines) |-> k])
ParseMarkdown(lines) == SelectSeq(Parts(lines), LAMBDA s : BodyLength(s, lines) > KeepLength)

-----------------------------------------------------------------------------
(* Bm25Index::build.  Primes are given to the tags of the whole corpus in   *)
(* the order of their names; the filter of a section multiplies the prime   *)
(* of every tag found in its title and in its body.         *)
WordsOfText(text) == TokenWords(Tokenize(text))
Tags(entries, text) == {tag.id : tag \in TagText(entries, text)}
Hash(word) == FoldLeft(LAMBDA h, c : (7 * h + Code(c)) % (Bits * Bits), 5, word)

Fields == {"title", "body"}
TagPrimes(tagged) ==
  LET all == {tag.id : tag \in UNION {t.title \cup t.body : t \in ToSet(tagged)}}
  IN [id \in all |-> NthPrime(Cardinality({t \in all : t <= id}))]

Signed(f, tags, primes) == FoldSet(LAMBDA tag, g : AddTagPrime(g, primes[tag.id]), f, tags)
Masked(words) == FoldLeft(AddTerm, NewFilter, [k \in DOMAIN words |-> Hash(words[k])])
Doc(words, tags, primes) ==
  [title |-> words.title, body |-> words.body,
   filter |-> Signed(Signed(Masked(words.title \o words.body), tags.title, primes), tags.body, primes)]

Postings(words) ==
  LET wordsAt(d) == ToSet(words[d].title) \cup ToSet(words[d].body)
  IN [w \in UNION {wordsAt(d) : d \in DOMAIN words} |->
        FoldLeft(InsertId, EmptyRoaring, Ascending({d \in DOMAIN words : w \in wordsAt(d)}))]
IndexOf(words, tagged) ==
  LET primes == TagPrimes(tagged)
  IN [docs |-> [d \in DOMAIN words |-> Doc(words[d], tagged[d], primes)],
      postings |-> Postings(words), primes |-> primes]
BuildIndex(entries, sections) ==
  IndexOf([d \in DOMAIN sections |-> [f \in Fields |-> WordsOfText(sections[d][f])]],
          [d \in DOMAIN sections |-> [f \in Fields |-> TagText(entries, sections[d][f])]])

-----------------------------------------------------------------------------
(* Bm25Index::search.                                                      *)
FilterQueryStopwords(words) ==
  LET content == SelectSeq(words, LAMBDA w : w \notin Stopwords)
  IN IF content = <<>> THEN words ELSE content
Candidates(index, words) ==
  FoldLeft(LAMBDA found, w : IF w \in DOMAIN index.postings THEN Unite(found, index.postings[w]) ELSE found,
           EmptyRoaring, words)
QueryPrimes(entries, index, query) ==
  {IF tag \in DOMAIN index.primes THEN index.primes[tag] ELSE NthPrime(Cardinality(DOMAIN index.primes) + 2) :
     tag \in Tags(entries, query)}
Pruned(entries, index, query, words) ==
  {d \in ToSet(Ids(Candidates(index, words))) :
     \A p \in QueryPrimes(entries, index, query) : TestTagPrime(index.docs[d].filter, p)}

Occurs(doc, w) == \E field \in {doc.title, doc.body} : w \in ToSet(field)
Matched(doc, words) == {w \in ToSet(words) : TestTerm(doc.filter, Hash(w)) /\ Occurs(doc, w)}

(* The coordination factor, 1/2 + 1/2 * coverage, over 2 * distinct words. *)
Coordination(matched, words) == Cardinality(ToSet(words)) + Cardinality(matched)

(* The hits are the sections with a score above zero: a matched word scores *)
(* more than zero in every variant, since its inverse document frequency is *)
(* the logarithm of a number above one.                                     *)
Search(entries, index, query) ==
  LET words == FilterQueryStopwords(WordsOfText(query))
  IN [d \in {c \in Pruned(entries, index, query, words) : Matched(index.docs[c], words) # {}} |->
        Coordination(Matched(index.docs[d], words), words)]

-----------------------------------------------------------------------------
(* What a query should reach, read off the texts.                          *)
AsksFor(query) == LET words == ToSet(WordsOfText(query))
                  IN IF words \subseteq Stopwords THEN words ELSE words \ Stopwords
Holds(section, w) == w \in ToSet(WordsOfText(section.title)) \cup ToSet(WordsOfText(section.body))
IsTaggedAs(entries, section, tags) == tags \subseteq UNION {Tags(entries, section[f]) : f \in Fields}

-----------------------------------------------------------------------------
(***************************************************************************)
(* What moves a hit up or down after retrieval (ferricula-search): the     *)
(* fusion of two rankings (fusion.rs), the graph of entities that occur    *)
(* together (semantic_mesh.rs), the walk from the entities of a query and  *)
(* its boost (graph_search.rs), and the order a gate's verdicts give       *)
(* (rerank.rs).                                                            *)
(*                                                                         *)
(* Real-valued weights are whole numbers in small units: the weight of an  *)
(* edge is in eighths, a seed weighs Seed and a neighbour half of its edge.*)
(***************************************************************************)

(* reciprocal_rank_fusion with the constant 2 and ranks up to 3, in         *)
(* sixtieths; an id listed twice has its last rank.                         *)
Reciprocal(rank) == 60 \div (2 + rank)
RankOf(ranking, id) == Max({k \in DOMAIN ranking : ranking[k] = id}) - 1
Share(ranking, id) == IF id \in ToSet(ranking) THEN Reciprocal(RankOf(ranking, id)) ELSE 0
TagBoost == 3
Fused(lexical, semantic, boosted, id) ==
  Share(lexical, id) + Share(semantic, id) + (IF id \in boosted THEN TagBoost ELSE 0)

-----------------------------------------------------------------------------
(* EntityGraph::build over the sections of each entity.  Similarity is the  *)
(* quotient of common and all sections; pairs whose counts alone rule the   *)
(* threshold out, num/den, are skipped before their sections are compared.  *)
Common2(postings, e, f) == Cardinality(postings[e] \cap postings[f])
Union2(postings, e, f) == Cardinality(postings[e]) + Cardinality(postings[f]) - Common2(postings, e, f)
MayReach(postings, e, f, num, den) ==
  LET lens == {Cardinality(postings[e]), Cardinality(postings[f])}
  IN den * Min(lens) >= num * Max(lens)
(* The sign of cooccurrence_relatedness: more or less often together than    *)
(* chance, nothing when one of them is everywhere.                          *)
Relatedness(n, a, b, k) == CASE n = 0 \/ a = 0 \/ b = 0 \/ a = n \/ b = n -> 0
                             [] k * n > a * b -> 1
                             [] k * n < a * b -> -1
                             [] OTHER -> 0
Pairs(postings) == {p \in (DOMAIN postings) \X (DOMAIN postings) : p[1] < p[2]}
Edges(postings, num, den, n) ==
  {[pair |-> p, common |-> Common2(postings, p[1], p[2]),
    sign |-> Relatedness(n, Cardinality(postings[p[1]]), Cardinality(postings[p[2]]), Common2(postings, p[1], p[2]))] :
     p \in {q \in Pairs(postings) :
              /\ postings[q[1]] # {} /\ postings[q[2]] # {}
              /\ MayReach(postings, q[1], q[2], num, den)
              /\ Common2(postings, q[1], q[2]) > 0
              /\ den * Common2(postings, q[1], q[2]) >= num * Union2(postings, q[1], q[2])}}

-----------------------------------------------------------------------------
LongestName(names, words, i, most) ==
  LET named == {n \in 1..Min({most, Len(words) - i + 1}) : SubSeq(words, i, i + n - 1) \in names}
  IN IF named = {} THEN 0 ELSE Max(named)
RECURSIVE SeedsFrom(_, _, _, _)
SeedsFrom(names, words, i, most) ==
  IF i > Len(words) THEN {}
  ELSE LET n == LongestName(names, words, i, most)
       IN IF n = 0 THEN SeedsFrom(names, words, i + 1, most)
          ELSE {SubSeq(words, i, i + n - 1)} \cup SeedsFrom(names, words, i + n, most)

(* compute_skg_scores: the strongest edges of every seed; a neighbour has   *)
(* its largest weight, not the sum of them.                                *)
Seed == 16
Neighbours(edges, e, floor, topK) ==
  LET all == {[to |-> IF x.a = e THEN x.b ELSE x.a, weight |-> x.weight] : x \in {y \in edges : e \in {y.a, y.b}}}
      enough == {x \in all : x.weight >= floor}
  IN {x \in enough : Cardinality({y \in enough : y.weight > x.weight \/ (y.weight = x.weight /\ y.to < x.to)}) < topK}
Weights(edges, seeds, floor, topK) ==
  LET reached == UNION {Neighbours(edges, s, floor, topK) : s \in seeds}
  IN [e \in seeds \cup {x.to : x \in reached} |->
        IF e \in seeds THEN Seed ELSE Max({x.weight : x \in {y \in reached : y.to = e}})]
Masses(postings, weights) ==
  LET touched == UNION {postings[e] : e \in DOMAIN weights \cap DOMAIN postings}
  IN [s \in touched |-> FoldSet(LAMBDA e, n : n + weights[e], 0, {e \in DOMAIN weights \cap DOMAIN postings : s \in postings[e]})]

(* apply_skg_boost, beta 2/5: hits is a function from sections to scores; a *)
(* section at half of the largest mass or more joins without a match.  The  *)
(* scores of the result are in units of 1 / (5 * the largest mass).         *)
LargestMass(mass) == Max({mass[s] : s \in DOMAIN mass} \cup {0})
Joins(hits, mass) == {s \in DOMAIN mass \ DOMAIN hits : 2 * mass[s] >= LargestMass(mass)}
Boosted(hits, mass) ==
  IF LargestMass(mass) = 0 THEN hits
  ELSE [s \in DOMAIN hits \cup Joins(hits, mass) |->
          IF s \notin DOMAIN hits THEN 2 * mass[s]
          ELSE hits[s] * (5 * LargestMass(mass) + (IF s \in DOMAIN mass THEN 2 * mass[s] ELSE 0))]

-----------------------------------------------------------------------------
(* rerank_hits: verdict k is of hit k, judged or abstained; only the first  *)
(* topN are asked.  The judged come first, by answer, relevance and rank.   *)
Judged(verdicts, topN) == {k \in DOMAIN verdicts : k <= topN /\ verdicts[k].judged}
Before(verdicts, j, k) ==
  \/ verdicts[j].answers > verdicts[k].answers
  \/ verdicts[j].answers = verdicts[k].answers /\ verdicts[j].relevance > verdicts[k].relevance
  \/ verdicts[j].answers = verdicts[k].answers /\ verdicts[j].relevance = verdicts[k].relevance /\ j < k
RECURSIVE InOrder(_, _)
InOrder(verdicts, set) ==
  IF set = {} THEN <<>>
  ELSE LET first == CHOOSE k \in set : \A j \in set \ {k} : Before(verdicts, k, j)
       IN <<first>> \o InOrder(verdicts, set \ {first})
Rest(verdicts, topN, k) == k \notin Judged(verdicts, topN)
RerankHits(verdicts, topN) ==
  InOrder(verdicts, Judged(verdicts, topN))
  \o SelectSeq([k \in DOMAIN verdicts |-> k], LAMBDA k : Rest(verdicts, topN, k))
=============================================================================
