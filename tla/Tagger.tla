----------------------------------- MODULE Tagger -----------------------------------
(***************************************************************************)
(* The text tagger (ferricula-search, lib.rs): the two tokenizers, the     *)
(* dictionary keyed by folded tokens, the walk over a text, the regex      *)
(* entries, and the choice among overlapping tags.                         *)
(*                                                                         *)
(* The FST is a map from keys to groups of records: its arc-by-arc walk    *)
(* finds the runs of tokens whose words are a key.  Offsets count          *)
(* characters where the code counts bytes.                                 *)
(***************************************************************************)
EXTENDS Integers, Sequences, FiniteSets, SequencesExt

-----------------------------------------------------------------------------
(***************************************************************************)
(* The regular expressions of the search tagger (ferricula-search,         *)
(* regex.rs): the recursive descent parser, the translation to an NFA with *)
(* epsilon transitions, the active-set simulation, and the pattern of all  *)
(* spellings one edit away from a term.                                    *)
(*                                                                         *)
(* A text and a pattern are sequences of characters of Chars, in the order *)
(* of their code points.  Every leaf of the syntax tree (a character, a    *)
(* class, \d, ., ...) is the set of characters it accepts, so that         *)
(* match_transition is membership.                                         *)
(***************************************************************************)

Chars == <<"\n", " ", "-", "0", "1", "2", "A", "_", "a", "b", "c", "a'", "ab'", "--", "x1", "x2">>
DigitChars == {"0", "1", "2"}
Code(c) == CHOOSE k \in 1..Len(Chars) : Chars[k] = c
AllChars == {Chars[k] : k \in 1..Len(Chars)}
Accented == {"a'", "ab'"}                       \* an accented letter, and a ligature
Ideographs == {"x1", "x2"}
Letters == {"A", "a", "b", "c"} \cup Accented \cup Ideographs

-----------------------------------------------------------------------------
(* Syntax trees: a leaf accepts a set of characters; the other nodes have  *)
(* the names of the enum and their subtrees in args.                       *)
Leaf(set) == [op |-> "leaf", accepts |-> set, args |-> <<>>]
Node(op, args) == [op |-> op, accepts |-> {}, args |-> args]
Copies(tree, n) == [k \in 1..n |-> tree]

(* The escapes of parse_base and the tests of match_transition.            *)
Escaped(c) == CASE c = "d" -> DigitChars
                [] c = "w" -> DigitChars \cup Letters \cup {"_"}
                [] c = "s" -> {"\n", " "}
                [] c = "D" -> AllChars \ DigitChars
                [] c = "W" -> {"\n", " ", "-", "--"}
                [] c = "S" -> AllChars \ {"\n", " "}
                [] OTHER -> {c}
Wildcard == AllChars \ {"\n"}
CharRange(first, last) == {c \in AllChars : Code(first) <= Code(c) /\ Code(c) <= Code(last)}

-----------------------------------------------------------------------------
(* The parser: a result is a tree and the position after it, or a failure. *)
Parsed(tree, pos) == [ok |-> TRUE, tree |-> tree, pos |-> pos]
Failed == [ok |-> FALSE, tree |-> Node("concat", <<>>), pos |-> 0]
Peek(p, i) == IF i <= Len(p) THEN p[i] ELSE "end"

RECURSIVE NumberAt(_, _, _)
NumberAt(p, i, n) == IF Peek(p, i) \in DigitChars THEN NumberAt(p, i + 1, 10 * n + Code(p[i]) - Code("0"))
                     ELSE [value |-> n, pos |-> i]

(* The bounds {n}, {min,} and {min,max} after a base, expanded to copies.  *)
Counted(p, i, base) ==
  LET least == NumberAt(p, i, 0)
      most == NumberAt(p, least.pos + 1, 0)
      repeated(end, copies) == IF Peek(p, end) = "}" THEN Parsed(Node("concat", copies), end + 1) ELSE Failed
  IN CASE least.pos = i -> Failed
       [] Peek(p, least.pos) # "," -> repeated(least.pos, Copies(base, least.value))
       [] most.pos = least.pos + 1 -> repeated(most.pos, Copies(base, least.value) \o <<Node("star", <<base>>)>>)
       [] OTHER -> IF most.value < least.value THEN Failed
                   ELSE repeated(most.pos, Copies(base, least.value)
                                           \o Copies(Node("option", <<base>>), most.value - least.value))

RECURSIVE ParseClass(_, _, _)
ParseClass(p, i, set) ==
  LET char(k) == IF Peek(p, k) = "\\" THEN Peek(p, k + 1) ELSE Peek(p, k)
      after(k) == IF Peek(p, k) = "\\" THEN k + 2 ELSE k + 1
      dash == after(i)
  IN CASE Peek(p, i) = "]" -> [ok |-> TRUE, set |-> set, pos |-> i + 1]
       [] char(i) = "end" \/ (Peek(p, dash) = "-" /\ char(dash + 1) = "end") -> [ok |-> FALSE, set |-> {}, pos |-> 0]
       [] Peek(p, dash) # "-" -> ParseClass(p, dash, set \cup {char(i)})
       [] Peek(p, dash + 1) = "]" -> ParseClass(p, dash + 1, set \cup {char(i), "-"})
       [] OTHER -> ParseClass(p, after(dash + 1), set \cup CharRange(char(i), char(dash + 1)))

ParseBase(p, i) ==
  CASE Peek(p, i) \in {"end", "*", "+", "?", "{", "}", ")", "]"} -> Failed
    [] Peek(p, i) = "." -> Parsed(Leaf(Wildcard), i + 1)
    [] Peek(p, i) = "\\" -> IF Peek(p, i + 1) = "end" THEN Failed ELSE Parsed(Leaf(Escaped(p[i + 1])), i + 2)
    [] Peek(p, i) = "[" ->
         LET negated == Peek(p, i + 1) = "^"
             class == ParseClass(p, IF negated THEN i + 2 ELSE i + 1, {})
         IN IF ~class.ok THEN Failed
            ELSE Parsed(Leaf(IF negated THEN AllChars \ class.set ELSE class.set), class.pos)
    [] OTHER -> Parsed(Leaf({p[i]}), i + 1)

(* A base and the quantifier after it.                                     *)
ParseFactor(p, base) ==
  LET next == IF base.ok THEN Peek(p, base.pos) ELSE "end"
      quantified(op) == Parsed(Node(op, <<base.tree>>), base.pos + 1)
  IN CASE next = "*" -> quantified("star")
       [] next = "+" -> quantified("plus")
       [] next = "?" -> quantified("option")
       [] next = "{" -> Counted(p, base.pos + 1, base.tree)
       [] OTHER -> base

(* The term read so far; a term of one factor is the factor itself.  It is
   joined to the alternatives to its left, if there are any.               *)
Alternative(left, factors) ==
  LET term == IF Len(factors) = 1 THEN factors[1] ELSE Node("concat", factors)
  IN IF left = <<>> THEN term ELSE Node("alternate", left \o <<term>>)

(* From i on, with the alternatives before this term and its factors so far:
   up to the end or the bracket that closes this regex.                    *)
RECURSIVE ParseRegex(_, _, _, _)
ParseRegex(p, i, left, factors) ==
  LET group == ParseRegex(p, i + 1, <<>>, <<>>)
      base == IF Peek(p, i) # "(" THEN ParseBase(p, i)
              ELSE IF group.ok /\ Peek(p, group.pos) = ")" THEN Parsed(group.tree, group.pos + 1) ELSE Failed
      factor == ParseFactor(p, base)
  IN CASE Peek(p, i) \in {"end", ")"} -> Parsed(Alternative(left, factors), i)
       [] Peek(p, i) = "|" -> ParseRegex(p, i + 1, <<Alternative(left, factors)>>, <<>>)
       [] OTHER -> IF factor.ok THEN ParseRegex(p, factor.pos, left, Append(factors, factor.tree)) ELSE Failed

Parse(p) == LET result == ParseRegex(p, 1, <<>>, <<>>)
            IN IF result.ok /\ result.pos > Len(p) THEN result ELSE Failed

-----------------------------------------------------------------------------
(* Thompson's construction: compile_ast allocates states from n on.        *)
Epsilon(from, to) == <<from, {"epsilon"}, to>>
Fragment(start, accept, next, trans) == [start |-> start, accept |-> accept, next |-> next, trans |-> trans]

(* The transitions ZeroOrMore, OneOrMore and ZeroOrOne add around a fragment. *)
Loop(op, n, f) == CASE op = "star" -> {Epsilon(n, f.start), Epsilon(n, n + 1), Epsilon(f.accept, f.start),
                                       Epsilon(f.accept, n + 1)}
                    [] op = "plus" -> {Epsilon(n, f.start), Epsilon(f.accept, f.start), Epsilon(f.accept, n + 1)}
                    [] OTHER -> {Epsilon(n, f.start), Epsilon(n, n + 1), Epsilon(f.accept, n + 1)}

RECURSIVE CompileAst(_, _), CompileAll(_, _, _)
CompileAst(tree, n) ==
  CASE tree.op = "leaf" -> Fragment(n, n + 1, n + 2, {<<n, tree.accepts, n + 1>>})
    [] tree.op = "concat" -> IF tree.args = <<>> THEN Fragment(n, n + 1, n + 2, {Epsilon(n, n + 1)})
                             ELSE CompileAll(tree.args, 2, CompileAst(tree.args[1], n))
    [] tree.op = "alternate" ->
         LET a == CompileAst(tree.args[1], n + 2)
             b == CompileAst(tree.args[2], a.next)
         IN Fragment(n, n + 1, b.next, a.trans \cup b.trans
              \cup {Epsilon(n, a.start), Epsilon(n, b.start), Epsilon(a.accept, n + 1), Epsilon(b.accept, n + 1)})
    [] OTHER -> LET a == CompileAst(tree.args[1], n + 2)
                IN Fragment(n, n + 1, a.next, a.trans \cup Loop(tree.op, n, a))
CompileAll(trees, k, before) ==
  IF k > Len(trees) THEN before
  ELSE LET f == CompileAst(trees[k], before.next)
       IN CompileAll(trees, k + 1, Fragment(before.start, f.accept, f.next,
                                            before.trans \cup f.trans \cup {Epsilon(before.accept, f.start)}))

-----------------------------------------------------------------------------
(* The active-set simulation.                                               *)
RECURSIVE EpsilonClosure(_, _)
EpsilonClosure(nfa, states) ==
  LET wider == states \cup {t[3] : t \in {u \in nfa.trans : u[1] \in states /\ "epsilon" \in u[2]}}
  IN IF wider = states THEN states ELSE EpsilonClosure(nfa, wider)
StepActiveSet(nfa, active, c) ==
  EpsilonClosure(nfa, {t[3] : t \in {u \in nfa.trans : u[1] \in active /\ c \in u[2]}})

(* The end of the longest match, if there is one: ends are offsets.         *)
RECURSIVE LongestFrom(_, _, _, _, _)
LongestFirst(nfa, text, i, active, longest) ==
  IF nfa.accept \in active THEN {i - 1}
  ELSE IF i > Len(text) \/ active = {} THEN {}
  ELSE LongestFrom(nfa, text, i + 1, StepActiveSet(nfa, active, text[i]), {})
LongestFrom(nfa, text, i, active, longest) ==
  LET found == IF nfa.accept \in active THEN {i - 1} ELSE longest
  IN IF i > Len(text) \/ active = {} THEN found
     ELSE LongestFrom(nfa, text, i + 1, StepActiveSet(nfa, active, text[i]), found)

Matches(nfa, text) == UNION {{<<i - 1, end>> : end \in LongestFrom(nfa, text, i, EpsilonClosure(nfa, {nfa.start}), {})}
                             : i \in 1..Len(text)}

-----------------------------------------------------------------------------
(* The pattern of every spelling one edit away: the term, deletions,        *)
(* wildcards for a substitution or an insertion, and swaps of neighbours.   *)
Deletions(term) == {RemoveAt(term, i) : i \in 1..Len(term)} \ {<<>>}
Substitutions(term) == {[term EXCEPT ![i] = "."] : i \in 1..Len(term)}
Insertions(term) == {InsertAt(term, i, ".") : i \in 1..(Len(term) + 1)}
Transpositions(term) == {[term EXCEPT ![i] = term[i + 1], ![i + 1] = term[i]] : i \in 1..(Len(term) - 1)}
Spellings(term) == {term} \cup Deletions(term) \cup Substitutions(term) \cup Insertions(term) \cup Transpositions(term)
LevenshteinRegex(term) ==
  FoldSet(LAMBDA word, pattern : IF pattern = <<>> THEN word ELSE pattern \o <<"|">> \o word, <<>>, Spellings(term))

-----------------------------------------------------------------------------
(* What a pattern means, from its parts and not from its automaton: the    *)
(* words of a leaf, of a sequence, of an alternative and of a repetition.  *)
RECURSIVE Denotes(_, _)
Denotes(tree, w) ==
  CASE tree.op = "leaf" -> Len(w) = 1 /\ w[1] \in tree.accepts
    [] tree.op = "concat" ->
         \E k \in 0..Len(w) : /\ Denotes(tree.left, SubSeq(w, 1, k))
                              /\ Denotes(tree.right, SubSeq(w, k + 1, Len(w)))
    [] tree.op = "alternate" -> Denotes(tree.left, w) \/ Denotes(tree.right, w)
    [] OTHER -> \/ tree.min = 0 /\ w = <<>>
                \/ tree.max > 0 /\ \E k \in 0..Len(w) :
                      /\ k > 0 \/ tree.min > 0
                      /\ Denotes(tree.of, SubSeq(w, 1, k))
                      /\ Denotes([tree EXCEPT !.min = IF @ = 0 THEN 0 ELSE @ - 1, !.max = @ - 1],
                                 SubSeq(w, k + 1, Len(w)))

LongestSpans(tree, text) ==
  {<<span[1] - 1, span[2]>> : span \in
     {s \in (1..Len(text)) \X (0..Len(text)) :
        /\ s[1] <= s[2] + 1
        /\ Denotes(tree, SubSeq(text, s[1], s[2]))
        /\ \A k \in (s[2] + 1)..Len(text) : ~Denotes(tree, SubSeq(text, s[1], k))}}

OneEdit(u, w) ==
  \/ u = w
  \/ \E i \in 1..Len(u) : RemoveAt(u, i) = w
  \/ \E i \in 1..Len(w) : RemoveAt(w, i) = u
  \/ Len(u) = Len(w) /\ \E i \in 1..Len(u) : RemoveAt(u, i) = RemoveAt(w, i)
  \/ Len(u) = Len(w) /\ \E i \in 1..(Len(u) - 1) :
       /\ u[i] = w[i + 1] /\ u[i + 1] = w[i]
       /\ \A k \in 1..Len(u) \ {i, i + 1} : u[k] = w[k]

-----------------------------------------------------------------------------

IsHyphen(c) == c \in {"-", "--"}
IsCjk(c) == c \in Ideographs
IsAscii(c) == c \notin Accented \cup Ideographs \cup {"--"}
(* The letters of a character after folding, or none for a separator.      *)
Fold(c) == CASE c = "A" -> <<"a">>
             [] c = "a'" -> <<"a">>
             [] c = "ab'" -> <<"a", "b">>
             [] c \in DigitChars \cup {"a", "b", "c"} -> <<c>>
             [] OTHER -> <<>>
Lower(c) == IF c = "A" THEN "a" ELSE c

Token(word, start, end) == [word |-> word, start |-> start, end |-> end]
TokenWords(tokens) == [k \in DOMAIN tokens |-> tokens[k].word]

-----------------------------------------------------------------------------
(* A tokenizer's state: the tokens so far and the open Latin token, if any. *)
Open(open, c, k) == IF open = {} THEN {Token(Fold(c), k - 1, k)}
                    ELSE {[t EXCEPT !.word = @ \o Fold(c), !.end = k] : t \in open}
Collected(state) == [tokens |-> state.tokens \o SetToSeq(state.open), open |-> {}]

(* tokenize_folds, the builder of the dictionary's keys.                   *)
TokenizeFolds(text) ==
  LET take(state, k) == CASE IsHyphen(text[k]) -> state
                          [] Fold(text[k]) # <<>> -> [state EXCEPT !.open = Open(@, text[k], k)]
                          [] OTHER -> Collected(state)
  IN Collected(FoldLeft(take, [tokens |-> <<>>, open |-> {}], [k \in 1..Len(text) |-> k])).tokens

(* tokenize: an accented word is followed by its original form, ideographs *)
(* give one token each and one for every two neighbours.                   *)
Flush(state, text) ==
  LET original(t) == [k \in 1..(t.end - t.start) |-> Lower(text[t.start + k])]
      isTwin(t) == \E k \in (t.start + 1)..t.end : ~IsAscii(text[k])
      both(t) == IF isTwin(t) THEN <<t, [t EXCEPT !.word = original(t)]>> ELSE <<t>>
  IN [tokens |-> state.tokens \o FlattenSeq(SetToSeq({both(t) : t \in state.open})), open |-> {}]
Ideograph(text, k) ==
  <<Token(<<text[k]>>, k - 1, k)>>
  \o IF k < Len(text) /\ IsCjk(text[k + 1]) THEN <<Token(<<text[k], text[k + 1]>>, k - 1, k + 1)>> ELSE <<>>
Tokenize(text) ==
  LET take(state, k) ==
        CASE IsCjk(text[k]) -> LET flushed == Flush(state, text)
                               IN [flushed EXCEPT !.tokens = @ \o Ideograph(text, k)]
          [] IsHyphen(text[k]) -> state
          [] Fold(text[k]) # <<>> -> [state EXCEPT !.open = Open(@, text[k], k)]
          [] OTHER -> Flush(state, text)
  IN Flush(FoldLeft(take, [tokens |-> <<>>, open |-> {}], [k \in 1..Len(text) |-> k]), text).tokens

-----------------------------------------------------------------------------
NormalizeKey(phrase) == TokenWords(TokenizeFolds(phrase))

(* The dictionary: entries [phrase, id] with equal keys share a group.  A   *)
(* phrase with an operator of regular expressions is one.                   *)
AutoDetectRegex(phrase) == \E k \in DOMAIN phrase : phrase[k] \in {"[", "]", "\\", "*", "+", "?", "|", "(", ")"}
Phrases(entries) == {e \in entries : ~AutoDetectRegex(e.phrase) /\ NormalizeKey(e.phrase) # <<>>}
Group(entries, key) == {e.id : e \in {p \in Phrases(entries) : NormalizeKey(p.phrase) = key}}
Nfas(entries) == {<<CompileAst(Parse(e.phrase).tree, 0), e.id>> : e \in {r \in entries : AutoDetectRegex(r.phrase)}}

Tag(span, id) == [start |-> span[1], end |-> span[2], id |-> id]
PhraseTags(entries, text) ==
  LET tokens == Tokenize(text)
  IN UNION {{Tag(<<tokens[run[1]].start, tokens[run[2]].end>>, id) :
               id \in Group(entries, TokenWords(SubSeq(tokens, run[1], run[2])))}
            : run \in {r \in (1..Len(tokens)) \X (1..Len(tokens)) : r[1] <= r[2]}}
RegexTags(entries, text) == UNION {{Tag(span, nfa[2]) : span \in Matches(nfa[1], text)} : nfa \in Nfas(entries)}
AllTags(entries, text) == PhraseTags(entries, text) \cup RegexTags(entries, text)

Precedes(a, b) == \/ a.start < b.start
                  \/ a.start = b.start /\ a.end > b.end
                  \/ a.start = b.start /\ a.end = b.end /\ a.id < b.id
RECURSIVE Sorted(_)
Sorted(tags) == IF tags = {} THEN <<>>
                ELSE LET first == CHOOSE t \in tags : \A u \in tags \ {t} : Precedes(t, u)
                     IN <<first>> \o Sorted(tags \ {first})
ResolveLongestOnly(tags) ==
  LET keep(state, tag) == IF tag.start >= state.end \/ (tag.start = state.start /\ tag.end = state.end)
                          THEN [kept |-> state.kept \cup {tag}, start |-> tag.start, end |-> tag.end]
                          ELSE state
  IN FoldLeft(keep, [kept |-> {}, start |-> -1, end |-> 0], Sorted(tags)).kept

TagText(entries, text) == ResolveLongestOnly(AllTags(entries, text))

-----------------------------------------------------------------------------
CsvChar(state, line, k) ==
  LET c == line[k]
      doubled == k < Len(line) /\ line[k + 1] = "q"
  IN CASE state.skip -> [state EXCEPT !.skip = FALSE]
       [] state.quoted /\ c = "q" /\ doubled -> [state EXCEPT !.cell = Append(@, "q"), !.skip = TRUE]
       [] state.quoted /\ c = "q" -> [state EXCEPT !.quoted = FALSE]
       [] ~state.quoted /\ c = "q" /\ state.cell = <<>> -> [state EXCEPT !.quoted = TRUE]
       [] ~state.quoted /\ c = "," -> [state EXCEPT !.cells = Append(@, state.cell), !.cell = <<>>]
       [] OTHER -> [state EXCEPT !.cell = Append(@, c)]
ParseCsvLine(line) ==
  LET read(state, k) == CsvChar(state, line, k)
      last == FoldLeft(read, [cells |-> <<>>, cell |-> <<>>, quoted |-> FALSE, skip |-> FALSE], [k \in 1..Len(line) |-> k])
  IN Append(last.cells, last.cell)

-----------------------------------------------------------------------------
(* What the tagger promises.  The tags kept are apart, unless they have the *)
(* same span, and a tag is dropped only for one that begins no later and    *)
(* reaches over its beginning, the longer one when both begin together.     *)
SameSpan(a, b) == a.start = b.start /\ a.end = b.end
LongestOfEach(kept, tags) ==
  /\ kept \subseteq tags
  /\ \A a, b \in kept : SameSpan(a, b) \/ a.end <= b.start \/ b.end <= a.start
  /\ \A t \in tags \ kept : \E k \in kept :
       /\ k.start <= t.start /\ t.start < k.end
       /\ k.start = t.start => k.end > t.end

(* Two spellings of one phrase: equal without hyphens and accents.          *)
Plain(phrase) == FlattenSeq([k \in DOMAIN phrase |-> IF IsHyphen(phrase[k]) THEN <<>>
                                                     ELSE IF Fold(phrase[k]) = <<>> THEN <<" ">> ELSE Fold(phrase[k])])

(* A cut of a text that splits no word: at its ends, next to a separator or *)
(* next to an ideograph.                                                    *)
Cut(text, k) == \/ k \in {0, Len(text)}
                \/ \E c \in {text[k], text[k + 1]} : IsCjk(c) \/ (Fold(c) = <<>> /\ ~IsHyphen(c))
=============================================================================
