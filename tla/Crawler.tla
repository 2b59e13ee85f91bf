-------------------------------- MODULE Crawler --------------------------------
(***************************************************************************)
(* `lume crawl` (ferricula-search crawl.rs): a page is fetched by a crawl  *)
(* service, by the same service on the host of the container, or directly, *)
(* and is saved under a name made from its address; a Hacker News story is *)
(* put together from several requests.  And clean_html_to_markdown, which  *)
(* strips a page that was fetched directly.                                *)
(*                                                                         *)
(* An address is a value with a slug.  A page is a sequence of tokens: the *)
(* characters the code tells apart, and names, which inside of a tag are   *)
(* the tag's and outside of it text.                                       *)
(***************************************************************************)
EXTENDS Naturals, SequencesExt

CONSTANTS
    Addresses,          \* what is crawled: [url, slug, story]
    Services,           \* settings: [token, local, localhost]
    MaxCrawls           \* bound: commands one after the other

VARIABLES
    crawl,              \* the command: phase, address, and how it goes on
    saved               \* slug -> address of the page in the collection

crawlVars == <<crawl, saved>>

Resting == [phase |-> "rest", address |-> 0, service |-> 0, carefully |-> TRUE, left |-> 0]
Slugs == {a.slug : a \in Addresses}

-----------------------------------------------------------------------------
\* crawl_url: a story goes to its own interface; without a token only a
\* local service is asked.
Dispatch ==
    /\ crawl.phase = "rest" /\ crawl.left > 0
    /\ \E a \in Addresses, s \in Services :
        crawl' = [crawl EXCEPT !.address = a, !.service = s, !.carefully = TRUE, !.left = @ - 1,
                    !.phase = CASE a.story -> "story"
                                [] ~a.story /\ ~s.token /\ ~s.local -> "direct"
                                [] OTHER -> "service"]
    /\ UNCHANGED saved

\* The service answers with a page, refuses, or cannot be reached; any
\* status that is an error counts as not reached.
AskService ==
    /\ crawl.phase = "service"
    /\ \E next \in {"save", "failed", IF crawl.service.localhost THEN "retry" ELSE "direct"} :
        crawl' = [crawl EXCEPT !.phase = next]
    /\ UNCHANGED saved

\* host.docker.internal: all that goes wrong leads to the direct request.
Retry ==
    /\ crawl.phase = "retry"
    /\ \E ok \in BOOLEAN :
        crawl' = [crawl EXCEPT !.phase = IF ok THEN "save" ELSE "direct", !.carefully = ~ok]
    /\ UNCHANGED saved

\* crawl_direct_get, crawl_hn_via_api up to the file: one failure ends it;
\* of a story's comments some may be missing.
Fetch ==
    /\ crawl.phase \in {"direct", "story"}
    /\ \E ok \in BOOLEAN : crawl' = [crawl EXCEPT !.phase = IF ok THEN "save" ELSE "failed"]
    /\ UNCHANGED saved

\* fs::write(..)? and, after a retry, let _ = fs::write(..).
Noticed == crawl.carefully

SavePage ==
    /\ crawl.phase = "save"
    /\ \/ /\ saved' = [saved EXCEPT ![crawl.address.slug] = crawl.address.url]
          /\ crawl' = [crawl EXCEPT !.phase = "saved"]
       \/ /\ crawl' = [crawl EXCEPT !.phase = IF Noticed THEN "failed" ELSE "saved"]
          /\ UNCHANGED saved

Finish ==
    /\ crawl.phase \in {"saved", "failed"}
    /\ crawl' = [crawl EXCEPT !.phase = "rest"]
    /\ UNCHANGED saved

CrawlInit ==
    /\ \E n \in {0, MaxCrawls} : crawl = [Resting EXCEPT !.left = n]
    /\ saved = [s \in Slugs |-> "none"]

CrawlNext == Dispatch \/ AskService \/ Retry \/ Fetch \/ SavePage \/ Finish

-----------------------------------------------------------------------------
\* What a character does outside of a tag, in a tag, and in a quoted value.
Blocks == {"p", "br"}

Closed(acc) ==
    LET name == IF acc.tag = <<>> THEN "none" ELSE acc.tag[1]
    IN  [acc EXCEPT !.inTag = FALSE,
            !.script = IF name = "script" THEN TRUE ELSE IF name = "/script" THEN FALSE ELSE @,
            !.title = IF name = "title" THEN TRUE ELSE IF name = "/title" THEN FALSE ELSE @,
            !.out = IF acc.tag \in {<<b>> : b \in Blocks} /\ (@ = <<>> \/ Last(@) # "\n") THEN Append(@, "\n") ELSE @]

InTag(acc, c) ==
    CASE acc.quote /\ c = "'" -> [acc EXCEPT !.quote = FALSE, !.tag = Append(@, c)]
      [] acc.quote /\ c # "'" -> [acc EXCEPT !.tag = Append(@, c)]
      [] ~acc.quote /\ c = "'" -> [acc EXCEPT !.quote = TRUE, !.tag = Append(@, c)]
      [] ~acc.quote /\ c = ">" -> Closed(acc)
      [] OTHER -> [acc EXCEPT !.tag = Append(@, c)]

Eaten(acc, c) ==
    CASE c = "<" -> [acc EXCEPT !.inTag = TRUE, !.quote = FALSE, !.tag = <<>>]
      [] c # "<" /\ acc.inTag -> InTag(acc, c)
      [] OTHER -> IF acc.script THEN acc
                  ELSE IF acc.title THEN [acc EXCEPT !.heading = Append(@, c)]
                  ELSE [acc EXCEPT !.out = Append(@, c)]

Cleaned(html) ==
    LET end == FoldLeft(Eaten, [inTag |-> FALSE, quote |-> FALSE, tag |-> <<>>, script |-> FALSE,
                                title |-> FALSE, heading |-> <<>>, out |-> <<>>], html)
    IN  [title |-> end.heading, body |-> SelectSeq(end.out, LAMBDA c : c # "\n")]

-----------------------------------------------------------------------------
\* "Successfully added to personal search engine document collection!"
\* (crawl.rs 465) is said of a page that is there, but after the retry, whose
\* errors on disk are dropped.
SavedIsThere ==
    crawl.phase = "saved" /\ crawl.carefully => saved[crawl.address.slug] = crawl.address.url

\* Rendering elements and cleaning them gives their text back: tags and
\* scripts are gone, also those with a > in a quoted value, the title is kept
\* apart, and no text is lost behind them.
Rendered(page) ==
    FoldLeft(LAMBDA acc, e :
                acc \o CASE e.kind = "text" -> <<e.word>>
                         [] e.kind = "break" -> <<"<", "p", ">">>
                         [] e.kind = "link" -> <<"<", "a", "'", e.word, ">", "'", ">">>
                         [] e.kind = "script" -> <<"<", "script", ">", e.word, ">", "<", "/script", ">">>
                         [] OTHER -> <<"<", "title", ">", e.word, "<", "/title", ">">>,
             <<>>, page)
WordsOf(page, kind) == LET es == SelectSeq(page, LAMBDA e : e.kind = kind) IN [k \in DOMAIN es |-> es[k].word]

CleaningGivesBack(page) ==
    Cleaned(Rendered(page)) = [title |-> WordsOf(page, "title"), body |-> WordsOf(page, "text")]
=============================================================================
