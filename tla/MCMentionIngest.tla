-------------------------- MODULE MCMentionIngest --------------------------
(***************************************************************************)
(* MentionIngest for TLC: two mentions of one actor, the second an explicit *)
(* reply, and between them one of another, in a title.  The server's        *)
(* answers are every way to refuse one honest page, and pages that skip,    *)
(* repeat, fall behind the floor or report a gap, each under an envelope    *)
(* that holds a page.                                                       *)
(***************************************************************************)
EXTENDS MentionIngest

CONSTANTS ada, bob, steve

MCEvent(type, x, text, title, reply) ==
    [type |-> type, by |-> x, text |-> text, title |-> title, reply |-> reply, oversized |-> FALSE]

MCLedgers ==
    LET at == MCEvent("comment_posted", ada, "mention", "absent", FALSE)
        titled == MCEvent("item_submitted", bob, "absent", "mention", FALSE)
        reply == MCEvent("comment_edited", ada, "plain", "absent", TRUE)
    IN  {<<at, titled, reply>>}

MCPage(floor, gap, seqs) ==
    [instance |-> Instance, floor |-> floor, height |-> Height, gap |-> gap,
     hello |-> FALSE, shaped |-> TRUE, seqs |-> seqs]

MCPages ==
    {MCPage(0, FALSE, q) : q \in {<<3>>, <<3, 2>>}}
    \cup {MCPage(1, g, <<>>) : g \in BOOLEAN}
    \cup {MCPage(2, FALSE, <<2, 3>>), MCPage(1, TRUE, <<1>>),
          [MCPage(0, FALSE, <<1>>) EXCEPT !.instance = "other"],
          [MCPage(0, FALSE, <<1>>) EXCEPT !.hello = TRUE]}

MCBatches ==
    {[seqs |-> {1, 3}, floor |-> 0, gap |-> FALSE], [seqs |-> {3}, floor |-> 3, gap |-> FALSE]}

MCAnswer(p) ==
    [sent |-> TRUE, length |-> 1, claimed |-> 1, content_type |-> "json", looks_like |-> "json",
     status |-> 200, value |-> [error |-> FALSE, result |-> "absent", page |-> TRUE], page |-> p]

MCResponses ==
    LET ok == MCAnswer(MCPage(1, FALSE, <<1, 2>>))
    IN  {MCAnswer(p) : p \in MCPages}
        \cup {[ok EXCEPT !.value = v] : v \in {w \in Values : HoldsPage(w) => w.result = "page" /\ w.page}}
        \cup {[ok EXCEPT !.status = c] : c \in {302, 404, 429, 500}}
        \cup {[ok EXCEPT !.sent = FALSE], [ok EXCEPT !.length = 2], [ok EXCEPT !.claimed = 2],
              [ok EXCEPT !.content_type = "event-stream"], [ok EXCEPT !.looks_like = "html"]}
=============================================================================
