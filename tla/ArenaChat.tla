------------------------------ MODULE ArenaChat ------------------------------
(***************************************************************************)
(* The arena's chat and its live feed (arena/steve.py): a chat request and *)
(* its nonce, the rolling chat log, the summary of its older part that is  *)
(* kept between requests, and the queues of the connected pages.           *)
(*                                                                         *)
(* Every request is a thread.  Entries of the log are numbered as they are *)
(* appended, so the log is trimmed + 1 .. said; a summary is known by the  *)
(* entries it was made of.                                                 *)
(***************************************************************************)
EXTENDS Naturals, Sequences, FiniteSets

CONSTANTS
    Clients,       \* threads that serve a chat request
    Nonces,
    NonceMax,      \* nonces before all are forgotten (500)
    ChatLogMax,    \* _CHAT_LOG_MAX
    Keep,          \* entries a prompt holds word for word (_CHAT_HISTORY_WINDOW)
    Pages,         \* connected pages
    QueueMax,      \* size of a page's queue
    Evenings       \* bounds: the requests at a time, chats and messages

ASSUME ArenaChatAssumption ==
    /\ NonceMax \in Nat /\ Keep \in Nat /\ ChatLogMax \in Nat /\ QueueMax \in Nat \ {0}
    /\ Evenings \subseteq [at_once : Nat, chats : Nat, pages : Nat, messages : Nat]

VARIABLES
    evening,       \* the bounds of this behaviour, counted down
    seen_nonces,   \* _seen_nonces
    processed,     \* nonce -> requests with it that were processed
    forgotten,     \* how often all nonces were forgotten
    said, trimmed, \* the chat log
    cache,         \* _chat_summary_cache: count, and the entries of the text
    clients,       \* thread -> where it is, its old entries and its summary
    listeners,     \* _listeners
    queues,        \* page -> messages it was sent, oldest first
    casting        \* messages whose broadcast has not reached the pages

chat_log == <<said, trimmed>>
dedup == <<seen_nonces, processed, forgotten>>
feed == <<listeners, queues, casting>>
chat_vars == <<evening, dedup, chat_log, cache, clients, feed>>

Resting == [pc |-> "rest", old |-> {}, summary |-> {}]

Serves(c, pc) == clients[c].pc = pc
Now(c, pc) == clients' = [clients EXCEPT ![c].pc = pc]
Use(what) == evening[what] > 0 /\ evening' = [evening EXCEPT ![what] = @ - 1]

Log == trimmed + 1 .. said

-----------------------------------------------------------------------------
(* Chat                                                                     *)

\* A request arrives.  Its nonce is looked up and added under a lock; a
\* known one is answered at once.
Receive(c, n) ==
    /\ Use("chats")
    /\ Serves(c, "rest")
    /\ IF n \in seen_nonces THEN UNCHANGED <<dedup, clients>>
       ELSE /\ processed' = [processed EXCEPT ![n] = @ + 1]
            /\ IF Cardinality(seen_nonces) >= NonceMax
               THEN seen_nonces' = {} /\ forgotten' = forgotten + 1
               ELSE seen_nonces' = seen_nonces \cup {n} /\ forgotten' = forgotten
            /\ Now(c, "heard")
    /\ UNCHANGED <<chat_log, cache, feed>>

\* A thought in brackets is only logged.
Thought ==
    /\ Use("chats")
    /\ said' = said + 1
    /\ trimmed' = IF said' - trimmed > ChatLogMax THEN said' - ChatLogMax ELSE trimmed
    /\ UNCHANGED <<dedup, cache, clients, feed>>

\* _compress_chat_history: the summary in the cache is taken when it was made
\* of as many entries.
CacheHits(old) == cache.count = Cardinality(old) /\ cache.text # {}

\* _build_chat_messages: a snapshot of the log, and a summary of what does
\* not fit into the prompt.
Build(c) ==
    /\ Serves(c, "heard")
    /\ \E old \in {{e \in Log : e <= said - Keep}} :
          clients' = [clients EXCEPT ![c] =
              [pc |-> IF old = {} \/ CacheHits(old) THEN "told" ELSE "summing",
               old |-> old,
               summary |-> IF old # {} /\ CacheHits(old) THEN cache.text ELSE {}]]
    /\ UNCHANGED <<evening, dedup, chat_log, cache, feed>>

\* The summary is made, and kept: first its count, then its text.
KeepCount(c) ==
    /\ Serves(c, "summing")
    /\ cache' = [cache EXCEPT !.count = Cardinality(clients[c].old)]
    /\ clients' = [clients EXCEPT ![c].pc = "counted", ![c].summary = @ \cup clients[c].old]
    /\ UNCHANGED <<evening, dedup, chat_log, feed>>

KeepText(c) ==
    /\ Serves(c, "counted")
    /\ cache' = [cache EXCEPT !.text = clients[c].old]
    /\ Now(c, "told")
    /\ UNCHANGED <<evening, dedup, chat_log, feed>>

\* _chat_log_append, for the question and then for the answer
Append_(c) ==
    /\ clients[c].pc \in {"told", "asked"}
    /\ said' = said + 1
    /\ trimmed' = IF said' - trimmed > ChatLogMax THEN said' - ChatLogMax ELSE trimmed
    /\ IF Serves(c, "told") THEN Now(c, "asked") ELSE clients' = [clients EXCEPT ![c] = Resting]
    /\ UNCHANGED <<evening, dedup, cache, feed>>

-----------------------------------------------------------------------------
(* The feed                                                                 *)

\* api_stream: a page connects.
Connect(p) ==
    /\ Use("pages")
    /\ queues[p] = <<>> /\ p \notin listeners
    /\ listeners' = listeners \cup {p}
    /\ UNCHANGED <<dedup, chat_log, cache, clients, queues, casting>>

\* broadcast appends to the feed log, under its lock
Cast(m) ==
    /\ Use("messages")
    /\ casting' = casting \cup {[id |-> m, to |-> Pages]}
    /\ UNCHANGED <<dedup, chat_log, cache, clients, listeners, queues>>

Full(p) == Len(queues[p]) >= QueueMax

\* Mutant: the lock of the listeners is taken for each page.
DeliverOneByOne(b) ==
    /\ \E p \in b.to :
          /\ casting' = (casting \ {b}) \cup ({[b EXCEPT !.to = @ \ {p}]} \ {[b EXCEPT !.to = {}]})
          /\ queues' = IF p \in listeners /\ ~Full(p) THEN [queues EXCEPT ![p] = Append(@, b.id)] ELSE queues
          /\ listeners' = IF Full(p) THEN listeners \ {p} ELSE listeners
    /\ UNCHANGED <<evening, dedup, chat_log, cache, clients>>

\* The message is put into every queue, under the lock of the listeners; a
\* page whose queue is full is dropped.
Deliver(b) ==
    /\ casting' = casting \ {b}
    /\ queues' = [p \in Pages |-> IF p \in listeners /\ ~Full(p) THEN Append(queues[p], b.id) ELSE queues[p]]
    /\ listeners' = {p \in listeners : ~Full(p)}
    /\ UNCHANGED <<evening, dedup, chat_log, cache, clients>>

\* A page reads, and forgets what it showed long ago; or it goes away.
Leave_(p) ==
    /\ queues[p] # <<>>
    /\ queues' = [queues EXCEPT ![p] = <<>>]
    /\ listeners' = listeners \ {p}
    /\ UNCHANGED <<evening, dedup, chat_log, cache, clients, casting>>

-----------------------------------------------------------------------------

ChatInit ==
    /\ evening \in Evenings
    /\ seen_nonces = {} /\ processed = [n \in Nonces |-> 0] /\ forgotten = 0
    /\ said = 0 /\ trimmed = 0
    /\ cache = [count |-> 0, text |-> {}]
    /\ clients = [c \in Clients |-> Resting]
    /\ listeners = {} /\ queues = [p \in Pages |-> <<>>] /\ casting = {}

Serving == {c \in Clients : clients[c].pc # "rest"}

ChatNext ==
    \/ \E c \in Clients, n \in Nonces : Cardinality(Serving) < evening.at_once /\ Receive(c, n)
    \/ Thought
    \/ \E c \in Clients : Build(c) \/ KeepCount(c) \/ KeepText(c) \/ Append_(c)
    \/ \E p \in Pages : Connect(p) \/ Leave_(p)
    \/ Cast(evening.messages)
    \/ \E b \in casting : Deliver(b)

ChatSpec == ChatInit /\ [][ChatNext]_chat_vars

-----------------------------------------------------------------------------

ChatTypeOK ==
    /\ Cardinality(seen_nonces) <= NonceMax
    /\ said - trimmed <= ChatLogMax
    /\ \A p \in Pages : Len(queues[p]) <= QueueMax

\* A retry with the same nonce is processed again only if all nonces were
\* forgotten in between, also when the browser fires twice at once.
NonceIsSpent == \A n \in Nonces : processed[n] <= 1 + forgotten

\* While requests come one at a time and nothing was trimmed, the summary in
\* a prompt is of the entries that are left out of it.
SummaryIsCurrent ==
    \A c \in Clients :
        evening.at_once = 1 /\ trimmed = 0 /\ Serves(c, "told")
            => clients[c].summary = clients[c].old

Before(p, a, b) == \E i, j \in DOMAIN queues[p] : i < j /\ queues[p][i] = a /\ queues[p][j] = b

\* Two pages never see two messages in different orders.
PagesAgree ==
    \A p, q \in Pages : \A i, j \in DOMAIN queues[p] :
        i < j => ~Before(q, queues[p][j], queues[p][i])

\* A message is processed as often as it should be, is summarised with what it
\* followed, and is seen by every page in the same order.
ChatIsOrderly ==
    /\ ChatTypeOK
    /\ NonceIsSpent
    /\ SummaryIsCurrent
    /\ PagesAgree
=============================================================================
