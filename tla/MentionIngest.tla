------------------------------- MODULE MentionIngest -------------------------------
(***************************************************************************)
(* Mention ingestion (ferricula-server/src/mention_ingest.rs): a durable   *)
(* cursor over the news ledger, a ring of processed keys, and a bounded    *)
(* queue of mentions to consider, fed by pages of the ledger.              *)
(*                                                                         *)
(* The bridge that joins the parts is outside src/; what it may do is what *)
(* the API and docs/NUTS_EVENT_CONTRACT.md 3.3 let it: poll after the      *)
(* cursor and apply the page, apply a batch it got in some other way, take *)
(* the pending considerations, save, load after a restart.  An operator    *)
(* may force the cursor forward or back.                                   *)
(*                                                                         *)
(* The body of an event is the part apply_one looks at.  recent, the audit *)
(* ring, is kept without its bound, as the fate of each event.             *)
(***************************************************************************)
EXTENDS Integers, Sequences, SequencesExt, FiniteSets

-----------------------------------------------------------------------------
(***************************************************************************)
(* The events_since client (ferricula-server/src/nutnews_events.rs): which *)
(* answers of the news server it takes for a page of the ledger, and what  *)
(* cursor it then advises.  Everything here is a function of the request   *)
(* and the answer; the client keeps nothing and never retries by itself.   *)
(*                                                                         *)
(* An answer is what the code looks at, in the order it looks: was there   *)
(* one, its size, its content type, what its first bytes look like, its    *)
(* status, the fields of its JSON value, the page found in it.  Messages   *)
(* of errors are left out: every refusal is the same to the caller.        *)
(***************************************************************************)

CONSTANTS
    Instance,    \* expected_instance
    PageLimit,   \* the limit of a request
    MaxResponse  \* max_response_bytes, in units of a page

ASSUME NutsEventsAssumption == PageLimit \in 1 .. 500 /\ MaxResponse \in Nat \ {0}

-----------------------------------------------------------------------------
(* The body of a ledger event                                               *)

Texts == {"mention", "plain", "blank"}

\* map_event_kind, for one spelling of each kind.
KindOf ==
    [comment_posted |-> "comment", comment_edited |-> "comment", item_submitted |-> "item",
     vote_cast |-> "vote", handle_claimed |-> "handle_change",
     item_classified |-> "classification", about_set |-> "other"]

\* normalize_event_fields: an item without text shows its title, a vote and a
\* classification show nothing, whatever text they carry.
Normalized(e) ==
    [kind |-> KindOf[e.type], actor |-> e.by, reply |-> e.reply, oversized |-> e.oversized,
     text |-> IF KindOf[e.type] \in {"vote", "classification"} THEN "blank"
              ELSE IF e.text # "absent" THEN e.text
              ELSE IF KindOf[e.type] = "item" /\ e.title # "absent" THEN e.title
              ELSE "blank"]

-----------------------------------------------------------------------------
(* The answer to a request                                                  *)

\* execute: the answer came within the time, no redirect is followed, and a
\* body that claims to be or turns out longer than the cap is dropped.
Delivered(r) == r.sent /\ r.length <= MaxResponse /\ r.claimed <= MaxResponse

\* reject_lossy_content_type, looks_like_html, looks_like_sse_frame: the live
\* tail and the web pages are no substitute for the page.
IsLossy(r) == r.content_type \in {"event-stream", "html"} \/ r.looks_like \in {"html", "sse"}

\* A JSON value: is there an error member, what is under result, and does
\* the value itself have the four fields of a page?
Values ==
    [error : BOOLEAN,
     result : {"absent", "page", "text_page", "text_other", "is_error", "other"},
     page : BOOLEAN]

\* parse_event_page_value and parse_mcp_or_page_result: an error wins over a
\* result, a result over a bare page; a result is a page, or an MCP envelope
\* whose first text is one, unless it is flagged as an error.
HoldsPage(v) ==
    /\ ~v.error
    /\ \/ v.result \in {"page", "text_page"}
       \/ v.result = "absent" /\ v.page

\* deserialize_page: an SSE hello is refused even when page-shaped, and so
\* are a page without instance and an entry whose event has no type.
Deserializes(p) == ~p.hello /\ p.instance # "missing" /\ p.shaped

Contiguous(seqs) ==
    \A i \in 2 .. Len(seqs) : seqs[i] = seqs[i - 1] + 1

\* Mutant: a page is not held to start right after the cursor.
ValidEventPageAnyStart(p, after) ==
    /\ p.instance = Instance
    /\ Len(p.seqs) <= PageLimit
    /\ p.gap => p.seqs = <<>>
    /\ \A i \in DOMAIN p.seqs : p.seqs[i] > after
    /\ Contiguous(p.seqs)

\* validate_event_page
ValidEventPage(p, after) ==
    /\ p.instance = Instance
    /\ Len(p.seqs) <= PageLimit
    /\ p.floor > 0 /\ p.height > 0 => p.floor <= p.height
    \* history behind the cursor may not be purged in silence
    /\ p.gap \/ after = 0 \/ p.floor <= 1 \/ after >= p.floor - 1
    /\ p.gap => p.seqs = <<>>
    /\ \A i \in DOMAIN p.seqs :
          /\ p.seqs[i] > after
          /\ p.height > 0 => p.seqs[i] <= p.height
          /\ p.floor > 0 => p.seqs[i] >= p.floor
    /\ Contiguous(p.seqs)
    \* the page starts where the cursor, or retained history, says
    /\ LET first == IF after > 0 THEN after + 1
                    ELSE IF p.floor > 0 THEN p.floor ELSE Head(p.seqs)
       IN  p.seqs # <<>> /\ (p.floor = 0 \/ first >= p.floor) => Head(p.seqs) = first

\* interpret_response after the transport: the answer is a page to apply.
Accepted(r, after) ==
    /\ Delivered(r)
    /\ ~IsLossy(r)
    /\ r.looks_like = "json"
    /\ r.status \in 200 .. 299
    /\ HoldsPage(r.value)
    /\ Deserializes(r.page)
    /\ ValidEventPage(r.page, after)

\* suggested_cursor_after_process
SuggestedCursor(last, p) ==
    IF p.gap THEN [kind |-> "Reconcile", to |-> last]
    ELSE IF p.seqs # <<>> /\ Last(p.seqs) > last THEN [kind |-> "To", to |-> Last(p.seqs)]
    ELSE [kind |-> "Unchanged", to |-> last]

-----------------------------------------------------------------------------

CONSTANTS
    Actors,               \* normalized actors other than the handle
    Handle,               \* steve_handle
    Ledgers,              \* the ledgers considered: sequences of event bodies
    Responses,            \* answers of the server to a poll
    Batches,              \* batches that come in some other way
    Height,               \* length of the ledger
    DedupeCapacity, ConsiderationCapacity, MaxPendingPerActor, MaxApplyPerBatch,
    MaxCrashes, MaxForced   \* bounds for TLC

\* MentionIngestConfig::normalize_and_validate
ValidConfig ==
    /\ DedupeCapacity \in Nat \ {0}
    /\ ConsiderationCapacity \in Nat \ {0}
    /\ MaxApplyPerBatch \in 1 .. 500
    /\ MaxPendingPerActor \in 1 .. ConsiderationCapacity
    /\ Handle \notin Actors

ASSUME MentionIngestAssumption == ValidConfig

Seqs == 1 .. Height

Noise == {"vote", "handle_change", "classification"}

\* A raw event of the ledger; reply is whether the bridge found it to be a
\* reply to Steve, oversized whether an identifying field is too long.
EventBodies ==
    [type : DOMAIN KindOf, by : Actors \cup {Handle}, text : Texts \cup {"absent"},
     title : Texts \cup {"absent"}, reply : BOOLEAN, oversized : BOOLEAN]

\* EventBatch.validate: a gap comes without events, no sequence twice.
ValidBatch(b) == b.seqs \subseteq Seqs /\ (b.gap => b.seqs = {})

\* The server's pages hold events of its ledger.
ASSUME LedgersAssumption ==
    /\ Height \in Nat
    /\ Ledgers \subseteq [Seqs -> EventBodies]
    /\ \A b \in Batches : ValidBatch(b)
    /\ \A r \in Responses :
          r.page.seqs \in Seq(Seqs) /\ r.page.floor \in Nat /\ r.page.height \in Nat

Considerations == [seq : Seqs, actor : Actors, enqueued : BOOLEAN]
Fates == {"unseen", "considered", "refused", "skipped"}

VARIABLES
    ledger,     \* seq -> body: what the news server holds
    state,      \* MentionIngestState of the running process
    disk,       \* the state last saved
    handed,     \* seq -> times the runtime was given its consideration, up to 2
    crashes,    \* restarts so far
    forced,     \* operator's calls so far
    rewound     \* was one of them a rewind?

vars == <<ledger, state, disk, handed, crashes, forced, rewound>>

\* jumped: the sequences an operator, or a first page, put behind the cursor.
Fresh ==
    [last |-> 0, gap |-> FALSE, ring |-> <<>>, queue |-> <<>>,
     fate |-> [s \in Seqs |-> "unseen"], jumped |-> {}]

Init ==
    /\ ledger \in Ledgers
    /\ state = Fresh
    /\ disk = Fresh
    /\ handed = [s \in Seqs |-> 0]
    /\ crashes = 0
    /\ forced = 0
    /\ rewound = FALSE

-----------------------------------------------------------------------------
(* One event                                                                *)

AlreadyProcessed(st, s) == s \in Range(st.ring)

KeepLast(q, n) == IF Len(q) > n THEN SubSeq(q, Len(q) - n + 1, Len(q)) ELSE q

\* remember_processed
Remembered(st, s) ==
    IF AlreadyProcessed(st, s) THEN st
    ELSE [st EXCEPT !.ring = KeepLast(Append(@, s), DedupeCapacity)]

Pending(st) == {i \in DOMAIN st.queue : ~st.queue[i].enqueued}

PendingForActor(st, a) == Cardinality({i \in Pending(st) : st.queue[i].actor = a})

\* Mutant: a retained consideration of the event is not looked for.
HasConsiderationUnlessHanded(st, s) == \E i \in Pending(st) : st.queue[i].seq = s

HasConsiderationFor(st, s) == \E i \in DOMAIN st.queue : st.queue[i].seq = s

\* admit_consideration: a full queue gives up its oldest handed-off entry.
Evictable(st) ==
    {i \in DOMAIN st.queue :
        st.queue[i].enqueued /\ \A j \in 1 .. i - 1 : ~st.queue[j].enqueued}

IsFull(st) == Len(st.queue) >= ConsiderationCapacity

Admitted(st, c) ==
    LET kept == IF IsFull(st) THEN RemoveAt(st.queue, CHOOSE i \in Evictable(st) : TRUE)
                ELSE st.queue
    IN  [st EXCEPT !.queue = Append(kept, c)]

\* classify_mention, on what remains of the text within its byte cap.
IsMention(b) == b.reply \/ b.text = "mention"

IsCandidate(b) ==
    /\ ~b.oversized
    /\ b.kind \notin Noise
    /\ b.actor # Handle
    /\ ~(b.text = "blank" /\ b.kind = "comment")
    /\ IsMention(b)

Fate(st, s) ==
    LET b == Normalized(ledger[s])
    IN  IF ~IsCandidate(b) \/ HasConsiderationFor(st, s) THEN "skipped"
        ELSE IF \/ PendingForActor(st, b.actor) >= MaxPendingPerActor
                \/ IsFull(st) /\ Evictable(st) = {}
             THEN "refused"
        ELSE "considered"

\* apply_one for an event that is new.
Applied(st, s) ==
    LET f == Fate(st, s)
        r == [Remembered(st, s) EXCEPT !.fate[s] = f]
    IN  IF f = "considered"
        THEN Admitted(r, [seq |-> s, actor |-> ledger[s].by, enqueued |-> FALSE])
        ELSE r

-----------------------------------------------------------------------------
(* One batch                                                                *)

\* What the loop of apply_batch carries from event to event.
Start(st) ==
    [st |-> st, next |-> st.last + 1, applied |-> 0,
     bootstrap |-> st.last = 0, hole |-> FALSE, advanced |-> FALSE]

\* The sequence an event above the cursor must have; the first event of all
\* sets it.
Expected(a, s) == IF a.bootstrap THEN s ELSE a.next

\* The cursor moves to the event; what comes before the first of all is left.
Passed(st, s, bootstrap) ==
    [Applied(st, s) EXCEPT !.last = s,
                           !.jumped = IF bootstrap THEN @ \cup 1 .. s - 1 ELSE @]

\* An event that is next in line: a key still in the ring is skipped, and
\* then the cursor does not move with it.
InOrder(a, s) ==
    LET onward == [a EXCEPT !.next = s + 1, !.bootstrap = FALSE]
    IN  IF AlreadyProcessed(a.st, s) THEN onward
        ELSE [onward EXCEPT !.applied = @ + 1, !.advanced = TRUE,
                            !.st = Passed(@, s, a.bootstrap)]

\* Mutant: a hole is taken for the next event.
TurnOverHoles(a, s) ==
    IF s <= a.st.last THEN [a EXCEPT !.st = Remembered(@, s)]
    ELSE IF a.applied >= MaxApplyPerBatch THEN a
    ELSE InOrder(a, s)

\* One turn of the loop: behind the cursor, deferred, a hole, or in order.
Turn(a, s) ==
    IF s <= a.st.last THEN [a EXCEPT !.st = Remembered(@, s)]
    ELSE IF a.hole \/ a.applied >= MaxApplyPerBatch THEN a
    ELSE IF s # Expected(a, s) THEN [a EXCEPT !.hole = TRUE, !.st.gap = TRUE]
    ELSE InOrder(a, s)

\* What a turn leaves where the last one stopped (a is evaluated once).
Continued(done, s, S) == CHOOSE v \in {IF s \in S THEN Turn(a, s) ELSE a : a \in {done}} : TRUE

\* The loop of apply_batch, over the events of S in order of their sequence.
Loop(start, S) ==
    LET after[s \in 0 .. Height] == IF s = 0 THEN start ELSE Continued(after[s - 1], s, S)
    IN  after[Height]

\* The end of apply_batch: contiguity held or was restored.
Settled(a) == IF ~a.hole /\ a.advanced THEN [a.st EXCEPT !.gap = FALSE] ELSE a.st

\* Mutant: a gap freezes the cursor until an operator forces it.
AfterBatchUnlessGap(st, S, floor, gap) ==
    IF gap \/ st.gap \/ (st.last > 0 /\ floor > st.last + 1)
    THEN [st EXCEPT !.gap = TRUE]
    ELSE Settled(Loop(Start(st), S))

\* apply_batch, for the events S of a batch that validates.
AfterBatch(st, S, floor, gap) ==
    IF gap \/ (st.last > 0 /\ floor > st.last + 1)
    THEN [st EXCEPT !.gap = TRUE]
    ELSE Settled(Loop(Start(st), S))

-----------------------------------------------------------------------------
(* The bridge and the operator                                              *)

\* Poll after the cursor and apply the page, if the client takes it for one.
Poll(r) ==
    /\ Accepted(r, state.last)
    /\ state' = AfterBatch(state, Range(r.page.seqs), r.page.floor, r.page.gap)
    /\ UNCHANGED <<ledger, disk, handed, crashes, forced, rewound>>

\* What a server that keeps its contract answers.
HonestResponse ==
    [sent |-> TRUE, length |-> 1, claimed |-> 1, content_type |-> "json", looks_like |-> "json",
     status |-> 200, value |-> [error |-> FALSE, result |-> "text_page", page |-> FALSE],
     page |-> [instance |-> Instance, floor |-> 1, height |-> Height, gap |-> FALSE,
               hello |-> FALSE, shaped |-> TRUE,
               seqs |-> [i \in 1 .. IF Height - state.last < PageLimit THEN Height - state.last
                                   ELSE PageLimit |-> state.last + i]]]

PollHonest == \E r \in {HonestResponse} : Poll(r)

\* A batch that did not come from a poll after this cursor: a page fetched
\* before a restart or a rewind, or a source that skips and repeats.
Deliver(b) ==
    /\ state' = AfterBatch(state, b.seqs, b.floor, b.gap)
    /\ UNCHANGED <<ledger, disk, handed, crashes, forced, rewound>>

Once(n) == IF n < 2 THEN n + 1 ELSE n

HandedOver(queue) == [i \in DOMAIN queue |-> [queue[i] EXCEPT !.enqueued = TRUE]]

\* take_pending_for_enqueue
TakePending ==
    /\ Pending(state) # {}
    /\ handed' = [s \in Seqs |->
          IF \E i \in Pending(state) : state.queue[i].seq = s THEN Once(handed[s]) ELSE handed[s]]
    /\ state' = [state EXCEPT !.queue = HandedOver(@)]
    /\ UNCHANGED <<ledger, disk, crashes, forced, rewound>>

\* mark_enqueued, for the first entry of the consideration.
MarkEnqueued(s) ==
    /\ \E i \in Pending(state) : state.queue[i].seq = s
    /\ LET i == CHOOSE j \in DOMAIN state.queue :
                   state.queue[j].seq = s /\ \A k \in 1 .. j - 1 : state.queue[k].seq # s
       IN  /\ ~state.queue[i].enqueued
           /\ state' = [state EXCEPT !.queue[i].enqueued = TRUE]
    /\ handed' = [handed EXCEPT ![s] = Once(@)]
    /\ UNCHANGED <<ledger, disk, crashes, forced, rewound>>

\* Mutant: only the cursor is saved.
SaveCursor ==
    /\ disk # state
    /\ disk' = [disk EXCEPT !.last = state.last, !.fate = state.fate, !.jumped = state.jumped]
    /\ UNCHANGED <<ledger, state, handed, crashes, forced, rewound>>

\* save: a temporary file, then a rename.
Save ==
    /\ disk # state
    /\ disk' = state
    /\ UNCHANGED <<ledger, state, handed, crashes, forced, rewound>>

\* The process stops; load normalizes what was saved, which, with the config
\* as it was, changes nothing: the ring has no duplicates and fits.
Restart ==
    /\ crashes < MaxCrashes
    /\ crashes' = crashes + 1
    /\ state' = [disk EXCEPT !.ring = KeepLast(@, DedupeCapacity),
                             !.queue = KeepLast(@, ConsiderationCapacity)]
    /\ UNCHANGED <<ledger, disk, handed, forced, rewound>>

\* force_cursor, forward only.
ForceCursor(n) ==
    /\ forced < MaxForced
    /\ n >= state.last
    /\ forced' = forced + 1
    /\ state' = [state EXCEPT !.last = n, !.gap = FALSE,
                              !.jumped = @ \cup state.last + 1 .. n]
    /\ UNCHANGED <<ledger, disk, handed, crashes, rewound>>

\* force_cursor_rewind: keys and considerations are kept.  Forward it does
\* what ForceCursor does.
ForceCursorRewind(n) ==
    /\ forced < MaxForced
    /\ n < state.last
    /\ forced' = forced + 1
    /\ rewound' = TRUE
    /\ state' = [state EXCEPT !.last = n, !.gap = FALSE]
    /\ UNCHANGED <<ledger, disk, handed, crashes>>

Next ==
    \/ \E r \in Responses : Poll(r)
    \/ PollHonest
    \/ \E b \in Batches : Deliver(b)
    \/ TakePending
    \/ \E s \in Seqs : MarkEnqueued(s) \/ ForceCursor(s) \/ ForceCursorRewind(s - 1)
    \/ Save
    \/ Restart

Spec == Init /\ [][Next]_vars

\* The bridge polls again and again (contract 3.3), and the server keeps
\* answering: the fairness under which the cursor is to move.
FairSpec == Spec /\ WF_vars(PollHonest)

-----------------------------------------------------------------------------

\* The queue and the ring keep their bounds, and no actor has more pending
\* considerations than its share.
TypeOK ==
    /\ state.last \in 0 .. Height
    /\ Range(state.ring) \subseteq Seqs /\ Len(state.ring) <= DedupeCapacity
    /\ Range(state.queue) \subseteq Considerations
    /\ Len(state.queue) <= ConsiderationCapacity
    /\ \A a \in Actors : PendingForActor(state, a) <= MaxPendingPerActor
    /\ state.fate \in [Seqs -> Fates]

\* Every event behind the cursor was looked at, unless an operator moved the
\* cursor past it or the first page of all began after it: pages that skip,
\* repeat or reorder events never make the cursor pass over one.
NothingPassedOver ==
    \A s \in 1 .. state.last : state.fate[s] # "unseen" \/ s \in state.jumped

\* A mention that was admitted is still pending or was given to the runtime,
\* whatever was saved before a restart.
ConsideredIsKept ==
    \A s \in Seqs : state.fate[s] = "considered" =>
        handed[s] > 0 \/ \E i \in Pending(state) : state.queue[i].seq = s

\* An event never has two considerations at a time, though a rewind may
\* replay it after its key has left the ring.
OneConsiderationPerEvent ==
    \A i, j \in DOMAIN state.queue :
        state.queue[i].seq = state.queue[j].seq => i = j

\* The runtime gets a mention twice only after a restart from an older state
\* or a deliberate replay.
HandedOnce ==
    \A s \in Seqs : handed[s] > 1 => crashes > 0 \/ rewound

\* A page the client takes moves the cursor as the client was told.
FollowsAdvice(r) ==
    Accepted(r, state.last) /\ Len(r.page.seqs) <= MaxApplyPerBatch =>
        LET advice == SuggestedCursor(state.last, r.page)
            then == AfterBatch(state, Range(r.page.seqs), r.page.floor, r.page.gap)
        IN  /\ then.last = advice.to
            /\ advice.kind = "To" => ~then.gap
            /\ advice.kind = "Reconcile" => then.gap

\* The client's advice and the ingest agree: a page the client takes moves
\* the cursor to its last event and leaves no gap, unless it is longer than a
\* batch, and only a gap page asks for reconciliation.  A rewind is the
\* exception: keys the ring still holds do not move the cursor again.
AcceptedPageAdvances ==
    ~rewound => (\A r \in Responses : FollowsAdvice(r)) /\ FollowsAdvice(HonestResponse)

\* No batch, hand-over or operator's call displaces a pending mention: it
\* leaves the queue only after it was handed over.
PendingIsNeverDisplaced ==
    [][\A i \in Pending(state) :
         \/ \E j \in DOMAIN state'.queue : state'.queue[j].seq = state.queue[i].seq
         \/ crashes' # crashes]_vars

\* Holes, gaps, lost polls and restarts hold the cursor up, never for good.
CatchesUp == []<>(state.last = Height \/ rewound)

\* A mention that was admitted is in one place until it was handed over, and
\* is handed over once, restarts and replays apart.
MentionsAreKeptOnce ==
    /\ ConsideredIsKept
    /\ OneConsiderationPerEvent
    /\ HandedOnce

\* The state stays within its bounds, and a page that the client takes moves it
\* as the client was told.
PagesAreTaken ==
    /\ TypeOK
    /\ AcceptedPageAdvances

\* The cursor comes to the head of the feed, and no newer mention displaces one
\* that waits.
IngestGoesOn ==
    /\ PendingIsNeverDisplaced
    /\ CatchesUp
=============================================================================
