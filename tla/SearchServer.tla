----------------------------- MODULE SearchServer -----------------------------
(***************************************************************************)
(* The HTTP server of the search tool (ferricula-search agent.rs, serve    *)
(* and handle_connection): one thread accepts connections and refuses them *)
(* above a limit, each accepted one has a thread that reads a request,     *)
(* runs the command line for a tool call and answers.                      *)
(*                                                                         *)
(* A client may send its request, send part of it and stay, send a header  *)
(* that fills the buffer without an end, or go away.  What a request asks  *)
(* for is a kind; the body of a message is a JSON-RPC method.              *)
(***************************************************************************)
EXTENDS Naturals, FiniteSets

CONSTANTS
    Clients,            \* connections that may be opened; none: no server
    MaxConnections      \* MAX_CONCURRENT_CONNECTIONS

VARIABLES
    conn,               \* client -> where its connection is
    active,             \* the shared count of connections being handled
    stateFile           \* the default index has a state.json

serverVars == <<conn, active, stateFile>>

\* The path of a request, and what the body of a message asks for.
Paths == {"options", "sse", "message", "other", "short"}
Methods == {"garbage", "notification", "list", "index", "forced", "search"}

Handled == {"head", "body", "work", "reply", "held", "leaving"}
Handlers == {c \in Clients : conn[c].at \in Handled}

Goes(c, at) == conn' = [conn EXCEPT ![c].at = at]

-----------------------------------------------------------------------------
Room == active < MaxConnections

\* Mutant: a connection above the limit waits for a place.
AcceptWaits(c) ==
    /\ conn[c].at = "knocks" /\ Room
    /\ Goes(c, "head") /\ active' = active + 1
    /\ UNCHANGED stateFile

\* serve: the accepting thread alone raises the count, before the spawn.
Accept(c) ==
    /\ conn[c].at = "knocks"
    /\ IF Room THEN Goes(c, "head") /\ active' = active + 1
               ELSE Goes(c, "refused") /\ UNCHANGED active
    /\ UNCHANGED stateFile

\* The header arrived, and with it the path.
ReadHead(c) ==
    /\ conn[c].at = "head"
    /\ \E path \in Paths :
        Goes(c, CASE path = "message" -> "body" [] path = "sse" -> "held"
                   [] path = "short" -> "leaving" [] OTHER -> "reply")
    /\ UNCHANGED <<active, stateFile>>

\* 8192 bytes without the end of the header.  A message is cut behind them:
\* the slice panics and its thread is gone, its place in the count is not.
Overrun(c) ==
    /\ conn[c].at = "head"
    /\ \E path \in Paths \ {"short"} :
        Goes(c, CASE path = "message" -> "panicked" [] path = "sse" -> "held" [] OTHER -> "reply")
    /\ UNCHANGED <<active, stateFile>>

\* execute_tool_by_name: an index with a state file is updated, unless it is
\* forced; what else there is to do, is to make one.
Updates(method) == method = "index" /\ stateFile

\* The body arrived, or the client closed and what there is of it is parsed.
\* Only a tool call has work to do.
Body(c, method) ==
    /\ conn[c].at = "body"
    /\ conn' = [conn EXCEPT ![c] = [at |-> IF method \in {"index", "forced", "search"} THEN "work" ELSE "reply",
                                    update |-> Updates(method), makes |-> method \in {"index", "forced"}]]
    /\ UNCHANGED <<active, stateFile>>

\* run_lume_cli: the child ends, well or not; an index that was made or
\* updated leaves its state file.
Work(c) ==
    /\ conn[c].at = "work"
    /\ \E ok \in BOOLEAN : stateFile' = (stateFile \/ (ok /\ conn[c].makes))
    /\ Goes(c, "reply")
    /\ UNCHANGED active

\* Mutant: a thread whose client is gone ends without giving its place back.
ReplyOrDrop(c) ==
    /\ conn[c].at = "reply"
    /\ Goes(c, "leaving") \/ Goes(c, "closed")
    /\ UNCHANGED <<active, stateFile>>

\* The reply is written, or the client is gone and the write fails.
Reply(c) ==
    /\ conn[c].at = "reply"
    /\ Goes(c, "leaving")
    /\ UNCHANGED <<active, stateFile>>

\* The thread ends: the place is given back.
Leave(c) ==
    /\ conn[c].at = "leaving"
    /\ Goes(c, "closed")
    /\ active' = active - 1
    /\ UNCHANGED stateFile

\* A client connects, or goes away: a read that waits for it ends with 0
\* bytes or an error, an event stream is closed.
Knock(c) ==
    /\ conn[c].at = "closed"
    /\ Goes(c, "knocks")
    /\ UNCHANGED <<active, stateFile>>

GoAway(c) ==
    /\ conn[c].at \in {"head", "held"}
    /\ Goes(c, "leaving")
    /\ UNCHANGED <<active, stateFile>>

ServerInit ==
    /\ conn = [c \in Clients |-> [at |-> "closed", update |-> FALSE, makes |-> FALSE]]
    /\ active = 0
    /\ stateFile = FALSE

Served(c) == Accept(c) \/ Work(c) \/ Reply(c) \/ Leave(c)

ServerNext ==
    \E c \in Clients :
        \/ Served(c) \/ ReadHead(c) \/ Overrun(c) \/ Knock(c) \/ GoAway(c)
        \/ \E method \in Methods : Body(c, method)

\* The server's threads run and the command line ends; clients may do nothing.
ServerFairness == \A c \in Clients : WF_conn(Served(c))

-----------------------------------------------------------------------------
\* "Cap on simultaneously-handled connections" (agent.rs 710): the check and
\* the count are two steps, and the limit holds in every interleaving with
\* threads that end.
WithinTheLimit == Cardinality(Handlers) <= MaxConnections

\* The count is of the threads there are and of those that were lost; no
\* early return, failed write or client that went away leaks a place.
PlacesAreCounted ==
    active = Cardinality(Handlers) + Cardinality({c \in Clients : conn[c].at = "panicked"})

\* "excess requests get an immediate 503" (agent.rs 710-711): nobody is kept
\* waiting by clients that stay, and a tool call is answered.
NobodyIsKeptWaiting == \A c \in Clients : []<>(conn[c].at \notin {"knocks", "work", "reply"})

\* An update that was decided on finds the state file it was decided on.
UpdatesFindTheirState == \A c \in Clients : conn[c].at = "work" /\ conn[c].update => stateFile
=============================================================================
