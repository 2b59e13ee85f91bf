------------------------------- MODULE MCArena -------------------------------
(***************************************************************************)
(* The arena for TLC: its loops, its calls and its chat.  A behaviour is a *)
(* busy day of one of them, the other two rest.                            *)
(***************************************************************************)
EXTENDS Arena, ArenaChat

MCCloud == <<"claude", "openai">>

RestDay ==
    [loops |-> {}, requests |-> 0, choices |-> 0, chats |-> 0,
     mails |-> 0, pollers |-> 0, outages |-> 0, replies |-> 0]
MCDays ==
    {RestDay,
     [RestDay EXCEPT !.loops = {"advocate"}, !.requests = 4],
     [RestDay EXCEPT !.loops = {"think"}, !.requests = 3],
     [RestDay EXCEPT !.loops = {"think"}, !.requests = 1, !.mails = 3, !.pollers = 1],
     [RestDay EXCEPT !.loops = {"think"}, !.requests = 1, !.mails = 1, !.pollers = 2, !.outages = 1],
     [RestDay EXCEPT !.loops = {"think"}, !.requests = 1, !.mails = 1, !.pollers = 1, !.replies = 1],
     [RestDay EXCEPT !.loops = {"think"}, !.requests = 1, !.choices = 2, !.chats = 2]}

RestHour == [jobs |-> <<{}, {}>>, models |-> {}, switches |-> 0, budgets |-> {1}]
MCHours ==
    {RestHour,
     [RestHour EXCEPT !.jobs = <<{"talk"}, {"talk"}>>, !.models = {"claude"}, !.budgets = {2}],
     [RestHour EXCEPT !.jobs = <<{"draw", "vision"}, {"draw", "advocate"}>>, !.switches = 2, !.budgets = {0, 1}],
     [RestHour EXCEPT !.jobs = <<{"talk"}, {"draw"}>>, !.models = {"claude"}, !.switches = 1],
     [RestHour EXCEPT !.jobs[1] = {"prompt"}, !.models = {"claude"}, !.switches = 1]}

RestEvening == [at_once |-> 0, chats |-> 0, pages |-> 0, messages |-> 0]
MCEvenings ==
    {RestEvening,
     [RestEvening EXCEPT !.at_once = 2, !.chats = 4],
     [RestEvening EXCEPT !.at_once = 1, !.chats = 5],
     [RestEvening EXCEPT !.pages = 3, !.messages = 4]}

Init ==
    /\ LoopsInit /\ CallsInit /\ ChatInit
    /\ \/ hour = RestHour /\ evening = RestEvening
       \/ day = RestDay /\ evening = RestEvening
       \/ day = RestDay /\ hour = RestHour

Next ==
    \/ LoopsNext /\ UNCHANGED <<call_vars, chat_vars>>
    \/ CallsNext /\ UNCHANGED <<loop_vars, chat_vars>>
    \/ ChatNext /\ UNCHANGED <<loop_vars, call_vars>>

Spec == Init /\ [][Next]_<<loop_vars, call_vars, chat_vars>> /\ LoopsFairness /\ CallsFairness

\* Jobs end, stops and messages are heard, and a loop that lives on dreams.
ArenaGoesOn ==
    /\ EveryJobEnds
    /\ StopIsHeard
    /\ MailIsHeard
    /\ DreamsComeAgain
=============================================================================
