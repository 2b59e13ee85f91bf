--------------------------- MODULE MCSteveRuntime ---------------------------
(***************************************************************************)
(* SteveRuntime on small instances: a day of the schedule, bursts of       *)
(* mentions against a budget, and failures; days on which all must settle. *)
(***************************************************************************)
EXTENDS SteveRuntime

MCKinds == <<"reflection">>

Calm == [schedule |-> FALSE, sleeps |-> FALSE, prompt |-> TRUE, tasks |-> {}, modes |-> {}, settings |-> {},
         readings |-> {FALSE}, mentions |-> 0, crashes |-> 0, failures |-> 0]

MCWorkloads ==
  {[Calm EXCEPT !.schedule = TRUE, !.prompt = FALSE, !.modes = {"paused", "engaged"}, !.mentions = 2],
   [Calm EXCEPT !.tasks = {"wake"}, !.modes = {"engaged"}, !.mentions = 3],
   [Calm EXCEPT !.tasks = {"read"}, !.modes = {"deliberative"}, !.readings = BOOLEAN, !.mentions = 1],
   [Calm EXCEPT !.schedule = TRUE, !.prompt = FALSE, !.modes = {"paused", "engaged"}, !.settings = BOOLEAN],
   [Calm EXCEPT !.schedule = TRUE, !.sleeps = TRUE, !.prompt = FALSE, !.modes = {"paused", "asleep"},
                !.crashes = 1, !.failures = 1]}

MCSettling == {[Calm EXCEPT !.schedule = TRUE, !.modes = {"engaged"}, !.mentions = 2]}
MCStalling == {[Calm EXCEPT !.modes = {"paused", "engaged"}, !.mentions = 1]}

MentionSymmetry == Permutations(Mentions)
=============================================================================
