------------------------------- MODULE MCSearch -------------------------------
(***************************************************************************)
(* SearchQueries for TLC: file a is one long section in two parts, b a     *)
(* short one; a second content changes the text of a part and moves b's    *)
(* section.  The jobs: an operator forgets and seals while the corpus      *)
(* changes and is searched; a store that fails or drops sessions; runs     *)
(* that extract entities, fail, crash and are started again.               *)
(***************************************************************************)
EXTENDS SearchQueries

MCFiles == {"a", "b"}
MCChunks(f, c) ==
    CASE c = "binary" -> <<>>
      [] f = "a" -> <<[title |-> "part1", at |-> 1, text |-> "old"],
                      [title |-> "part2", at |-> 9, text |-> IF c = "first" THEN "old" ELSE "new"]>>
      [] OTHER -> <<[title |-> "short", at |-> IF c = "first" THEN 1 ELSE 2, text |-> "old"]>>
MCIsText(c) == c # "binary"
MCSize(c) == IF c = "first" THEN 3 ELSE 4
MCSameSplit(t, u) == {t, u} = {"part1", "part2"}

Still == [edits |-> 0, runs |-> 1, faults |-> 0, crashes |-> 0, flushes |-> 0, expiries |-> 0,
          searches |-> 0, streams |-> 0, commands |-> 0, slips |-> 0,
          semantic |-> FALSE, entities |-> FALSE, store_keeps |-> TRUE]
MCJobs ==
    {[Still EXCEPT !.searches = 1, !.streams = 1, !.commands = 2, !.semantic = TRUE],
     [Still EXCEPT !.searches = 1, !.commands = 1, !.slips = 1],
     [Still EXCEPT !.searches = 2, !.commands = 1, !.semantic = TRUE],
     [Still EXCEPT !.runs = 2, !.edits = 1, !.searches = 1, !.commands = 1],
     [Still EXCEPT !.runs = 2, !.searches = 1, !.commands = 1, !.semantic = TRUE],
     [Still EXCEPT !.edits = 1, !.searches = 1, !.commands = 1, !.semantic = TRUE],
     [Still EXCEPT !.runs = 2, !.edits = 1, !.commands = 1, !.semantic = TRUE],
     [Still EXCEPT !.runs = 2, !.edits = 1, !.searches = 1, !.faults = 1, !.semantic = TRUE],
     [Still EXCEPT !.edits = 1, !.searches = 2, !.expiries = 2, !.semantic = TRUE, !.store_keeps = FALSE],
     [Still EXCEPT !.runs = 2, !.edits = 1, !.faults = 1, !.crashes = 1, !.entities = TRUE],
     [Still EXCEPT !.flushes = 2, !.entities = TRUE],
     [Still EXCEPT !.runs = 2, !.edits = 2, !.crashes = 1]}
=============================================================================
