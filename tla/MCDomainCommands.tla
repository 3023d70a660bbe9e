--------------------------- MODULE MCDomainCommands ---------------------------
(***************************************************************************)
(* A small instance: two projects that compete for one unit of workforce   *)
(* and for the funds, a mill that the first project builds, a hall, and  *)
(* two activities of one participant.                                      *)
(***************************************************************************)
EXTENDS DomainCommands, TLC

Designs ==
  1 :> [work |-> 2, upfront |-> 1, progressive |-> 3, reserved |-> 1,
        final |-> 1, reward |-> 1, crew |-> 1, builds |-> "mill"]
  @@ 2 :> [work |-> 1, upfront |-> 0, progressive |-> 1, reserved |-> 2,
           final |-> 0, reward |-> 0, crew |-> 1, builds |-> None]

Upkeeps == "hall" :> 1 @@ "mill" :> 0

Pursuits ==
  1 :> [cost |-> 1, reward |-> 1, optional |-> FALSE, ticks |-> 2,
        needs |-> "hall", who |-> "notable"]
  @@ 2 :> [cost |-> 0, reward |-> 1, optional |-> TRUE, ticks |-> 1,
           needs |-> None, who |-> "notable"]

Forward == {1, 2}

BackAndForth == {-1, 1}

On(commandSet, n, standing) ==
  [commands |-> commandSet, max |-> n, standing |-> standing]

\* The commands are combined so that those that share state meet.
AllScenes ==
  {On({"start", "advance", "complete", "cancel"}, 5, {}),
   On({"start", "cancel", "block", "unblock", "pause", "resume"}, 5, {}),
   On({"create", "maintain", "repair", "damage", "decommission"}, 4, {"hall"}),
   On({"begin", "tick", "resolve", "rest", "return", "abandon"}, 4, {"hall"}),
   On({"begin", "tick", "start", "damage"}, 3, {"hall"})}

Lifecycles == {On({"begin", "resolve", "rest", "return", "abandon"}, 4, {"hall"})}

ProjectScene == {On({"start", "advance", "complete", "cancel"}, 5, {})}
===============================================================================
