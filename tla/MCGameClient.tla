---------------------------- MODULE MCGameClient ----------------------------
(* Scenarios for checking GameClient.                                      *)
EXTENDS GameClient

CONSTANTS me, other, l1

\* Polls of the state, and of the list of players, that may be on their way at a time.
Polls(state, list) == [kind \in Kinds |-> IF kind = "state" THEN state ELSE list]

\* Loot and a player come and go; players come and go and answers are lost; keys are
\* pressed; keys are pressed, answers are lost, and the player is retired.
MCScenarios ==
    { [joiners |-> {other}, leavers |-> {other}, loots |-> {l1}, keys |-> {},
       failures |-> 0, polls |-> Polls(2, 1), presses |-> 0],
      [joiners |-> {other}, leavers |-> {me, other}, loots |-> {}, keys |-> {},
       failures |-> 1, polls |-> Polls(1, 2), presses |-> 0],
      [joiners |-> {}, leavers |-> {}, loots |-> {}, keys |-> {"U", "R"},
       failures |-> 0, polls |-> Polls(1, 1), presses |-> 2],
      [joiners |-> {}, leavers |-> {me}, loots |-> {}, keys |-> {"U"},
       failures |-> 1, polls |-> Polls(1, 1), presses |-> 1] }
=============================================================================
