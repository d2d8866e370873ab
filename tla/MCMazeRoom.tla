----------------------------- MODULE MCMazeRoom -----------------------------
(***************************************************************************)
(* Small rooms for TLC: a walled corridor of four cells, with or without a *)
(* brick across it.  Actors meet, block and shoot one another within two   *)
(* steps, shots need several ticks to cross it, and a spawn has both far   *)
(* and crowded choices.                                                    *)
(***************************************************************************)
EXTENDS MazeRoom

\* Sticks along the corridor with and without the trigger, and a shot at the
\* rim; stick up alone is a blocked move like any other.
MCJoy == ({"left", "right", Still} \X BOOLEAN) \cup {<<"up", TRUE>>}

\* Steps only, for the rooms that ask about seats rather than combat.
MCSteps == {"left", "right"} \X {FALSE}

\* Shots only: the humans of the liveness run stand and fire.
MCShots == {"left", "right"} \X {TRUE}

MCCorridor == OuterWall

MCBrickedCorridor == OuterWall \cup {<<3, 1>>}
=============================================================================
