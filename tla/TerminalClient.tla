--------------------------- MODULE TerminalClient ---------------------------
(***************************************************************************)
(* The terminal client's own version of the same handlers, written inline  *)
(* in the loop of main.  x = y = 255 is its way to hide an actor, which    *)
(* every snapshot overwrites.                                              *)
(***************************************************************************)
EXTENDS SdlClient

\* gameplay_enabled.
GameplayEnabled(c) ==
    /\ c.welcome
    /\ c.authorized
    /\ c.map_ready
    /\ c.snapshot_ready
    /\ c.phase = "playing"

OnWelcome(c, f) ==
    [c EXCEPT !.welcome = TRUE, !.round = f.round, !.phase = f.phase,
              !.authorized = FALSE, !.map_ready = FALSE,
              !.snapshot_ready = FALSE]

OnRoundStart(c, f) ==
    IF f.round = c.round \/ IsNewer(f.round, c.round)
    THEN LET other == f.round # c.round \/ ~c.authorized
         IN  [c EXCEPT !.map_ready = c.map_ready /\ ~other,
                       !.snapshot_ready = c.snapshot_ready /\ ~other,
                       !.round = f.round,
                       !.phase = "playing",
                       !.authorized = TRUE]
    ELSE c

OnMatchEnd(c, f) ==
    IF f.round = c.round THEN [c EXCEPT !.phase = "over"] ELSE c

\* The slip of letting any map open the round.
OnBrickFull_Direct(c, f, reliable) ==
    IF f.round = c.round
    THEN [c EXCEPT !.maze = f.maze, !.map_of = f.round, !.map_ready = TRUE]
    ELSE c

OnBrickFull(c, f, reliable) ==
    IF f.round = c.round
    THEN [c EXCEPT !.maze = f.maze, !.map_of = f.round,
                   !.map_ready = c.map_ready \/ reliable]
    ELSE c

OnBrickDelta(c, f) ==
    IF f.round = c.round /\ c.phase = "playing"
    THEN [c EXCEPT !.maze = c.maze \ {f.brick}]
    ELSE c

\* Bit 0 hides the actor; a final respawn carries it as well.
OnRespawn(c, f) ==
    IF f.round = c.round /\ c.phase = "playing"
    THEN [c EXCEPT !.hidden = TRUE]
    ELSE c

OnSnapshot(c, f) ==
    IF f.round = c.round /\ c.phase = "playing"
    THEN [c EXCEPT !.snapshot_ready = TRUE, !.snapshot_of = f.round,
                   !.hidden = FALSE]
    ELSE c

\* The loop body for a frame that is not a RELIABLE_EVENT, or for its inside.
OnFrame(c, f, reliable) ==
    IF f.kind = "welcome" THEN OnWelcome(c, f)
    ELSE IF ~c.welcome THEN c
    ELSE CASE f.kind = "round_start" -> OnRoundStart(c, f)
           [] f.kind = "match_end"   -> OnMatchEnd(c, f)
           [] f.kind = "brick_full"  -> OnBrickFull(c, f, reliable)
           [] f.kind = "brick_delta" -> OnBrickDelta(c, f)
           [] f.kind = "respawn"     -> OnRespawn(c, f)
           [] f.kind = "snapshot"    -> OnSnapshot(c, f)
           [] OTHER                  -> c
=============================================================================
