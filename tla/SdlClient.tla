----------------------------- MODULE SdlClient -----------------------------
(***************************************************************************)
(* What handle_packet of the SDL client makes of a frame: the barrier that *)
(* keeps the player's input closed until the round's authorization, map    *)
(* and snapshot have arrived, and the maze it draws.  map_of and           *)
(* snapshot_of are history: the rounds the accepted map and snapshot were  *)
(* sent for.  hidden is the last announcement about the own actor; that    *)
(* SDL shows it again after 2.5 s by itself is left out.                   *)
(***************************************************************************)
EXTENDS RoundFrames

Client ==
    [welcome : BOOLEAN, round : RoundId, phase : Phase, authorized : BOOLEAN,
     map_ready : BOOLEAN, snapshot_ready : BOOLEAN, maze : SUBSET Brick,
     hidden : BOOLEAN, map_of : RoundId, snapshot_of : RoundId]

\* A client that has just connected; Linux clients start from zeroes.
NewClient ==
    [welcome |-> FALSE, round |-> 0, phase |-> "over", authorized |-> FALSE,
     map_ready |-> FALSE, snapshot_ready |-> FALSE, maze |-> {},
     hidden |-> FALSE, map_of |-> 0, snapshot_of |-> 0]

\* game_ready: the player's stick and trigger are sent.
GameReady(c) ==
    /\ c.welcome
    /\ c.phase = "playing"
    /\ c.authorized
    /\ c.map_ready
    /\ c.snapshot_ready

IsPlaying(c, f) == f.round = c.round /\ c.phase = "playing"

\* The barrier of a session that starts.
Shut(c) ==
    [c EXCEPT !.authorized = FALSE, !.map_ready = FALSE,
              !.snapshot_ready = FALSE]

AfterWelcome(c, f) ==
    [Shut(c) EXCEPT !.welcome = TRUE, !.round = f.round, !.phase = f.phase]

\* The slip of keeping the pieces of the round before.
Cleared_Kept(c) == c

\* The pieces of another round are no pieces of this one.
Cleared(c) ==
    [c EXCEPT !.map_ready = FALSE, !.snapshot_ready = FALSE, !.hidden = FALSE]

\* The slip of refusing a start that names the round of the WELCOME.
Startable_Newer(c, r) == IsNewer(r, c.round)

Startable(c, r) == r = c.round \/ IsNewer(r, c.round)

AfterRoundStart(c, f) ==
    LET fresh == IF f.round # c.round \/ ~c.authorized THEN Cleared(c) ELSE c
    IN  IF Startable(c, f.round)
        THEN [fresh EXCEPT !.round = f.round, !.phase = "playing",
                           !.authorized = TRUE]
        ELSE c

AfterMatchEnd(c, f) ==
    IF f.round = c.round THEN [c EXCEPT !.phase = "over"] ELSE c

\* Only a map of the reliable stream opens the round; any repairs the maze.
AfterBrickFull(c, f, reliable) ==
    IF f.round = c.round
    THEN [c EXCEPT !.maze = f.maze, !.map_of = f.round,
                   !.map_ready = c.map_ready \/ reliable]
    ELSE c

AfterBrickDelta(c, f) ==
    IF IsPlaying(c, f) THEN [c EXCEPT !.maze = c.maze \ {f.brick}] ELSE c

AfterRespawn(c, f) ==
    IF IsPlaying(c, f) THEN [c EXCEPT !.hidden = ~f.final] ELSE c

AfterSnapshot(c, f) ==
    IF IsPlaying(c, f)
    THEN [c EXCEPT !.snapshot_ready = TRUE, !.snapshot_of = f.round]
    ELSE c

\* handle_packet for a frame that is not a RELIABLE_EVENT.
AfterFrame(c, f, reliable) ==
    IF f.kind = "welcome" THEN AfterWelcome(c, f)
    ELSE IF ~c.welcome THEN c
    ELSE CASE f.kind = "round_start" -> AfterRoundStart(c, f)
           [] f.kind = "match_end"   -> AfterMatchEnd(c, f)
           [] f.kind = "brick_full"  -> AfterBrickFull(c, f, reliable)
           [] f.kind = "brick_delta" -> AfterBrickDelta(c, f)
           [] f.kind = "respawn"     -> AfterRespawn(c, f)
           [] f.kind = "snapshot"    -> AfterSnapshot(c, f)
           [] OTHER                  -> c

\* Before WELCOME an event is neither applied nor acknowledged.
TakesEvents(c) == c.welcome
=============================================================================
