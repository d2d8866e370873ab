------------------------------ MODULE MazeRoom ------------------------------
(***************************************************************************)
(* One room of the Maze War server: its connections, its rounds and the    *)
(* authoritative world.  The server is one thread; a poll pass handles     *)
(* packets, accepts, timers and at most one tick, one after the other.     *)
(*                                                                         *)
(* A tick is cut into one step per actor and per shot (phase, todo, moved).*)
(* Everything else needs phase = "idle", so it never interleaves with a    *)
(* tick, as in the code.  Time is abstract: a deadline may pass at any     *)
(* moment, and the fairness of Spec says which ones must.                  *)
(***************************************************************************)
EXTENDS Seats, Board

CONSTANTS
    KillLimit,   \* --kill-limit: the score that ends a round
    RoundIds,    \* round_id is a uint8_t: 256 in the code
    Joy,         \* the stick and trigger values a client may send
    NoShot,      \* no shot in flight
    NoResult     \* no frozen match result

Still == "still"
Stick == Dir \cup {Still}
Shot == [at : Cell, dir : Dir]
Result == [winner : Slot, active : SUBSET Slot, zombies : SUBSET Slot,
           historical : SUBSET Slot, scores : [Slot -> 0 .. KillLimit]]

ASSUME RoomAssumption ==
    /\ KillLimit \in Nat \ {0}
    /\ RoundIds \in Nat \ {0}
    /\ Joy \subseteq Stick \X BOOLEAN
    /\ NoShot \notin Shot
    /\ NoResult \notin Result
    /\ Cardinality(Cell \ Layout) > MAX_PLAYERS

VARIABLES
    conn,         \* clients[]: in_use and handshake_ok of every slot
    grace,        \* no_human_deadline_ms # 0
    round_state,  \* "playing", "over" (results shown) or "dormant"
    round_id,
    result,       \* the frozen MATCH_END while round_state = "over"
    hist,         \* historical_zombie_mask
    occupied,     \* occupied_mask, recomputed by each tick
    cell,         \* players[].x, y: kept for vacant slots too
    dead,         \* respawn_at_ms # 0
    shown,        \* what the last RESPAWN told the clients of each slot
    bricks,       \* brick_bits
    score,
    shot,         \* shots[]: where it is and where it goes
    phase,        \* "idle", or the part of the tick being executed
    todo,         \* slots the tick has still to serve
    moved         \* slots whose position differs from pre_move_x, pre_move_y

sessionVars == <<conn, grace>>
roundVars == <<round_state, round_id, result, hist>>
actorVars == <<occupied, cell, dead, shown>>
tickVars == <<phase, todo, moved>>
vars == <<sessionVars, roundVars, actorVars, bricks, score, shot, tickVars>>

TypeOK ==
    /\ conn \in [Slot -> Connection]
    /\ grace \in BOOLEAN
    /\ round_state \in {"playing", "over", "dormant"}
    /\ round_id \in 0 .. RoundIds - 1
    /\ result \in Result \cup {NoResult}
    /\ hist \subseteq Slot
    /\ occupied \subseteq Slot
    /\ cell \in [Slot -> Cell]
    /\ dead \in [Slot -> BOOLEAN]
    /\ shown \in [Slot -> {"hidden", "visible"}]
    /\ bricks \subseteq Layout
    /\ score \in [Slot -> 0 .. KillLimit]
    /\ shot \in [Slot -> Shot \cup {NoShot}]
    /\ phase \in {"idle", "act", "shots"}
    /\ todo \subseteq Slot
    /\ moved \subseteq Slot

NoShots == [i \in Slot |-> NoShot]

\* slot_on_board: something one can walk into or shoot.
OnBoard(i) == i \in occupied /\ ~dead[i]

ActorCells == {cell[i] : i \in {j \in Slot : OnBoard(j)}}

\* init_room: every slot gets a cell, nobody is on the board yet.
Init ==
    /\ conn = [i \in Slot |-> "free"]
    /\ grace = FALSE
    /\ round_state = "dormant"
    /\ round_id = 1 % RoundIds
    /\ result = NoResult
    /\ hist = ZombieMask(conn)
    /\ occupied = {}
    /\ cell \in [Slot -> Cell \ Layout]
    /\ dead = [i \in Slot |-> FALSE]
    /\ shown = [i \in Slot |-> "visible"]
    /\ bricks = Layout
    /\ score = [i \in Slot |-> 0]
    /\ shot = NoShots
    /\ phase = "idle"
    /\ todo = {}
    /\ moved = {}

----------------------------------------------------------------------------
(* Rounds                                                                  *)

\* The slip of a counter wider than its byte.
NextRoundId_Wide(r) == r + 1

NextRoundId(r) == (r + 1) % RoundIds

\* Where the maze stands when a round starts.
FreshBricks == Layout

\* The slip of clearing only the seats humans hold.
FreshScores_Humans(s) ==
    [i \in Slot |-> IF conn[i] = "human" THEN 0 ELSE s[i]]

FreshScores(s) == [i \in Slot |-> 0]

\* reset_round: the next round's baseline for the connections c.  Actors are
\* placed in slot order; enter_dormant then takes them off the board again.
ResetRound(c, state) ==
    LET seats == Seated(c)
    IN  /\ round_id' = NextRoundId(round_id)
        /\ round_state' = state
        /\ result' = NoResult   \* the stale bytes are never read again
        /\ bricks' = FreshBricks
        /\ shot' = NoShots
        /\ hist' = ZombieMask(c)
        /\ score' = FreshScores(score)
        /\ dead' = [i \in Slot |-> FALSE]
        /\ shown' = [i \in Slot |-> "visible"]
        /\ occupied' = IF state = "dormant" THEN {} ELSE seats
        /\ \E place \in [seats -> Cell \ Layout] :
              /\ LegalPlacement(place, seats, seats, {}, Layout)
              /\ cell' = [i \in Slot |->
                             IF i \in seats THEN place[i] ELSE cell[i]]

\* wake_dormant_room: seat whoever plays, keep the round id and the maze.
WakeDormantRoom(c) ==
    LET seats == Seated(c)
    IN  /\ round_state' = "playing"
        /\ hist' = ZombieMask(c)
        /\ occupied' = seats
        /\ \E place \in [seats -> Cell \ bricks] :
              /\ LegalPlacement(place, seats, seats, {}, bricks)
              /\ cell' = [i \in Slot |->
                             IF i \in seats THEN place[i] ELSE cell[i]]
        /\ dead' = [i \in Slot |-> dead[i] /\ i \notin seats]
        /\ score' = [i \in Slot |-> IF i \in seats THEN 0 ELSE score[i]]
        /\ shot' = [i \in Slot |-> IF i \in seats THEN NoShot ELSE shot[i]]
        /\ UNCHANGED <<round_id, result, bricks>>

----------------------------------------------------------------------------
(* Sessions                                                                *)

\* reset_slot_gameplay: score and shot go, position and death stay.
ResetSlotGameplay(i) ==
    /\ score' = [score EXCEPT ![i] = 0]
    /\ shot' = [shot EXCEPT ![i] = NoShot]

\* accept_room_client: a free seat, or one whose holder never said HELLO.
Accept ==
    /\ phase = "idle"
    /\ \E i \in AllocClientSlot(conn) :
          /\ conn' = [conn EXCEPT ![i] = "pending"]
          /\ ResetSlotGameplay(i)
    /\ UNCHANGED <<grace, roundVars, actorVars, bricks, tickVars>>

\* A newcomer is in the mask of occupied seats at once.
WithJoiner(i) == occupied \cup {i}

\* The slip of joining without a word to the others.
JoinAnnounced_Silent(i) == shown

\* The RESPAWN event of a join.
JoinAnnounced(i) == [shown EXCEPT ![i] = "visible"]

\* keep_join_position: the newcomer takes a live zombie's place.
TakesOver(i) == i \in ZombieMask(conn) /\ OnBoard(i)

\* activate_joining_client in a playing round.
ActivateJoiningClient(i, keepPosition) ==
    /\ \E c \in IF keepPosition THEN {cell[i]}
                ELSE SpawnCells(bricks, ActorCells) :
          cell' = [cell EXCEPT ![i] = c]
    /\ dead' = [dead EXCEPT ![i] = FALSE]
    /\ occupied' = WithJoiner(i)
    /\ shown' = JoinAnnounced(i)

\* The slip of letting the countdown run on.
CancelGrace_Forgotten == grace' = grace

\* A HELLO cancels the countdown of an empty room.
CancelGrace == grace' = FALSE

\* handle_client_packet, HELLO of a pending connection: a live zombie is taken
\* over where it stands; any other seat gets a new cell.  Outside a playing
\* round the reset barrier will place the newcomer.
Hello(i) ==
    /\ phase = "idle"
    /\ conn[i] = "pending"
    /\ conn' = [conn EXCEPT ![i] = "human"]
    /\ CancelGrace
    /\ \/ /\ round_state = "dormant"
          /\ WakeDormantRoom([conn EXCEPT ![i] = "human"])
          /\ shown' = JoinAnnounced(i)
       \/ /\ round_state = "playing"
          /\ ActivateJoiningClient(i, TakesOver(i))
          /\ UNCHANGED <<roundVars, bricks, score, shot>>
       \/ /\ round_state = "over"
          /\ UNCHANGED <<roundVars, actorVars, bricks, score, shot>>
    /\ UNCHANGED tickVars

\* LEAVE_ROOM, then detach_voluntary_client: the last human to leave sends
\* the room to sleep at once.
Leave(i) ==
    LET c == [conn EXCEPT ![i] = "free"]
    IN  /\ phase = "idle"
        /\ conn[i] = "human"
        /\ conn' = c
        /\ \/ /\ Humans(c) = {}
              /\ ResetRound(c, "dormant")
              /\ grace' = FALSE
           \/ /\ Humans(c) # {}
              /\ ResetSlotGameplay(i)
              /\ UNCHANGED <<grace, roundVars, actorVars, bricks>>
        /\ UNCHANGED tickVars

\* The slip of letting the shots fly on.
ShotsOfEmptyRoom_Flying == shot

\* No shot survives the loss of the last human.
ShotsOfEmptyRoom == NoShots

\* begin_no_human_grace; nobody can watch the results, so they end now.
BeginNoHumanGrace(c, i) ==
    /\ grace' = TRUE
    /\ \/ /\ round_state = "over"
          /\ ResetRound(c, "playing")
       \/ /\ round_state # "over"
          /\ score' = [score EXCEPT ![i] = 0]
          /\ shot' = [ShotsOfEmptyRoom EXCEPT ![i] = NoShot]
          /\ UNCHANGED <<roundVars, actorVars, bricks>>

\* drop_client: EOF, a socket error or a timeout of slot i.
Drop(i) ==
    LET c == [conn EXCEPT ![i] = "free"]
        lostLast == conn[i] = "human" /\ Humans(c) = {}
        starts == lostLast /\ ~grace /\ round_state # "dormant"
    IN  /\ phase = "idle"
        /\ conn[i] # "free"
        /\ conn' = c
        /\ \/ starts /\ BeginNoHumanGrace(c, i)
           \/ /\ ~starts
              /\ ResetSlotGameplay(i)
              /\ UNCHANGED <<grace, roundVars, actorVars, bricks>>
        /\ UNCHANGED tickVars

\* The slip of waiting for provisional connections too.
GraceMayExpire_NoSockets == grace /\ \A i \in Slot : conn[i] = "free"

\* service_room_timers: may the empty room be put to sleep?
GraceMayExpire == grace

GraceExpire ==
    /\ phase = "idle"
    /\ GraceMayExpire
    /\ ResetRound(conn, "dormant")
    /\ grace' = FALSE
    /\ UNCHANGED <<conn, tickVars>>

\* The slip of holding the results until every seat is human.
ResultsMayEnd_AllHuman == round_state = "over" /\ Humans(conn) = Slot

ResultsMayEnd == round_state = "over"

IntermissionExpire ==
    /\ phase = "idle"
    /\ ResultsMayEnd
    /\ ResetRound(conn, "playing")
    /\ UNCHANGED <<sessionVars, tickVars>>

----------------------------------------------------------------------------
(* Client requests outside the input stream                                *)

\* RESPAWN request: the sender's actor is placed anew, dead or alive.
RespawnRequest(i) ==
    /\ phase = "idle"
    /\ round_state = "playing"
    /\ conn[i] = "human"
    /\ \E c \in SpawnCells(bricks, ActorCells) : cell' = [cell EXCEPT ![i] = c]
    /\ shown' = [shown EXCEPT ![i] = "visible"]
    /\ UNCHANGED <<sessionVars, roundVars, occupied, dead, bricks, score,
                   shot, tickVars>>

\* BRICK_DELTA request: any human may clear any cell but the rim.
BrickRequest(i) ==
    /\ phase = "idle"
    /\ round_state = "playing"
    /\ conn[i] = "human"
    /\ \E c \in Cell : bricks' = Broken(bricks, c)
    /\ UNCHANGED <<sessionVars, roundVars, actorVars, score, shot, tickVars>>

----------------------------------------------------------------------------
(* Combat                                                                  *)

Awarded(s) == IF s < KillLimit THEN s + 1 ELSE KillLimit

\* The slip of asking for one kill more than the limit.
WinsRound_Strict(s) == s > KillLimit

WinsRound(s) == s >= KillLimit

\* freeze_match_result: the masks are those of the moment.
FrozenResult(winner, scores) ==
    [winner |-> winner, active |-> occupied, zombies |-> ZombieMask(conn),
     historical |-> hist \cup ZombieMask(conn), scores |-> scores]

\* enter_round_over, which also cuts the tick short.
EnterRoundOver(winner, scores) ==
    /\ round_state' = "over"
    /\ result' = FrozenResult(winner, scores)
    /\ hist' = hist \cup ZombieMask(conn)
    /\ score' = scores
    /\ shot' = NoShots
    /\ phase' = "idle"
    /\ todo' = {}
    /\ moved' = {}
    /\ UNCHANGED <<round_id, dead, shown>>

\* A hit by shooter on victim: award_score, then either the round ends with
\* the victim standing or the victim is announced dead.
Hit(shooter, victim) ==
    LET scores == [score EXCEPT ![shooter] = Awarded(@)]
    IN  \/ /\ WinsRound(scores[shooter])
           /\ EnterRoundOver(shooter, scores)
        \/ /\ ~WinsRound(scores[shooter])
           /\ score' = scores
           /\ dead' = [dead EXCEPT ![victim] = TRUE]
           /\ shown' = [shown EXCEPT ![victim] = "hidden"]
           /\ shot' = [shot EXCEPT ![shooter] = NoShot]
           /\ todo' = todo \ {shooter}
           /\ UNCHANGED <<roundVars, phase, moved>>

\* start_shot with the trigger held and direction d.
Fire(i, d) ==
    LET target == Ahead(cell[i], d)
        hit == {p \in Slot \ {i} : OnBoard(p) /\ cell[p] = target}
    IN  \/ /\ shot[i] = NoShot
           /\ ~IsBrick(bricks, target)
           /\ hit # {}
           /\ Hit(i, Min(hit))
           /\ UNCHANGED bricks
        \/ /\ todo' = todo \ {i}
           /\ \/ /\ shot[i] # NoShot
                 /\ UNCHANGED <<bricks, shot>>
              \/ /\ shot[i] = NoShot
                 /\ IsBrick(bricks, target)
                 /\ bricks' = Broken(bricks, target)
                 /\ UNCHANGED shot
              \/ /\ shot[i] = NoShot
                 /\ ~IsBrick(bricks, target)
                 /\ hit = {}
                 /\ shot' = [shot EXCEPT ![i] = [at |-> target, dir |-> d]]
                 /\ UNCHANGED bricks
           /\ UNCHANGED <<roundVars, score, dead, shown, phase, moved>>

\* The slip of walking through actors.
Blocked_BricksOnly(i, c) == IsBrick(bricks, c)

\* What blocks a step into c: brick or another actor on the board.
Blocked(i, c) ==
    \/ IsBrick(bricks, c)
    \/ \E p \in Slot \ {i} : OnBoard(p) /\ cell[p] = c

CanStep(i, stick) == stick # Still /\ ~Blocked(i, Ahead(cell[i], stick))

\* apply_move_if_free.  The clamp to the grid leaves an actor where it is.
Move(i, stick) ==
    /\ \/ /\ CanStep(i, stick)
          /\ cell' = [cell EXCEPT ![i] = Ahead(cell[i], stick)]
          /\ moved' = moved \cup {i}
       \/ /\ ~CanStep(i, stick)
          /\ UNCHANGED <<cell, moved>>
    /\ todo' = todo \ {i}
    /\ UNCHANGED <<roundVars, dead, shown, bricks, score, shot, phase>>

----------------------------------------------------------------------------
(* The tick                                                                *)

\* The slip of reviving only seats on the board.
MayRespawn_Seated(i) == dead[i] /\ i \in Seated(conn)

\* Which deaths a tick ends: any slot whose deadline passed, seated or not.
MayRespawn(i) == dead[i]

\* step_players up to the pre-move snapshot: the mask of occupied seats, then
\* the respawns that are due.
TickBegin(due) ==
    LET seats == Seated(conn)
        others == {cell[j] : j \in {k \in seats : ~dead[k]}}
    IN  /\ phase = "idle"
        /\ round_state = "playing"
        /\ \A i \in due : MayRespawn(i)
        /\ occupied' = seats
        /\ \E place \in [due -> Cell \ bricks] :
              /\ LegalPlacement(place, due, seats, others, bricks)
              /\ cell' = [i \in Slot |->
                             IF i \in due THEN place[i] ELSE cell[i]]
        /\ dead' = [i \in Slot |-> dead[i] /\ i \notin due]
        /\ shown' = [i \in Slot |->
                        IF i \in due THEN "visible" ELSE shown[i]]
        /\ phase' = "act"
        /\ todo' = seats
        /\ moved' = {}
        /\ UNCHANGED <<sessionVars, roundVars, bricks, score, shot>>

\* The zombie AI, reduced to what it can ever ask for: stand, try a step, shoot
\* along an open lane at a living human, or shoot at a brick in its way.
ZombieInputs(i) ==
    LET quarry(d) == \E p \in Humans(conn) \ {i} :
                        ~dead[p] /\ LaneTo(bricks, cell[i], cell[p], d)
        wall(d) == /\ Ahead(cell[i], d) \in bricks
                   /\ Ahead(cell[i], d) \notin OuterWall
    IN  (Stick \X {FALSE})
            \cup ({d \in Dir : quarry(d) \/ wall(d)} \X {TRUE})

\* A human's next queued input, or neutral.
Inputs(i) ==
    IF i \in ZombieMask(conn) THEN ZombieInputs(i)
    ELSE Joy \cup {<<Still, FALSE>>}

Acting == {i \in todo : ~dead[i]}

\* One turn of step_players' actor loop.  Firing suppresses the move.
Act ==
    /\ phase = "act"
    /\ Acting # {}
    /\ LET i == Min(Acting)
       IN  \E joy \in Inputs(i) :
              \/ /\ joy[2] /\ joy[1] # Still
                 /\ Fire(i, joy[1])
                 /\ UNCHANGED cell
              \/ ~(joy[2] /\ joy[1] # Still) /\ Move(i, joy[1])
    /\ UNCHANGED <<sessionVars, occupied>>

BeginShots ==
    /\ phase = "act"
    /\ Acting = {}
    /\ phase' = "shots"
    /\ todo' = {i \in Slot : shot[i] # NoShot}
    /\ UNCHANGED <<sessionVars, roundVars, actorVars, bricks, score, shot,
                   moved>>

\* The slip of testing the destination only.
Victims_NoSweep(i, s, n) == {p \in Slot \ {i} : OnBoard(p) /\ cell[p] = n}

\* Whom the shot s of slot i hits on its way to cell n: an actor standing
\* there, or one that moved onto the cell the shot leaves (the swept test).
Victims(i, s, n) ==
    {p \in Slot \ {i} :
        /\ OnBoard(p)
        /\ cell[p] = n \/ (cell[p] = s.at /\ p \in moved)}

\* One turn of step_shots' loop.
StepShot ==
    /\ phase = "shots"
    /\ todo # {}
    /\ LET i == Min(todo)
           next == Ahead(shot[i].at, shot[i].dir)
           victims == Victims(i, shot[i], next)
       IN  \/ /\ next \in Cell
              /\ victims # {}
              /\ Hit(i, Min(victims))
              /\ UNCHANGED bricks
           \/ /\ next \notin Cell \/ victims = {}
              /\ \/ /\ IsBrick(bricks, next)
                    /\ bricks' = Broken(bricks, next)
                    /\ shot' = [shot EXCEPT ![i] = NoShot]
                 \/ /\ ~IsBrick(bricks, next)
                    /\ shot' = [shot EXCEPT ![i].at = next]
                    /\ UNCHANGED bricks
              /\ todo' = todo \ {i}
              /\ UNCHANGED <<roundVars, score, dead, shown, phase, moved>>
    /\ UNCHANGED <<sessionVars, occupied, cell>>

\* The slip of remembering the zombies of the present only.
RememberZombies_Now == hist' = ZombieMask(conn)

\* tick_room after step_players: the zombies of this tick are remembered.
RememberZombies == hist' = hist \cup ZombieMask(conn)

TickEnd ==
    /\ phase = "shots"
    /\ todo = {}
    /\ RememberZombies
    /\ phase' = "idle"
    /\ moved' = {}
    /\ UNCHANGED <<sessionVars, round_state, round_id, result, actorVars,
                   bricks, score, shot, todo>>

TickStep == Act \/ BeginShots \/ StepShot \/ TickEnd

----------------------------------------------------------------------------
Next ==
    \/ Accept
    \/ \E i \in Slot : Hello(i) \/ Leave(i) \/ Drop(i)
    \/ GraceExpire
    \/ IntermissionExpire
    \/ \E i \in Slot : RespawnRequest(i) \/ BrickRequest(i)
    \/ \E due \in SUBSET Slot : TickBegin(due)
    \/ TickStep

Spec == Init /\ [][Next]_vars

\* Every poll pass runs the timers between two ticks, and a tick always ends:
\* a deadline that has passed is acted on although ticks keep interrupting it.
Fairness ==
    /\ WF_vars(TickStep)
    /\ SF_vars(GraceExpire)
    /\ SF_vars(IntermissionExpire)
    /\ \A i \in Slot :
          SF_vars(\E due \in SUBSET Slot : i \in due /\ TickBegin(due))

FairSpec == Spec /\ Fairness

----------------------------------------------------------------------------
(* Properties                                                              *)

\* A room is asleep only without humans and counts down to sleep exactly while
\* it is awake without humans; it never shows results to nobody
\* (begin_no_human_grace, enter_dormant, the HELLO handler).
GraceOwnsEmptyRoom ==
    /\ round_state = "dormant" => ~grace /\ Humans(conn) = {}
    /\ round_state # "dormant" => (grace <=> Humans(conn) = {})
    /\ grace => round_state = "playing"

\* Whoever completed HELLO takes part in the running round: no human is left
\* off the board by a join, a reset, a wake-up or the per-tick mask.
HumanOnBoard == round_state = "playing" => Humans(conn) \subseteq occupied

\* Nobody plays on past the kill limit, and a round that is over was won by
\* exactly one slot with exactly the limit (award_score, enter_round_over).
KillLimitEndsRound ==
    /\ round_state = "playing" => \A i \in Slot : score[i] < KillLimit
    /\ (round_state = "over") <=> (result # NoResult)
    /\ round_state = "over" =>
          \A i \in Slot : result.scores[i] = KillLimit <=> i = result.winner

\* A shot flies only in a playing round that a human still attends, so
\* zombies alone can never score (begin_no_human_grace's comment).
ShotsNeedAudience ==
    \A i \in Slot : shot[i] # NoShot =>
        round_state = "playing" /\ Humans(conn) # {}

\* Actors on the board stand on distinct cells and never inside a brick
\* (pick_spawn, apply_move_if_free, the handoff rules).
Placement ==
    \A i \in occupied : ~dead[i] =>
        /\ cell[i] \notin bricks
        /\ \A j \in occupied \ {i} : ~dead[j] => cell[j] # cell[i]

\* A shot never slips past an actor that walks into it: once it has advanced,
\* nobody who moved in this tick stands under it or on the cell it left
\* (step_shots' swept test).
ShotsDoNotSwap ==
    phase = "shots" =>
        \A i \in Slot \ todo : shot[i] # NoShot =>
            \A p \in moved \ {i} : OnBoard(p) =>
                shot[i].at \notin {cell[p], Ahead(cell[p], shot[i].dir)}

\* A slot the clients were told to hide is really waiting for its respawn:
\* nothing revives an actor without announcing it.
HiddenMeansDead == \A i \in Slot : shown[i] = "hidden" => dead[i]

\* A sleeping room is a complete clean baseline: full maze, no points, no
\* shots, nobody on the board and nobody waiting to respawn (enter_dormant).
DormantIsClean ==
    round_state = "dormant" =>
        /\ bricks = Layout
        /\ occupied = {}
        /\ shot = NoShots
        /\ \A i \in Slot : score[i] = 0 /\ ~dead[i]

\* Every result says what its winner was: a human on the board, or a slot that
\* was a zombie's at some moment of the round (historical_zombie_mask).
WinnerIsLabelled ==
    round_state = "over" =>
        \/ result.winner \in result.active \ result.zombies
        \/ result.winner \in result.historical

\* The slot's new human starts from zero: no inherited score and no inherited
\* shot (comment of reset_slot_gameplay, "Slot handoff" in the protocol).
HandoffIsClean ==
    [][\A i \in Slot :
          conn[i] # "human" /\ conn'[i] = "human" =>
              score'[i] = 0 /\ shot'[i] = NoShot]_vars

\* An empty room falls asleep unless a human comes back.
GraceIsResolved == grace ~> ~grace

\* Results are not shown for ever.
ResultsEnd == (round_state = "over") ~> (round_state # "over")

\* Whoever is shot returns, whatever happens to the seat in the meantime.
DeathIsTemporary == \A i \in Slot : dead[i] ~> ~dead[i]
============================================================================
