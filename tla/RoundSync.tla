----------------------------- MODULE RoundSync -----------------------------
(***************************************************************************)
(* One client's view of the round: session anchoring, the round barrier    *)
(* and the repair of the maze, between a room of the server and the client *)
(* over one TCP connection.                                                *)
(*                                                                         *)
(* The wire keeps order.  A frame may be lost when it is sent (its CRC     *)
(* fails at the far end of the network adapter's serial line).  Reliable   *)
(* events keep the promise of EventStream: only the head of the queue is   *)
(* ever under way, and since a repeated event changes nothing a frame of   *)
(* an applied event is never sent again here.                              *)
(*                                                                         *)
(* The client is the SDL client; the terminal client is compared with it   *)
(* frame by frame.                                                         *)
(***************************************************************************)
EXTENDS TerminalClient, Sequences, FiniteSets

CONSTANTS
    LastRound,     \* bound: the round after which none is started
    QueueMax,      \* RELIABLE_QUEUE_MAX: 24 in the code
    WireCap,       \* bound: frames under way
    EchoMax,       \* BRICK_ECHO_MAX: 8 in the code
    BrickRepeats,  \* BRICK_ECHO_REPEATS: 2 in the code
    RespawnRepeats \* RESPAWN_ECHO_REPEATS: 2 in the code

ASSUME SyncAssumption ==
    /\ LastRound \in RoundId
    /\ QueueMax \in Nat \ {0}
    /\ WireCap \in Nat \ {0}
    /\ EchoMax \in Nat \ {0}
    /\ BrickRepeats \in Nat \ {0}
    /\ RespawnRepeats \in Nat \ {0}

VARIABLES
    session,        \* the connection: before HELLO, seated, gone
    round_id,       \* round_id
    over,           \* round_state is ROUND_OVER
    bricks,         \* brick_bits
    announced,      \* history: the last RESPAWN about it was a final one
    brick_echo,     \* brick -> repeats left
    respawn_echo,   \* the repeats left of the last RESPAWN, and the frame
    queue,          \* reliable_q, head first
    head_applied,   \* the client applied the head; its ACK is under way
    wire,           \* frames under way to the client
    client          \* game_state

roomVars == <<round_id, over, bricks, announced>>
echoVars == <<brick_echo, respawn_echo>>
streamVars == <<queue, head_applied>>
vars == <<session, roomVars, echoVars, streamVars, wire, client>>

NoBrickEcho == [b \in Brick |-> 0]
RespawnEcho(n, r, up) == [left |-> n, frame |-> Respawn(r, up)]

TypeOK ==
    /\ session \in {"joining", "seated", "closed"}
    /\ round_id \in RoundId
    /\ over \in BOOLEAN
    /\ bricks \subseteq Brick
    /\ announced \in BOOLEAN
    /\ brick_echo \in [Brick -> 0 .. BrickRepeats]
    /\ respawn_echo \in {RespawnEcho(n, r, up) :
                            n \in 0 .. RespawnRepeats, r \in RoundId, up \in BOOLEAN}
    /\ Len(queue) <= QueueMax
    /\ \A k \in 1 .. Len(queue) : queue[k] \in Inner
    /\ head_applied => queue # <<>>
    /\ Len(wire) <= WireCap
    /\ \A k \in 1 .. Len(wire) : wire[k] \in Frame
    /\ client \in Client

\* A client connects to a room at any point of a round or of its results.
Init ==
    /\ session = "joining"
    /\ round_id = RoundMod - 1
    /\ over \in BOOLEAN
    /\ bricks \in SUBSET Brick
    /\ announced = FALSE
    /\ brick_echo \in [Brick -> 0 .. BrickRepeats]
    /\ \A b \in Brick : brick_echo[b] > 0 => ~over /\ b \notin bricks
    /\ Cardinality({b \in Brick : brick_echo[b] > 0}) <= EchoMax
    /\ respawn_echo = RespawnEcho(0, round_id, FALSE)
    /\ queue = <<>>
    /\ head_applied = FALSE
    /\ wire = <<>>
    /\ client = NewClient

----------------------------------------------------------------------------
(* Sending                                                                 *)

IsEvent(f) == f.kind = "event"

\* Frames put on the wire in their order; any of them may be lost.
Transmit(fs) ==
    \E n \in 0 .. WireCap - Len(wire) :
        \E at \in [1 .. n -> DOMAIN fs] :
            /\ \A i, j \in 1 .. n : i < j => at[i] < at[j]
            /\ wire' = wire \o [k \in 1 .. n |-> fs[at[k]]]

Overflows(events, free) == events > free

\* drop_client and reset_client_slot: the queue and what is under way are lost,
\* and the client starts over.
Disconnect ==
    /\ session' = "closed"
    /\ queue' = <<>>
    /\ head_applied' = FALSE
    /\ wire' = <<>>
    /\ client' = NewClient

\* A handler's burst: direct frames go out at once, an event waits for the
\* events before it; one that finds the queue full condemns the connection,
\* which is dropped before it is served again.  Direct frames go before the
\* first event or after it.
Emit(before, events, after) ==
    LET first == IF queue = <<>> /\ events # <<>> THEN <<Event(Head(events))>>
                 ELSE <<>>
        free == QueueMax - Len(queue)
    IN  \/ /\ Overflows(Len(events), free)
           /\ Disconnect
        \/ /\ ~Overflows(Len(events), free)
           /\ session' = "seated"
           /\ queue' = queue \o events
           /\ Transmit(before \o first \o after)
           /\ UNCHANGED <<head_applied, client>>

----------------------------------------------------------------------------
(* The room                                                                *)

\* The slip of falling through to the start of a round that is over.
RoundState_Both(r, ov, m) ==
    (IF ov THEN <<MatchEnd(r)>> ELSE <<>>) \o <<RoundStart(r), BrickFull(r, m)>>

\* send_round_state: the events that the barrier of a client needs.
RoundState(r, ov, m) ==
    IF ov THEN <<MatchEnd(r)>> ELSE <<RoundStart(r), BrickFull(r, m)>>

\* A RESPAWN replaces the slot's pending echo.
Announce(r, up) ==
    /\ respawn_echo' = RespawnEcho(RespawnRepeats, r, up)
    /\ announced' = up

\* HELLO of the connection; another HELLO of a seated one is ignored.
Hello ==
    LET welcome == WelcomeFrame(round_id, IF over THEN "over" ELSE "playing")
        state == RoundState(round_id, over, bricks)
        spawn == <<Respawn(round_id, TRUE)>>
    IN  /\ session = "joining"
        /\ \/ /\ over
              /\ Emit(<<welcome>>, state, <<>>)
              /\ UNCHANGED <<announced, respawn_echo>>
           \/ /\ ~over
              /\ Emit(<<welcome>>, state \o spawn, spawn)
              /\ Announce(round_id, TRUE)
        /\ UNCHANGED <<round_id, over, bricks, brick_echo>>

\* queue_brick_echo: a full table gives up another brick's echo.
QueuedEcho(e, b) ==
    LET busy == {q \in Brick : e[q] > 0}
    IN  IF b \in busy \/ Cardinality(busy) < EchoMax
        THEN {[e EXCEPT ![b] = BrickRepeats]}
        ELSE {[e EXCEPT ![b] = BrickRepeats, ![q] = 0] : q \in busy}

\* The slip of trusting the direct frame and its echoes.
BrickEvents_None(b) == <<>>

\* A brick that falls is told as an event, after the direct frame.
BrickEvents(b) == <<BrickDelta(round_id, b)>>

\* flush_brick_echo: one repeat of one entry, stamped with the round of now.
BrickFlushes ==
    LET due == {b \in Brick : brick_echo[b] > 0}
    IN  IF due = {} THEN {[frames |-> <<>>, echo |-> brick_echo]}
        ELSE {[frames |-> <<BrickDelta(round_id, b)>>,
               echo |-> [brick_echo EXCEPT ![b] = @ - 1]] : b \in due}

\* flush_respawn_echo: one repeat of the stored packet.
RespawnFlush ==
    IF respawn_echo.left = 0 THEN [frames |-> <<>>, echo |-> respawn_echo]
    ELSE [frames |-> <<respawn_echo.frame>>,
          echo |-> [respawn_echo EXCEPT !.left = @ - 1]]

\* What combat does to a playing round in one tick, as far as this client's
\* frames tell; at most one thing a tick is the bound.
QuietTick(pre, echo) ==
    /\ Emit(pre, <<>>, <<Snapshot(round_id)>>)
    /\ brick_echo' = echo
    /\ respawn_echo' = RespawnFlush.echo
    /\ UNCHANGED roomVars

BrickTick(pre, echo, b) ==
    /\ b \in bricks
    /\ Emit(pre \o <<BrickDelta(round_id, b)>>, BrickEvents(b),
            <<Snapshot(round_id)>>)
    /\ bricks' = bricks \ {b}
    /\ brick_echo' \in QueuedEcho(echo, b)
    /\ respawn_echo' = RespawnFlush.echo
    /\ UNCHANGED <<round_id, over, announced>>

\* The actor is killed, or stands up again.
ActorTick(pre, echo, up) ==
    /\ Emit(pre \o <<Respawn(round_id, up)>>, <<Respawn(round_id, up)>>,
            <<Snapshot(round_id)>>)
    /\ brick_echo' = echo
    /\ Announce(round_id, up)
    /\ UNCHANGED <<round_id, over, bricks>>

\* The slip of leaving the echoes of the round that ends.
EchoAtRoundEnd_Kept(echo) == echo

EchoAtRoundEnd(echo) == NoBrickEcho

\* enter_round_over.
EndTick(pre, echo) ==
    /\ Emit(pre, <<MatchEnd(round_id)>>, <<Snapshot(round_id)>>)
    /\ over' = TRUE
    /\ brick_echo' = EchoAtRoundEnd(echo)
    /\ respawn_echo' = [respawn_echo EXCEPT !.left = 0]
    /\ UNCHANGED <<round_id, bricks, announced>>

\* tick_room: echoes, combat, snapshot; results are frozen, snapshots go on.
Tick ==
    /\ session = "seated"
    /\ \/ /\ over
          /\ Emit(<<>>, <<>>, <<Snapshot(round_id)>>)
          /\ UNCHANGED <<roomVars, echoVars>>
       \/ /\ ~over
          /\ \E fl \in BrickFlushes :
                LET pre == fl.frames \o RespawnFlush.frames
                IN  \/ QuietTick(pre, fl.echo)
                    \/ \E b \in Brick : BrickTick(pre, fl.echo, b)
                    \/ \E up \in BOOLEAN : ActorTick(pre, fl.echo, up)
                    \/ EndTick(pre, fl.echo)

\* reset_round, at the end of the intermission.
ResetRound ==
    LET r == NextRound(round_id)
    IN  /\ session = "seated"
        /\ over
        /\ round_id # LastRound
        /\ round_id' = r
        /\ over' = FALSE
        /\ bricks' = Brick
        /\ announced' = TRUE
        /\ brick_echo' = EchoAtRoundEnd(brick_echo)
        /\ respawn_echo' = [respawn_echo EXCEPT !.left = 0]
        /\ Emit(<<>>, RoundState(r, FALSE, Brick), <<>>)

\* A BRICK_DELTA request of some client of the room.
BrickRequest(b) ==
    /\ session = "seated"
    /\ ~over
    /\ bricks' = bricks \ {b}
    /\ brick_echo' \in QueuedEcho(brick_echo, b)
    /\ Emit(<<BrickDelta(round_id, b)>>, BrickEvents(b), <<>>)
    /\ UNCHANGED <<round_id, over, announced, respawn_echo>>

\* The R key of the terminal client: send_respawn and the server's answer.
RespawnRequest ==
    /\ session = "seated"
    /\ ~over
    /\ GameplayEnabled(client)
    /\ client.round = round_id
    /\ Announce(round_id, TRUE)
    /\ Emit(<<Respawn(round_id, TRUE)>>, <<Respawn(round_id, TRUE)>>, <<>>)
    /\ UNCHANGED <<round_id, over, bricks, brick_echo>>

\* The slip of sparing a stream that is busy.
RotateName_WhenIdle ==
    /\ session = "seated"
    /\ queue = <<>>
    /\ Emit(<<>>, <<NameFrame>>, <<>>)
    /\ UNCHANGED <<roomVars, echoVars>>

\* broadcast_next_name: every second, whether or not the client listens.  The
\* direct NAME frame, which decides nothing here, is left out.
RotateName ==
    /\ session = "seated"
    /\ Emit(<<>>, <<NameFrame>>, <<>>)
    /\ UNCHANGED <<roomVars, echoVars>>

\* The map resync of service_room_timers, during the results as well.
Resync ==
    /\ session = "seated"
    /\ Emit(<<BrickFull(round_id, bricks)>>, <<>>, <<>>)
    /\ UNCHANGED <<roomVars, echoVars>>

----------------------------------------------------------------------------
(* The reliable stream, the connection and the client                      *)

EventUnderWay == \E k \in 1 .. Len(wire) : IsEvent(wire[k])

Resend ==
    /\ session = "seated"
    /\ queue # <<>>
    /\ ~head_applied
    /\ ~EventUnderWay
    /\ Transmit(<<Event(Head(queue))>>)
    /\ UNCHANGED <<session, roomVars, echoVars, streamVars, client>>

\* The acknowledgement arrives: the head leaves, the next one is sent.
Ack ==
    /\ session = "seated"
    /\ head_applied
    /\ head_applied' = FALSE
    /\ queue' = Tail(queue)
    /\ IF queue' = <<>> THEN UNCHANGED wire ELSE Transmit(<<Event(Head(queue'))>>)
    /\ UNCHANGED <<session, roomVars, echoVars, client>>

\* The connection breaks, or the client leaves.
Drop ==
    /\ session = "seated"
    /\ Disconnect
    /\ UNCHANGED <<roomVars, echoVars>>

\* One turn of the loop over tcp_recv_frame.
Receive ==
    LET f == Head(wire)
    IN  /\ wire # <<>>
        /\ wire' = Tail(wire)
        /\ \/ /\ ~IsEvent(f)
              /\ client' = AfterFrame(client, f, FALSE)
              /\ UNCHANGED head_applied
           \/ /\ IsEvent(f)
              /\ TakesEvents(client)
              /\ client' = AfterFrame(client, f.inner, TRUE)
              /\ head_applied' = TRUE
           \/ /\ IsEvent(f)
              /\ ~TakesEvents(client)
              /\ UNCHANGED <<client, head_applied>>
        /\ UNCHANGED <<session, roomVars, echoVars, queue>>

Closed == session = "closed" /\ UNCHANGED vars

Next ==
    \/ Hello
    \/ Tick
    \/ ResetRound
    \/ \E b \in Brick : BrickRequest(b)
    \/ RespawnRequest
    \/ RotateName
    \/ Resync
    \/ Resend
    \/ Ack
    \/ Drop
    \/ Receive
    \/ Closed

Spec == Init /\ [][Next]_vars

HasRoom == Len(wire) < WireCap

Arrives(f) == Len(wire') > Len(wire) /\ wire'[Len(wire')] = f

\* Timers run, what arrives is read, and what is sent again and again arrives
\* at last.  WELCOME is not sent again.
Fairness ==
    /\ WF_vars(Receive)
    /\ WF_vars(Ack)
    /\ WF_vars(RotateName)
    /\ SF_vars(HasRoom /\ Resend /\ Arrives(Event(Head(queue))))
    /\ SF_vars(HasRoom /\ Tick /\ Arrives(Snapshot(round_id)))

FairSpec == Spec /\ Fairness

----------------------------------------------------------------------------
(* Properties                                                              *)

\* When input opens, the map and the snapshot are of the round that was
\* started, whatever mixture of two rounds arrived before (handle_packet's
\* three flags).
PiecesMatch ==
    GameReady(client) =>
        client.map_of = client.round /\ client.snapshot_of = client.round

\* A client in the server's round never lacks a brick the server still has:
\* neither echoes, nor late deltas, nor maps of another round remove one.
MazeNeverLacks ==
    session = "seated" /\ client.map_ready /\ client.round = round_id =>
        bricks \subseteq client.maze

\* When nothing is queued or under way, a welcomed client agrees with the
\* server on round, phase, maze and its own actor, though direct frames,
\* echoes and resyncs overtook the events about the same things.
QuietMeansEqual ==
    session = "seated" /\ client.welcome /\ queue = <<>> /\ wire = <<>> =>
        /\ client.round = round_id
        /\ client.phase = "over" <=> over
        /\ ~over => /\ client.authorized /\ client.map_ready
                    /\ client.maze = bricks
                    /\ client.hidden = ~announced

\* Results stay until a newer round starts: nothing of the finished round
\* that arrives late lets the player act in it again.
ResultsStay ==
    [][client.welcome /\ client.phase = "over" /\ client'.phase = "playing"
         => IsNewer(client'.round, client.round)]_vars

\* What a client knows of the round, without the picture of its own actor.
Barrier(c) == [c EXCEPT !.hidden = FALSE]

\* The two Linux clients, written separately, make the same of every frame, but
\* for whether the own actor is drawn.
ClientsAgree ==
    wire # <<>> =>
        LET f == Head(wire)
            sdl == IF IsEvent(f) THEN AfterFrame(client, f.inner, TRUE)
                   ELSE AfterFrame(client, f, FALSE)
            term == IF IsEvent(f) THEN OnFrame(client, f.inner, TRUE)
                    ELSE OnFrame(client, f, FALSE)
        IN  /\ Barrier(sdl) = Barrier(term)
            /\ GameReady(sdl) <=> GameplayEnabled(term)

\* A seated connection does not hang: the client hears WELCOME, or the events
\* it cannot take condemn the connection (WELCOME is sent once, HELLO of a
\* seated connection is ignored).
HelloIsSettled == session = "seated" ~> (client.welcome \/ session = "closed")

\* A client that waits in a playing round gets to play, sees its results, or
\* loses the connection.
RoundOpens ==
    client.welcome /\ client.phase = "playing" ~>
        (GameReady(client) \/ client.phase = "over" \/ session = "closed")
=============================================================================
