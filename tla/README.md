# Maze War: a verification project

This directory holds TLA+ models of the networked Maze War in this repository:
its authoritative TCP server (`src/server/main.c`), the protocol it speaks and,
where the protocol depends on them, its clients. TLC checks the models on small
instances; TLAPS proves the theorems of the eight `*Proofs` modules for every
value of the constants.

## The system

One server process hosts up to 64 isolated *rooms* of four *seats* each. It is
a single thread around `poll`: a pass handles closed and readable connections,
then new connections, then the timers, then at most a few 100 ms ticks. One
second thread publishes seat counts to a lobby service. A client (an Atari
program in assembler, a terminal client, an SDL client) keeps one TCP connection
per session. Packets travel in COBS frames with a CRC-16, so a damaged frame is
dropped and everything else arrives in order.

| Component | State | Operations | Talks to | Hard part |
|---|---|---|---|---|
| Room lifecycle, `main.c` 329-529, 1273-1366, 2488-2615, 2858-2904 | connection per seat, round state and id, no-human deadline, intermission deadline, frozen result | accept, HELLO, LEAVE_ROOM, EOF / timeout / failed transmit, grace expiry, intermission expiry, reset, sleep, wake | clients (session and round packets), combat (baselines) | every disconnect races every deadline; a seat changes hands between human and zombie |
| Combat and world, `main.c` 599-1059, 1522-1559, 1681-2086, 2124-2486 | positions, deaths, occupied mask, bricks, scores, shots | one actor's input, one shot's step, respawns, RESPAWN and BRICK_DELTA requests | lifecycle (end of round), event stream | order inside a tick; stale coordinates of vacant seats |
| Zombie AI, `main.c` 1610-1869 | decision timers, headings, seeded random | an input per zombie per tick | combat | only through what it can ask for |
| Reliable event stream, `main.c` 1183-1271; `sdl_main.c` 1134-1156 | queue, next / sent / acknowledged revision, deadlines; applied revision | enqueue, resend, acknowledge; receive | transport | loss, repetition, wrap-around, full queue |
| Input pipeline, `main.c` 884-896, 1406-1500, 2124-2157; `maze-war.asm` 1376-1557, 5531-5848 | last sequence, six-entry queue, applied sequence; eight-entry ring of unacknowledged inputs | DELTA, apply one per tick, snapshot acknowledgement, replay | combat, client prediction | freshness modulo 256, overflow, round barrier |
| Best-effort repair traffic, `main.c` 619-845, 1068-1088, 2061-2070, 2904-2935 | echo lists, resync and rotation timers | brick and respawn echoes, map resync, name rotation, shot clear bursts, seat mask | clients' view of the maze | direct frames, echoes and events about the same thing overtake each other |
| Session and round barrier, `main.c` 1291-1366, 2499-2577; `sdl_main.c` 1118-1332; `linux/main.c` 444-589; `maze-war.asm` 4977-5167, 9584-9668 | round id, phase, authorization, map, snapshot | HELLO, WELCOME, ROUND_START, map, SNAPSHOT, MATCH_END | event stream | packets of different rounds in any order; a WELCOME that is sent once |
| TCP framing and transmit queue, `net/tcp_stream.h`, `main.c` 1108-1149 | transmit buffer, decoder state | queue a frame, flush, decode | kernel | partial writes, full buffer, damaged bytes |
| Server loop, `main.c` 368-546, 1562-1608, 2858-2904, 2940-2999, 3257-3375 | descriptors, poll references, next tick, departing connections | poll pass, accept, LEAVE_ACK drain, timeouts | rooms | reused descriptors, peers that never read, late ticks |
| Lobby publisher, `lobby_publisher.c` | occupancy, dirty flag, next attempt and retry delay per room, stop | submit, POST, refresh, retry, stop | a second thread, the lobby | lock dropped during the POST, requests served late |
| Byte normalization and counters, `transport_*.c` | counters | none that matter | | no caller in the server / logging |
| Rendering, sound, prompts | presentation | | | out of scope |

`PROJECT.json` lists them with their status, and under `hazards` what in this
code is hard to test, at its line, with the property that would notice.

### What makes each part correct

* **Lifecycle.** An awake room counts down to sleep exactly while no human is in
  it; every countdown and every intermission is resolved; a sleeping room is a
  clean baseline; every human of a playing round takes part in it; a new owner of
  a seat starts from zero.
* **Combat.** Actors on the board never share a cell and never stand in a brick;
  a shot and an actor cannot exchange cells unnoticed; nobody scores past the
  limit, and a result has one winner, a human it lists or a slot that a zombie held
  during the round; the dead return.
* **Event stream.** Events are applied in order, each once, whatever is lost; an
  event leaves the queue only after it was applied; it is applied at last.
* **Inputs.** A move the client discards from its ring was served, unless the line lost
  it or a full queue dropped it; what it replays over a snapshot is newer than what the
  snapshot acknowledges; the first input of a new round is accepted.
* **Barrier.** Input opens only when map, snapshot and round start are of one
  round, and it does open; results stay until a newer round; the client never
  lacks a brick the server has, and agrees with the server when all is quiet; the
  two Linux clients agree with each other on all but whether the own actor is drawn; a
  lost WELCOME does not hang a session.
* **Framing.** Nothing follows a frame that was cut; a damaged byte costs the
  frames it touches and nothing else; what was not damaged arrives.
* **Loop.** Every open descriptor has one owner; a new connection starts clean;
  neither a silent nor an endless peer keeps what it holds.
* **Publisher.** A change of occupancy is published at last, as long as no more than
  some twenty rooms hang at once; the offline notice is the last word; the stop does not
  hang the game.

## Modules

| Module | Models | Kind |
|---|---|---|
| `Seats` | which seats humans, zombies and pending connections hold | operators |
| `Board` | the grid, lanes, bricks, `pick_spawn` | operators |
| `MazeRoom` | one room: lifecycle and combat together | state machine |
| `MCMazeRoom` | its small instances | model checking |
| `MazeRoomProofs` | its invariants for all constants | proofs |
| `EventStream` | what the event stream promises | abstract specification |
| `ReliableStream` | queue, acknowledgements, timers, receiver | state machine, implements `EventStream` |
| `ReliableStreamProofs` | invariants and the refinement for all constants | proofs |
| `InputQueue` | one client's inputs: numbers, queue, acknowledgement, replay ring | state machine |
| `InputQueueProofs` | what is served, forgotten and replayed, for all constants | proofs |
| `VbiHandoff` | what the Atari's main line shares with its vertical blank interrupt | state machine |
| `VbiHandoffProofs` | no torn snapshot, an exact ring, for all constants | proofs |
| `RoundFrames` | the frames about rounds and bricks | operators |
| `SdlClient`, `TerminalClient` | what either Linux client makes of a frame | operators |
| `RoundSync` | a room's session and round traffic, the wire, a client | state machine, uses both clients |
| `RoundSyncProofs` | what the room sends and the clients make of it, for all constants | proofs |
| `TcpStream`, `MCTcpStream` | COBS frames through a transmit buffer, a socket and a bad line | state machine, instance |
| `TcpStreamProofs` | the COBS round trip, whole frames, order and local damage, for all constants | proofs |
| `Connections` | the passes of the server loop over descriptors | state machine |
| `ConnectionsProofs` | ownership of descriptors and clean seats, for all constants | proofs |
| `LobbyPublisher` | the publisher thread, the game loop beside it, and the lobby | state machine |
| `LobbyPublisherProofs` | its safety for all constants | proofs |

The modules are layers of one system. `TcpStream` justifies the wires of the
others: frames arrive whole and in order, or not at all. `EventStream` is what
`RoundSync` and `InputQueue` assume of events. `Connections` has the passes in
which `MazeRoom`'s handlers run, and both use the seats of `Seats`.

Every definition that stands for code is in the `map` of `PROJECT.json` with its
lines. Operators whose name has a suffix after an underscore (`Blocked_BricksOnly`)
are the plausible slips against which the properties were tested: with the slip
in place of the definition TLC finds the named property violated.

### MazeRoom

Lifecycle and combat are one module because their hazards lie between them: who
is on the board depends on who is connected, and a hit can end the round.

* `conn` is `clients[]` reduced to *free*, *pending* (accepted, no HELLO yet) and
  *human*; `grace` says that the no-human deadline is armed; `round_state` and
  `result` are `round_state`, `match_result`; `hist` is `historical_zombie_mask`.
* `occupied`, `cell`, `dead`, `bricks`, `score`, `shot` are `occupied_mask`,
  `players[].x/y` (kept for vacant seats too, as in the code), `respawn_at_ms`
  not 0, `brick_bits`, `scores[]`, `shots[]`. `shown` is a history variable: what
  the last RESPAWN told the clients of each actor.
* A tick is cut into one step per actor and one per shot, in slot order: `TickBegin`
  is `step_players` up to the snapshot of positions (mask, then due respawns one
  after the other), `Act` one turn of the actor loop, `StepShot` one turn of
  `step_shots`, `TickEnd` the rest. `moved` is the difference between
  `pre_move_x/y` and the present positions. Everything else requires
  `phase = "idle"`: the server is one thread, so nothing interleaves with a tick.
  A hit that reaches the limit cuts the tick short, as `enter_round_over` does.
* `Accept`, `Hello`, `Leave`, `Drop`, `GraceExpire`, `IntermissionExpire`,
  `RespawnRequest`, `BrickRequest` are the handlers of the same events. `Drop` is
  `drop_client` whatever its cause (EOF, silence, missing HELLO, failed
  transmit).
* Deadlines carry no numbers: an armed deadline may pass at any idle moment. That
  admits every order of deadlines and packets the clock admits.
* A zombie may ask for whatever the AI could ask for on the board it sees
  (`ZombieInputs`): stand, step, shoot along an open lane at a living human, shoot
  at a brick in its way. Timers, pursuit and random seed are abstracted.
* A human's input in a tick is any of `Joy` or neutral.

### EventStream and ReliableStream

`EventStream` is the promise: a counter of emitted events and the sequence of
those applied, which grows by the next number only. `ReliableStream` is the
mechanism: the server's queue with `reliable_next_rev`, `reliable_sent_rev`,
`reliable_acked_rev`, the two deadlines, and the receiver of the SDL client. The
two channels keep order and lose frames (a failed CRC). A loss is placed at the
sending, which for an ordered channel is the same as a loss under way and keeps
the model small. `Reconnect` is a new connection: a new stream. The event's
content is its number; `emitted` and `applied` are history variables.

### InputQueue

One Atari client and its seat. The client numbers its packets with a byte
(`n`, unwrapped in the model; the tests of the code go through `SeqNo`), keeps
what it sent while the round is ready in `ring`, and stages the latest snapshot
(`stage`) for the interrupt. The server keeps `have_delta_seq` / `last_delta_seq`
(freshness), `input_q`, and `applied_input_seq`, which every snapshot carries back.

* `Transmit` is one DELTA: an input when the round is ready, else a neutral
  heartbeat without an entry in the ring. `TransmitOther` is a RELIABLE_ACK or NAME,
  which takes a number too.
* `ReceiveDelta` has the code's five outcomes: wrong round or results, stale,
  folded, queued, dropped by a full queue. `Tick` serves at most one input and
  sends a snapshot; with `--lag-ms` the head may have to wait, so serving is optional.
* `Commit` is the interrupt's commit and discard, `EnterRoundOver`, `ResetRound` and
  `ReceiveEvent` the change of round at either end, at different moments.
* `DELTA` and `SNAPSHOT` may be lost; events may only be late, as `EventStream`
  promises. Joystick values are a move or neutral: nothing else is distinguished.
* `first`, `heard`, `served`, `dropped` are history variables. The last two say of the
  moves in the ring which a tick has served, and which the line lost or a full queue
  dropped.

### VbiHandoff

The deferred vertical blank is an NMI: it may come between any two instructions of
the main line and runs to its end. So a step of the main line is one access to
shared memory: the instructions of `NET_LOCAL_INPUT_PUSH`, and `NET_SNAP_APPLY` cut
where it opens the staging area, stages the acknowledgement, stages the positions
and publishes. `Commit` is the whole interrupt: `NET_STAGE_COMMIT` and
`NET_LOCAL_ACK_DISCARD`. `reg` is the register carried from one access to the next.
Between the `INC` and the `AND` of a head that wraps, the interrupt reads one entry
past the table, which is a joystick byte: `junk` is either outcome of the comparison.
`oldest` and `n` are history variables, `Inputs(oldest, n)` is what the ring should hold; `cut` records that an interrupt hit one of
the instructions listed in `Exposed` and the ring has differed since.
Left out: a change of the client's own seat, which the server never makes on a
live connection, and the clearing of the ring by round events.

### RoundFrames, SdlClient, TerminalClient and RoundSync

`AfterFrame` is `handle_packet` of the SDL client, `OnFrame` the loop body of the
terminal client, each with one operator per packet type; the state is the part of
`game_state` that decides when input opens, the maze, and whether the own actor is
drawn. `map_of` and `snapshot_of` are history.

`RoundSync` puts one client at the end of a wire that keeps order and loses frames.
A handler of the server is one action with all the frames it sends, in order: `Emit`
sends the direct ones, which go before its first event or after it, queues the events,
and condemns the connection when an event finds the queue full; `Transmit` puts on the
wire any part of what is sent. Events keep the promise of `EventStream`: only the head is under
way, it is sent again until the client applied it, and a repetition changes nothing.

* `Hello` is the HELLO branch with `activate_joining_client` and
  `send_round_state`; `Tick` is `tick_room` with its echoes, what combat may do to
  this client's view (a brick, the own actor, the end of the round) and the snapshot;
  `ResetRound`, `BrickRequest`, `RespawnRequest`, `RotateName`, `Resync` are the
  handlers and timers of these names; `Resend`, `Ack`, `Receive`, `Drop` the transport.
* `queue_brick_echo` gives up the entry at index 0 when its table is full; which one
  that is depends on the table's history, so any may be given up, and any entry may
  be flushed next.
* A connection ends in `closed`: a new one is a new behaviour, and `Init` has every
  point of a round or of its results at which a client may connect. After
  `LastRound` no round is started.
* Left out: other actors' announcements (they are the own actor's with another
  index), scores, names, positions, shots, and that SDL shows an actor again after
  2.5 seconds by itself.

### TcpStream

One direction of a connection, byte by byte. `EncodeByte` and `DecodeByte` are one turn
of the two loops, and `Encoded` and `Decoded` what they make of all bytes: the encoder's
state is the blocks that are complete and the open one, whose code the C program writes
into the place it left for it (`Closed`). `Queue` is `tcp_tx_queue` (flush, overflow test,
append, flush), `Flush` the loop on POLLOUT, `Push` the receiver's state after a byte.
The two decoders of `tcp_stream.h` differ in their buffers only. `Damage` is the serial
line behind the network adapter. `put` is history.

The CRC is ideal: one symbol behind the packet, larger than any byte, another one for
every packet, so the one damaged frame in 65536 that passes is left out. The code's CRC
is two bytes, of which either may be zero; here only the bytes of a packet may.
`FramesFit` says that a frame fits the receiver's buffer: the longest packet, a BRICK_FULL
event of 56 bytes, becomes 59 with its CRC and a code, and the buffer has 64. `PacketsAssumption` excludes an empty packet, which the
receiver drops and nobody sends.

### Connections

The passes of `main` over one room. `Poll` records a `poll_ref` per descriptor with
events; `ClientTurn` and `ExitTurn` serve them in table order, each checking that
the entry still has the recorded descriptor; then one `Accept`, the `Timers` and the
`Tick`. Peers send and hang up in between, at any step. A frame is one unit
(`TcpStream` has its bytes), HELLO, a HELLO of another version, LEAVE_ROOM or any
other; what it does to the game is in `MazeRoom`. Time is counted in passes: a
connection's `age` is the time since `connected_ms` or `last_seen_ms`. Every step in
which the server sends may leave any number of frames in a buffer, or fail it:
`Handled` is what a client's own packet brings it, `Overheard` what it brings the
others, `Broadcast` what timers and ticks send to all. `broadcast_packet` serves
humans only; the rotating NAME (`broadcast_next_name`) goes to a connection that has
not said HELLO too, which may therefore hold a frame or fail on one (`Told`). The kernel
may hand out a closed descriptor at once. A refused peer (no seat) is opened and
closed within `Accept` and does not show.

### LobbyPublisher

A step of the thread is a stretch between two points where it holds no lock:
`PickOnline`, `PickOffline`, `Sleep` and `Finish` are the locked part of the loop,
`Succeed` and `Fail` the end of a POST with its locked epilogue. The game loop's
`Submit` and `Stop` come at any moment. A deadline is kept as the time left until it;
time passes while the thread sleeps (at most 100 ms, one unit) or waits for `curl`.
The lobby may have served a request whose `curl` was killed, or serve it later
(`late`). The schedule of online requests is forgotten at the stop, after which the
thread does not read it; with a refresh of 3 and retries of 1 and 2, this reduction
leaves 186 thousand of 1.37 million states and the same result. `confirmed` is history.

## Runs

Each run and what it shows is in `PROJECT.json`. Every module has a type invariant,
which documents its state. The room's is checked by `combat`; the others were checked
once with the configurations below and are not part of the runs, and those of
all modules but `Connections` are proved. `HumanOnBoard` and
`StopAndWait` are proved and no longer run. Bounds:

* **MCMazeRoom_combat**: 2 seats, the second a zombie's while no human holds it;
  a corridor of 4 cells with a brick in it, limit 2. Two actors can block, shoot,
  exchange cells, dig and return, and both session events and combat interleave.
  About 326 thousand states.
* **MCMazeRoom_seats_mixed**: 3 seats with one zombie, limit 1, no brick. With 3
  seats the zombie mask can shift (one zombie and two candidate seats), which is
  where seat hazards live. 664 thousand states. With two zombies, so that every seat
  above 0 is backfilled, `Placement` and `HumanOnBoard` hold as well (456 thousand
  states).
* **MCMazeRoom_live**: 2 seats, 3 cells, fair. Liveness of deadlines.
* **MCMazeRoom_overlap, _handoff**: see *Findings*.
* **ReliableStream_loss**: revisions of 2 bits, queue of 3, 9 events (so the
  revisions wrap twice), 4 frames under way per direction; safety, the refinement
  and, fair, liveness.
* **InputQueue_play**: numbers modulo 8, queue and ring of 2 entries, 10 numbers (so
  they wrap), 2 rounds, 2 packets under way per direction, at most 3 numbers ahead of
  the last acknowledgement while a round plays and any number during results. Queue
  and ring both overflow. 2.9 million states. In the code's terms the bound on the
  lead says that the client hears something within 128 numbers, 12.8 seconds; the
  server drops a silent session after 15.
* **VbiHandoff_ring**: ring of 3, 7 pushes, 4 snapshots, a stage counter that wraps
  twice. The head wraps, the ring fills, overflows and is emptied at every
  instruction.
* **RoundSync_barrier**: one brick, round ids modulo 4, the joined round and the next
  one, a queue of 3 events (a HELLO's three events just fit, a fourth condemns), two
  frames under way, two repeats of a brick echo as in the code (with one, none could
  be left when a round ends) and one of a respawn echo. Two frames suffice for a frame
  of the old round behind or before one of the new. 393 thousand states. The safety
  properties also hold with a queue of 4 (1.8 million states), and with two bricks that
  compete for an echo table of one entry (1.9 million states).
* **MCTcpStream_frames**: three packets with a leading zero, a trailing zero and a
  block that fills exactly (`CodeMax` 3 instead of 255); a buffer of 10 bytes against
  frames of 5 and 6, so it fills in the middle of a frame; 6 bytes under way, written
  in any portions, two of them damaged. 124 thousand states.
* **Connections_pass**: one seat, one departing entry, three descriptors, two frames
  under way per peer, buffers of one frame, deadlines of one or two passes. Seats do
  not interact except through descriptors and what one hears of the other, and a third
  descriptor lets a newcomer take the number of one just closed while the other two are
  served. 354 thousand states; the safety properties also hold with two seats, where
  one hears the other, no seats for zombies and one frame per peer (3.7 million).
* **LobbyPublisher_board**: two rooms, two levels, a POST that hangs up to 2 units, a
  shutdown of 3, retries of 1, 2 and 4, a refresh of 2: the code accepts a refresh from
  one second, and retries go up to 30. Retries, refresh, stop and a late request meet in
  every order. 489 thousand states. All four properties also hold with a longest retry of
  2 or 3 and a refresh of 2 or 3, and with 4 and 3; the safety properties also with three
  rooms, a hang of 1, a shutdown of 2, a refresh of 2 and retries of 1 and 2 (14
  million states).

`RoundIds` is 2 in the room runs: the id wraps at once, and the only comparison
made with it is equality. The grid is small but has all cases of
`pick_spawn`: far cells, only near cells, and ties.

### Fairness

`MazeRoom.FairSpec`: a tick that began ends (WF of `TickStep`: a loop over four
slots). The timers of `service_room_timers` are strongly fair, because `main`
runs them in every pass between two ticks: they are enabled again and again
although ticks disable them. A respawn that is due is served by some later tick
(SF per slot): ticks keep coming while the round plays, and `respawn_at_ms` is a
fixed time in the past at some point. No client is assumed to do anything.

`ReliableStream.FairSpec`: the resend timer elapses, what arrived is read (WF),
and of frames sent again and again one gets through (SF on the delivering form
of `Resend` and of the answer). Without the last assumption nothing can arrive.

`RoundSync.FairSpec`: what arrives is read, acknowledgements arrive, the name
rotation runs (WF: a timer of the server's loop), and of the frames that are sent
again and again (the head of the queue, the snapshots of the ticks) one gets through
(SF). WELCOME, which is sent once, is owed nothing: that a session without it is
settled all the same is the point of `HelloIsSettled`.

`TcpStream.FairSpec`: the bytes under way are read (WF), and a socket with room
takes bytes of a waiting buffer at last (SF: `poll` reports POLLOUT). A connection
that fails is owed nothing: `PacketsArrive` allows it.

`Connections.FairSpec`: the loop's passes go on (WF). Peers owe nothing: that is what
the timeouts are for.

`LobbyPublisher.FairSpec`: the thread runs and time passes (WF of `Run`), a late
request is settled at last (WF), and a room that is posted again and again is
accepted by the lobby at last (SF per room). That the thread does post each room
again and again is what `Converges` shows.

## Proofs

Assumptions are the named ASSUMEs of the modules (`SeatAssumption`,
`FramesAssumption` and so on); TLC evaluates them in the runs. Every safety
property that a passing run checks is a theorem. Each proof has an inductive invariant
of its own, which TLC checked on the run's instance first; the reasons why the property
alone is not inductive follow.

* **MazeRoomProofs.** `TypeInvariance` proves the type invariant together with
  `ShotsToStep` (the shots a tick has still to step exist). `SafeInvariance` then
  proves seven conjuncts together, because none of the interesting ones is
  inductive alone: that the countdown of an empty room cannot meet a result
  (`GraceOwnsEmptyRoom`) needs that an empty room cannot score, which needs that
  no shot flies without humans (`ShotsNeedAudience`), which needs that every
  acting slot is seated (`ActorsHaveSeats`, `TickOnlyPlaying`), so that without
  humans it is a zombie, and a zombie without a living human to aim at only
  shoots at bricks. `HumanOnBoard`, `KillLimitEndsRound` and `DormantIsClean` fall
  out of the same induction.
  `CombatInv` adds `HiddenMeansDead`, `ShotsDoNotSwap` and `WinnerIsLabelled`. A
  winner can be labelled because whoever has a shot in flight can be
  (`ShootersAreLabelled`): a human, or a zombie that `hist` remembers, or one the
  AI steers in the tick that fired it and remembers at its end.
  `PlacementCorrect` is the only theorem about some settings: where zombies take no
  seat or every seat above 0 (`Backfilled`), whom the next tick puts on the board is
  on it already, so nobody comes back to a cell left long ago. The default of one
  zombie beside three human seats lies in between, and there `Placement` is false: run
  `overlap`.
* **ReliableStreamProofs.** `StreamInvariance` proves: the queue is a run of
  consecutive events and revisions; the client is level with the server or one
  event ahead; everything under way to the client is the last applied event or
  the next one, in that order; every acknowledgement under way is of the last
  removed event or of the next one, in that order. It follows that an
  acknowledgement never removes more than one entry and that the modular
  comparison is exact although revisions wrap: revisions that meet are never more
  than one apart. This needs `RevMod >= 4` only. `PromiseKept` is the refinement of
  `EventStream`, for every queue length, revision width and channel capacity.
* **InputQueueProofs.** `InputInv` puts the numbers of the whole pipeline in one
  order: deltas under way are ascending and newer than everything queued or served
  (`UpInv`), the queue is newer than what was applied (`QueueInv`, `ServerInv`), and
  every acknowledgement under way, staged or heard is of a number already served,
  later ones of later numbers (`DownInv`). The ring then holds only numbers not heard
  of, fewer than half a circle of them (`ClientInv`), where the comparison of bytes
  agrees with that of numbers; and the events under way lead the client step by step
  to the server's round (`EventsInv`), so that no number of an earlier round is taken
  for one of the present. `AccountInv` says where each move of the ring is: served,
  dropped, still under way or queued, or cleared away by the end of its round with no
  acknowledgement that reaches it; what waits is newer than every acknowledgement
  (`WaitingIsNewer`), so only a move of the first two kinds is forgotten on one, which
  is `AckedCorrect`. All this holds for every even width of the numbers and every size of
  queue, ring and channels. The bound on the lead of a playing client, `MaxLag`
  below half a circle, is the one explained under *Runs*.
* **VbiHandoffProofs.** `StageInv`: the stage counter is odd exactly while the staging
  area is written, and what is published is of one snapshot; `NotTorn` follows for every
  even counter width. `RingInv` says for each instruction of the push which part of
  the ring is already as it should be, unless `cut`; that the interrupt preserves it is
  an argument about the loop of `NET_LOCAL_ACK_DISCARD` at an arbitrary head. `NumberInv`
  is what even an interrupt at an exposed instruction leaves alone.
* **RoundSyncProofs.** `ClientInv` says that a map or snapshot a client has is of the
  round it is in, authorized or not. The argument looks at the client alone
  (`FrameKeepsPieces`, for any frame), so `PiecesCorrect` holds whatever reaches it,
  in whatever order. `SameBarrier` compares the two clients' handlers packet by packet.
  The second part is about the room, the wire and the client together. `SyncInv` says,
  for everything the client may have wrong, which event that it has still to apply puts
  it right. `At(round, over)` numbers the rounds and their results, so that "behind" has
  a meaning although round ids wrap (`LastRound` bounds the rounds, so within a
  behaviour an id is used once). `RoundsInv`: the waiting events lead the client, or the
  one a WELCOME under way will make of it, step by step to where the server is.
  `MapInv`: a map waits behind every round start. `LacksInv`: no frame under way or
  waiting takes a brick that stands. `FallenInv` and `ActorInv`: whoever still has a
  fallen brick, or shows or hides the own actor wrongly, or will after a frame ahead,
  is told by an event behind it. `EchoInv`: echoes only repeat what is still so. With
  nothing waiting nothing is wrong, which is `QuietMeansEqual`. This needs four round
  ids (`FramesAssumption`), and holds for every maze, queue, echo table and wire.
* **ConnectionsProofs.** `OwnersAreExact` is inductive together with the types of the
  tables and `Recorded`: every poll reference was made for a descriptor that was
  open. It rests on a lemma that `alloc_client_slot` never returns a human's seat.
  `NewSeatCorrect` is about the step in which a connection takes a seat, which sets
  neither its buffer nor its flags. It needs that a seat nobody has is clear (`ClearInv`):
  whoever leaves one clears it (`VacateClear`), and nothing is sent to
  nobody (`NobodyIsTold`). What a connection on the seat was sent does not matter.
* **LobbyPublisherProofs.** `LobbyInv` adds to the type invariant and `ChangeIsPending`
  what a request under way says of its room: it carries the current occupancy or the
  room is dirty again, and once a room's offline notice was handed out it is the
  offline one; and, for the stop, that the time left until the shutdown deadline
  minus the time left for the POST never goes below the bound of `StopIsBounded`
  (`StopInv`). A delay is at most `LongestDelay`, the refresh or the longest retry,
  whichever is longer; nothing is assumed about which, only that the longest retry is
  longer than the shortest (30 s and 1 s in the code), which tells a room that waits
  for a retry from one that waits for its refresh. `OfflineCorrect` follows step by
  step: online requests are only taken while not stopping, and offline notices exist
  only when stopping.

* **TcpStreamProofs.** The loops of the encoder and the decoder are functions over the
  positions of their input; that a loop has a value at every position and that what each
  turn keeps holds at the end are shown from the least position where it would not
  (`LeastExists`, `RunExists`, `RunStaysIn`), so no induction principle is needed.
  `CobsRoundTrip` says that a decoder, given the encoding of any bytes, ends complete and
  with those bytes, and that the encoding holds no zero: the decoder after the complete
  blocks and a zero it still owes stands where the encoder stood (`EncodeByteStands`).
  `WholeFrames`: `CutInv` adds to `NothingFollowsACut` that what was put is a prefix of
  the frames, in a form that concatenates.
  `NothingInvented`: `OrderInv` looks at `Flow`, all symbols that may still make up a
  frame (collected, under way, buffered). Every CRC among them belongs to a queued packet
  later than all delivered ones, and they climb. Damage adds no CRC, a frame that passes
  the check ends in the CRC of its packet (`FrameSays`), and delivering it removes that
  CRC, so the next is later.
  `DamageStaysLocal`: `Covered` is the number of packets delivered plus two for each
  damaged byte. `SyncInv` says that it is larger than the number of packets queued, or
  there is a place behind k frames, not more than it covers, where the receiver is
  (`InSync`: what it collected and what comes are the frames after k), or where the next
  delimiter puts it (`OffSync`). Damage inside frame k + 1 moves the place behind that
  frame or, if it was the delimiter, behind the next: the two frames it pays for. Once
  all bytes are read, the place is behind the last frame.

Only model-checked: `Placement` under `Zombies` in between and `HandoffIsClean`, which
are false and belong to *Findings*; and all liveness, which the prover does not do, nor
ENABLED.

## Findings

Each is a run that TLC ends with a counterexample, and an entry of `findings`.

1. `overlap`: with fewer zombies than seats above 0, a zombie whose seat comes back
   to the AI returns to the cell it held long ago, on top of another actor.
2. `handoff`: a seat is cleared at accept, but the zombie plays on from it until
   HELLO: the human inherits the points and the shot of that interval.

Seen while modelling, without a run of their own:

* A zombie displaced by a shift of the mask can win the round with a shot still in
  flight (`StepShot` tests the shot only, as `main.c` 2000-2003 does); the frozen
  result then blanks the winner's row.
* An input dropped by a full queue is acknowledged by the next one that is served
  (`ReceiveDelta` takes the number first), so the client discards it although it moved
  for it; so is one that the line lost. The comments say the opposite (`main.c` 62-63:
  "deliberately NOT acked, so the client keeps it pending and replays it"; 1491;
  2153-2154, of a lost packet); `doc/protocol.md` 554-559 records the overflow as open.
  `AckedWasServedOrDropped` names both as its exception: with `served` in place of
  `served \cup dropped`, TLC refutes it on the instance of `play`.
* A push to a full ring that is interrupted between the store and the move of the head
  leaves acknowledged inputs in the ring, to be replayed. `RingIsExact` shows that
  only the instructions listed in `Exposed` are vulnerable.
* A RESPAWN request of an actor that was just shot shows it while its respawn deadline
  still runs (`MazeRoom.RespawnRequest`).
* A duplicate acknowledgement within `RELIABLE_FAST_MS` falls through to the
  unconditional send of the head (`ReceiveAck`).
* The terminal client tests bit 0 of a RESPAWN, which a final one (flags 3) carries as
  well: it hides the actor until the next snapshot (`OnRespawn`). `ClientsAgree` is
  therefore about everything but `hidden`.
* A damaged byte costs "exactly one frame" (`main.c` 1101-1107) unless it is the
  delimiter, which costs the frame behind it too: with `damaged` in place of
  `2 * damaged`, TLC refutes `DamageIsLocal`.
* A lost WELCOME is settled only because the name rotation overflows the queue of a
  client that cannot take events: with 24 entries, after some 20 seconds.
* The publisher always starts its search at room 0. If more than twenty rooms hang for
  the full timeout, their retries, at most 30 seconds apart, leave no turn for the rest.

## Not modelled

* The arithmetic of `next_tick` (`main.c` 2978-2990): sequential, on absolute times,
  which no model here has. Deadlines are counted down or pass nondeterministically.
* Several rooms in one loop: they share the loop and its `poll` only; `LobbyPublisher`
  is where they meet.
* The AI's timers, pursuit and random seed: `ZombieInputs` is everything it can ask for.
* The Atari client's barrier in assembler: the same protocol a third time, spread over
  the user interface; its shared state with the interrupt is in `VbiHandoff`.
* The bursts that clear shots, and the seat mask: repeated as they are, they decide
  nothing at the receiver.
* `transport_rx_push_byte` (no caller in the server) and the counters.
* Rendering, sound, prompts, packet byte layout, command line and layout file
  (sequential start-up), tests and tools.
