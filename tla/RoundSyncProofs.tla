-------------------------- MODULE RoundSyncProofs --------------------------
(***************************************************************************)
(* Proofs about RoundSync, in two parts.                                   *)
(*                                                                         *)
(* The first is about what the clients make of any stream of frames, not   *)
(* only of those that a room sends: it never looks at the wire.            *)
(*                                                                         *)
(* The second is about what a room sends: SyncInv says of every frame      *)
(* under way, of every event that waits and of the client what is still to *)
(* come after it.  The theorems about maze, actor and results follow.      *)
(***************************************************************************)
EXTENDS RoundSync, TLAPS, SequenceTheorems

USE FramesAssumption, SyncAssumption

Fields ==
    {"welcome", "round", "phase", "authorized", "map_ready", "snapshot_ready",
     "maze", "hidden", "map_of", "snapshot_of"}

\* A client as a record of these fields.
IsClient(c) ==
    /\ DOMAIN c = Fields
    /\ c = [x \in Fields |-> c[x]]
    /\ c.welcome \in BOOLEAN
    /\ c.map_ready \in BOOLEAN
    /\ c.snapshot_ready \in BOOLEAN
    /\ c.authorized \in BOOLEAN

\* The pieces it has are pieces of the round it is in, whether or not that
\* round has been started.
PiecesOfRound(c) ==
    /\ c.map_ready => c.map_of = c.round
    /\ c.snapshot_ready => c.snapshot_of = c.round

ClientInv == IsClient(client) /\ PiecesOfRound(client)

----------------------------------------------------------------------------
(* One frame                                                               *)

\* No frame leaves a client with a piece of another round.
LEMMA FrameKeepsPieces ==
    ASSUME NEW c, IsClient(c), PiecesOfRound(c), NEW f, NEW reliable \in BOOLEAN
    PROVE  LET d == AfterFrame(c, f, reliable) IN IsClient(d) /\ PiecesOfRound(d)
<1> DEFINE d == AfterFrame(c, f, reliable)
           Good(e) == IsClient(e) /\ PiecesOfRound(e)
<1>1. Good(AfterWelcome(c, f))
    BY DEF IsClient, Fields, PiecesOfRound, AfterWelcome, Shut
<1>2. Good(AfterRoundStart(c, f))
    BY DEF IsClient, Fields, PiecesOfRound, AfterRoundStart, Cleared
<1>3. Good(AfterMatchEnd(c, f))
    BY DEF IsClient, Fields, PiecesOfRound, AfterMatchEnd
<1>4. Good(AfterBrickFull(c, f, reliable))
    BY DEF IsClient, Fields, PiecesOfRound, AfterBrickFull
<1>5. Good(AfterBrickDelta(c, f))
    BY DEF IsClient, Fields, PiecesOfRound, AfterBrickDelta
<1>6. Good(AfterRespawn(c, f))
    BY DEF IsClient, Fields, PiecesOfRound, AfterRespawn
<1>7. Good(AfterSnapshot(c, f))
    BY DEF IsClient, Fields, PiecesOfRound, AfterSnapshot, IsPlaying
<1>8. Good(c)
    OBVIOUS
<1>9. d \in {c, AfterWelcome(c, f), AfterRoundStart(c, f), AfterMatchEnd(c, f),
             AfterBrickFull(c, f, reliable), AfterBrickDelta(c, f),
             AfterRespawn(c, f), AfterSnapshot(c, f)}
    BY DEF AfterFrame
<1> HIDE DEF d, Good
<1>10. Good(d)
    BY <1>1, <1>2, <1>3, <1>4, <1>5, <1>6, <1>7, <1>8, <1>9
<1> QED BY <1>10 DEF Good, d

\* The terminal client's handlers and the SDL client's agree on every frame.
LEMMA SameBarrier ==
    ASSUME NEW c, IsClient(c), NEW f, NEW reliable \in BOOLEAN
    PROVE  LET sdl == AfterFrame(c, f, reliable)
               term == OnFrame(c, f, reliable)
           IN  /\ Barrier(sdl) = Barrier(term)
               /\ GameReady(sdl) <=> GameplayEnabled(term)
<1> DEFINE Same(s, t) == Barrier(s) = Barrier(t) /\ (GameReady(s) <=> GameplayEnabled(t))
           sdl == AfterFrame(c, f, reliable)
           term == OnFrame(c, f, reliable)
<1> USE DEF IsClient, Fields, Barrier, GameReady, GameplayEnabled
<1>1. Same(AfterWelcome(c, f), OnWelcome(c, f))
    BY DEF AfterWelcome, OnWelcome, Shut
<1>2. Same(AfterRoundStart(c, f), OnRoundStart(c, f))
    BY DEF AfterRoundStart, OnRoundStart, Cleared, Startable
<1>3. Same(AfterMatchEnd(c, f), OnMatchEnd(c, f))
    BY DEF AfterMatchEnd, OnMatchEnd
<1>4. Same(AfterBrickFull(c, f, reliable), OnBrickFull(c, f, reliable))
    BY DEF AfterBrickFull, OnBrickFull
<1>5. Same(AfterBrickDelta(c, f), OnBrickDelta(c, f))
    BY DEF AfterBrickDelta, OnBrickDelta, IsPlaying
<1>6. Same(AfterRespawn(c, f), OnRespawn(c, f))
    BY DEF AfterRespawn, OnRespawn, IsPlaying
<1>7. Same(AfterSnapshot(c, f), OnSnapshot(c, f))
    BY DEF AfterSnapshot, OnSnapshot, IsPlaying
<1>8. Same(c, c)
    OBVIOUS
<1> HIDE DEF Same
<1>9. Same(sdl, term)
  <2>1. CASE f.kind = "welcome"
      BY <2>1, <1>1 DEF AfterFrame, OnFrame
  <2>2. CASE f.kind # "welcome" /\ ~c.welcome
      BY <2>2, <1>8 DEF AfterFrame, OnFrame
  <2>3. CASE f.kind # "welcome" /\ c.welcome
    <3>1. CASE f.kind = "round_start"
        BY <2>3, <3>1, <1>2 DEF AfterFrame, OnFrame
    <3>2. CASE f.kind = "match_end"
        BY <2>3, <3>2, <1>3 DEF AfterFrame, OnFrame
    <3>3. CASE f.kind = "brick_full"
        BY <2>3, <3>3, <1>4 DEF AfterFrame, OnFrame
    <3>4. CASE f.kind = "brick_delta"
        BY <2>3, <3>4, <1>5 DEF AfterFrame, OnFrame
    <3>5. CASE f.kind = "respawn"
        BY <2>3, <3>5, <1>6 DEF AfterFrame, OnFrame
    <3>6. CASE f.kind = "snapshot"
        BY <2>3, <3>6, <1>7 DEF AfterFrame, OnFrame
    <3> QED BY <2>3, <3>1, <3>2, <3>3, <3>4, <3>5, <3>6, <1>8 DEF AfterFrame, OnFrame
  <2> QED BY <2>1, <2>2, <2>3
<1> QED BY <1>9 DEF Same

----------------------------------------------------------------------------
(* Behaviours                                                              *)

LEMMA NewClientIsGood == IsClient(NewClient) /\ PiecesOfRound(NewClient)
  BY DEF IsClient, Fields, PiecesOfRound, NewClient

LEMMA InitClient == Init => ClientInv
  BY NewClientIsGood DEF Init, ClientInv

\* The steps that are not Receive leave the client alone or start it over.
LEMMA ClientStep ==
    ASSUME [Next]_vars
    PROVE  UNCHANGED client \/ client' = NewClient \/ Receive
<1>1. ASSUME NEW b, NEW e, NEW a, Emit(b, e, a)
      PROVE  UNCHANGED client \/ client' = NewClient
    BY <1>1 DEF Emit, Disconnect
<1>2. CASE Hello
    BY <1>1, <1>2 DEF Hello
<1>3. CASE Tick
    BY <1>1, <1>3 DEF Tick, QuietTick, BrickTick, ActorTick, EndTick
<1>4. CASE ResetRound
    BY <1>1, <1>4 DEF ResetRound
<1>5. CASE \E b \in Brick : BrickRequest(b)
    BY <1>1, <1>5 DEF BrickRequest
<1>6. CASE RespawnRequest
    BY <1>1, <1>6 DEF RespawnRequest
<1>7. CASE RotateName \/ Resync
    BY <1>1, <1>7 DEF RotateName, Resync
<1>8. CASE Resend \/ Ack
    BY <1>8 DEF Resend, Ack
<1>9. CASE Drop
    BY <1>9 DEF Drop, Disconnect
<1>10. CASE Closed \/ UNCHANGED vars
    BY <1>10 DEF Closed, vars
<1> QED BY <1>2, <1>3, <1>4, <1>5, <1>6, <1>7, <1>8, <1>9, <1>10 DEF Next

\* A step gives the client a frame, starts it over, or leaves it alone.
LEMMA StepOfClient ==
    ASSUME [Next]_vars
    PROVE  \/ UNCHANGED client
           \/ client' = NewClient
           \/ \E f : \E reliable \in BOOLEAN : client' = AfterFrame(client, f, reliable)
<1>1. CASE Receive
  <2> DEFINE f == Head(wire)
  <2>1. \/ client' = AfterFrame(client, f, FALSE)
        \/ client' = AfterFrame(client, f.inner, TRUE)
        \/ UNCHANGED client
      BY <1>1 DEF Receive
  <2> QED BY <2>1
<1> QED BY <1>1, ClientStep

LEMMA StepClient == ClientInv /\ [Next]_vars => ClientInv'
<1> SUFFICES ASSUME ClientInv, [Next]_vars PROVE ClientInv'
    OBVIOUS
<1>1. CASE UNCHANGED client
    BY <1>1 DEF ClientInv, IsClient, PiecesOfRound
<1>2. CASE client' = NewClient
    BY <1>2, NewClientIsGood DEF ClientInv
<1>3. CASE \E f : \E reliable \in BOOLEAN : client' = AfterFrame(client, f, reliable)
    BY <1>3, FrameKeepsPieces DEF ClientInv
<1> QED BY <1>1, <1>2, <1>3, StepOfClient

\* Input never opens over the map or the snapshot of another round, whatever
\* reaches handle_packet in whatever order.
THEOREM PiecesCorrect == Spec => []PiecesMatch
<1>1. ClientInv => PiecesMatch
    BY DEF ClientInv, PiecesOfRound, PiecesMatch, GameReady
<1> QED BY InitClient, StepClient, <1>1, PTL DEF Spec

\* The two Linux clients open their input on the same frames.
THEOREM AgreementCorrect == Spec => []ClientsAgree
<1>1. ClientInv => ClientsAgree
    BY SameBarrier DEF ClientInv, ClientsAgree
<1> QED BY InitClient, StepClient, <1>1, PTL DEF Spec

----------------------------------------------------------------------------
(* The invariant of a room, its queue, the wire and the client             *)

\* How far a round, or its results, are along the life of the room.  Round ids
\* wrap once: the first round is RoundMod - 1, the last one comes before it.
Pos(r) == IF r = RoundMod - 1 THEN 0 ELSE r + 1
At(r, isOver) == 2 * Pos(r) + (IF isOver THEN 1 ELSE 0)
ServerAt == At(round_id, over)
ClientAt == At(client.round, client.phase = "over")

\* Where the server was when it queued an event.
EventAt(e) == At(e.round, e.kind = "match_end")
HasRound(e) == e.kind # "name"
Turns(e) == e.kind \in {"round_start", "match_end"}

\* The events the client has not applied yet.
Waits(k) == k \in DOMAIN queue /\ (k = 1 => ~head_applied)

\* Such an event reaches the client after the i-th frame under way.
WaitsBehind(k, i) ==
    /\ Waits(k)
    /\ k = 1 => \A j \in DOMAIN wire : IsEvent(wire[j]) => i < j

TypeInv ==
    /\ TypeOK
    /\ queue \in Seq(Inner)
    /\ wire \in Seq(Frame)

\* At most the head is under way, and nothing before WELCOME.
WireInv ==
    /\ \A j \in DOMAIN wire :
          /\ wire[j].kind \in {"welcome", "event", "brick_full", "brick_delta",
                              "respawn", "snapshot"}
          /\ IsEvent(wire[j]) =>
                Waits(1) /\ wire[j] = Event(queue[1])
          /\ wire[j].kind = "welcome" => j = 1 /\ ~client.welcome
    /\ \A i, j \in DOMAIN wire : IsEvent(wire[i]) /\ IsEvent(wire[j]) => i = j
    /\ ~client.welcome => ~client.map_ready /\ ~head_applied
    /\ session # "seated" => queue = <<>> /\ wire = <<>> /\ ~client.welcome

\* The events that wait lead from v to where the server is, step by step.
LeadOn(v) ==
    /\ v <= ServerAt
    /\ \A k \in DOMAIN queue :
          Waits(k) /\ HasRound(queue[k]) => v <= EventAt(queue[k])
    /\ \A u \in v + 1 .. ServerAt :
          \E k \in DOMAIN queue :
             Waits(k) /\ Turns(queue[k]) /\ EventAt(queue[k]) = u

StartWaits(r) == \E k \in DOMAIN queue : Waits(k) /\ queue[k] = RoundStart(r)

\* The queue is in the order of the rounds; a start and an end come first of
\* their kind; a client, or a WELCOME, is behind by what waits.
RoundsInv ==
    /\ Pos(round_id) <= Pos(LastRound)
    /\ \A k \in DOMAIN queue :
          HasRound(queue[k]) => EventAt(queue[k]) <= ServerAt
    /\ \A i, j \in DOMAIN queue :
          i < j /\ HasRound(queue[i]) /\ HasRound(queue[j]) =>
             /\ EventAt(queue[i]) <= EventAt(queue[j])
             /\ Turns(queue[j]) => EventAt(queue[i]) < EventAt(queue[j])
    /\ \A i \in DOMAIN wire :
          wire[i].kind \in {"brick_full", "brick_delta", "respawn"} =>
             Pos(wire[i].round) <= Pos(round_id)
    /\ \A i \in DOMAIN wire :
          wire[i].kind = "welcome" =>
             /\ LeadOn(At(wire[i].round, wire[i].phase = "over"))
             /\ wire[i].phase = "playing" => StartWaits(wire[i].round)
    /\ client.welcome =>
          /\ LeadOn(ClientAt)
          /\ client.phase = "playing" /\ ~client.authorized =>
                StartWaits(client.round)

\* A map waits behind every start, and for every client that lacks one.
MapInv ==
    /\ \A k \in DOMAIN queue :
          queue[k].kind = "round_start" =>
             \E j \in DOMAIN queue :
                /\ k < j
                /\ queue[j].kind = "brick_full"
                /\ queue[j].round = queue[k].round
    /\ client.welcome /\ client.phase = "playing" /\ client.authorized
          /\ ~client.map_ready =>
          \E k \in DOMAIN queue :
             /\ Waits(k)
             /\ queue[k].kind = "brick_full"
             /\ queue[k].round = client.round

\* No map or delta of the round takes a brick that still stands.
Lacks(f) ==
    /\ f.kind \in {"brick_full", "brick_delta"}
    /\ f.round = round_id
    /\ f.kind = "brick_full" => ~(bricks \subseteq f.maze)
    /\ f.kind = "brick_delta" => f.brick \in bricks

LacksInv ==
    /\ client.map_ready /\ client.round = round_id => bricks \subseteq client.maze
    /\ \A k \in DOMAIN queue : ~Lacks(queue[k])
    /\ \A i \in DOMAIN wire : ~Lacks(wire[i])

\* Whoever still has a fallen brick, or will get it from a map, is told by an
\* event that comes later.
Keeps(f, b) == f.kind = "brick_full" /\ f.round = round_id /\ b \in f.maze

FallIsTold(b) ==
    LET fall == BrickDelta(round_id, b)
    IN  /\ client.map_ready /\ client.round = round_id /\ b \in client.maze
              => \E k \in DOMAIN queue : Waits(k) /\ queue[k] = fall
        /\ \A j \in DOMAIN queue :
              Keeps(queue[j], b) => \E k \in DOMAIN queue :
                                       j < k /\ queue[k] = fall
        /\ \A i \in DOMAIN wire :
              Keeps(wire[i], b) => \E k \in DOMAIN queue :
                                      WaitsBehind(k, i) /\ queue[k] = fall

FallenInv == ~over => \A b \in Brick \ bricks : FallIsTold(b)

\* The same for the last announcement about the own actor.
Misleads(f) ==
    \/ f = Respawn(round_id, ~announced)
    \/ f = RoundStart(round_id) /\ ~announced

ActorInv ==
    ~over =>
       LET last == Respawn(round_id, announced)
       IN  /\ client.welcome /\ client.round = round_id /\ client.authorized
                    /\ client.hidden = announced
                 => \E k \in DOMAIN queue : Waits(k) /\ queue[k] = last
           /\ \A j \in DOMAIN queue :
                 Misleads(queue[j]) => \E k \in DOMAIN queue :
                                          j < k /\ queue[k] = last
           /\ \A i \in DOMAIN wire :
                 Misleads(wire[i]) => \E k \in DOMAIN queue :
                                         WaitsBehind(k, i) /\ queue[k] = last

\* Echoes repeat what is still so.
EchoInv ==
    /\ \A b \in Brick : brick_echo[b] > 0 => ~over /\ b \notin bricks
    /\ respawn_echo.left > 0 =>
          ~over /\ respawn_echo.frame = Respawn(round_id, announced)

SyncInv ==
    /\ TypeInv /\ WireInv /\ RoundsInv /\ MapInv
    /\ LacksInv /\ FallenInv /\ ActorInv /\ EchoInv
----------------------------------------------------------------------------
(* Rounds and frames                                                       *)

LEMMA PosIs ==
    ASSUME NEW r \in RoundId, NEW s \in RoundId
    PROVE  /\ Pos(r) \in Nat /\ Pos(r) <= RoundMod - 1
           /\ Pos(r) = Pos(s) => r = s
    BY DEF Pos, RoundId

LEMMA PosNext ==
    ASSUME NEW r \in RoundId, r # LastRound, Pos(r) <= Pos(LastRound)
    PROVE  /\ NextRound(r) \in RoundId
           /\ Pos(NextRound(r)) = Pos(r) + 1
           /\ Pos(NextRound(r)) <= Pos(LastRound)
<1>1. Pos(r) < Pos(LastRound) /\ Pos(LastRound) <= RoundMod - 1
    BY PosIs
<1> QED BY <1>1 DEF Pos, NextRound, RoundId

LEMMA AtIs ==
    ASSUME NEW r \in RoundId, NEW s \in RoundId,
           NEW a \in BOOLEAN, NEW b \in BOOLEAN
    PROVE  /\ At(r, a) \in Nat
           /\ At(r, a) = At(s, b) => r = s /\ a = b
           /\ At(r, a) <= At(s, b) => Pos(r) <= Pos(s)
           /\ At(s, b) = At(r, a) + 1 =>
                 \/ s = r /\ b /\ ~a
                 \/ Pos(s) = Pos(r) + 1 /\ ~b /\ a
<1>1. Pos(r) \in Nat /\ Pos(s) \in Nat /\ (Pos(r) = Pos(s) => r = s)
    BY PosIs
<1> QED BY <1>1 DEF At

LEMMA NextIsNewer ==
    ASSUME NEW r \in RoundId, NEW s \in RoundId, Pos(s) = Pos(r) + 1
    PROVE  IsNewer(s, r) /\ s # r
<1>1. \/ r = RoundMod - 1 /\ s = 0
      \/ r # RoundMod - 1 /\ s = r + 1
    BY DEF Pos, RoundId
<1>2. RoundMod \div 2 > 1
    OBVIOUS
<1>3. CASE r = RoundMod - 1 /\ s = 0
    BY <1>2, <1>3 DEF IsNewer, RoundId
<1>4. CASE r # RoundMod - 1 /\ s = r + 1
    BY <1>2, <1>4 DEF IsNewer, RoundId
<1> QED BY <1>1, <1>3, <1>4

\* What the kind of an event tells.
LEMMA InnerIs ==
    ASSUME NEW e \in Inner
    PROVE  /\ e.kind \in {"round_start", "match_end", "brick_full",
                          "brick_delta", "respawn", "name"}
           /\ e.kind # "name" => e.round \in RoundId
           /\ e.kind = "round_start" => e = RoundStart(e.round)
           /\ e.kind = "match_end" => e = MatchEnd(e.round)
           /\ e.kind = "brick_full" =>
                 e = BrickFull(e.round, e.maze) /\ e.maze \in SUBSET Brick
           /\ e.kind = "brick_delta" =>
                 e = BrickDelta(e.round, e.brick) /\ e.brick \in Brick
           /\ e.kind = "respawn" =>
                 e = Respawn(e.round, e.final) /\ e.final \in BOOLEAN
<1> USE DEF RoundStart, MatchEnd, BrickFull, BrickDelta, Respawn, NameFrame
<1>1. CASE \E r \in RoundId : e = RoundStart(r)
    BY <1>1
<1>2. CASE \E r \in RoundId : e = MatchEnd(r)
    BY <1>2
<1>3. CASE \E r \in RoundId, m \in SUBSET Brick : e = BrickFull(r, m)
    BY <1>3
<1>4. CASE \E r \in RoundId, b \in Brick : e = BrickDelta(r, b)
    BY <1>4
<1>5. CASE \E r \in RoundId, up \in BOOLEAN : e = Respawn(r, up)
    BY <1>5
<1>6. CASE e = NameFrame
    BY <1>6
<1> QED BY <1>1, <1>2, <1>3, <1>4, <1>5, <1>6 DEF Inner

LEMMA FrameIs ==
    ASSUME NEW f \in Frame
    PROVE  /\ f.kind \notin {"welcome", "event", "snapshot"} => f \in Inner
           /\ f.kind = "snapshot" => f = Snapshot(f.round) /\ f.round \in RoundId
           /\ f.kind = "welcome" => f.round \in RoundId /\ f.phase \in Phase
           /\ f.kind = "event" => f.inner \in Inner /\ f = Event(f.inner)
<1>1. CASE f \in Inner
    BY <1>1, InnerIs
<1>2. CASE \E r \in RoundId : f = Snapshot(r)
    BY <1>2 DEF Snapshot
<1>3. CASE \E r \in RoundId, ph \in Phase : f = WelcomeFrame(r, ph)
    BY <1>3 DEF WelcomeFrame
<1>4. CASE \E e \in Inner : f = Event(e)
    BY <1>4 DEF Event
<1> QED BY <1>1, <1>2, <1>3, <1>4 DEF Frame

LEMMA FramesMade ==
    /\ \A r \in RoundId :
          /\ RoundStart(r) \in Inner /\ RoundStart(r).kind = "round_start"
          /\ RoundStart(r).round = r
          /\ MatchEnd(r) \in Inner /\ MatchEnd(r).kind = "match_end"
          /\ MatchEnd(r).round = r
          /\ Snapshot(r) \in Frame /\ Snapshot(r).kind = "snapshot"
          /\ Snapshot(r).round = r
    /\ \A r \in RoundId, m \in SUBSET Brick :
          /\ BrickFull(r, m) \in Inner /\ BrickFull(r, m).kind = "brick_full"
          /\ BrickFull(r, m).round = r /\ BrickFull(r, m).maze = m
    /\ \A r \in RoundId, b \in Brick :
          /\ BrickDelta(r, b) \in Inner /\ BrickDelta(r, b).kind = "brick_delta"
          /\ BrickDelta(r, b).round = r /\ BrickDelta(r, b).brick = b
    /\ \A r \in RoundId, up \in BOOLEAN :
          /\ Respawn(r, up) \in Inner /\ Respawn(r, up).kind = "respawn"
          /\ Respawn(r, up).round = r /\ Respawn(r, up).final = up
    /\ NameFrame \in Inner /\ NameFrame.kind = "name"
    /\ \A e \in Inner :
          Event(e) \in Frame /\ Event(e).kind = "event" /\ Event(e).inner = e
    /\ Inner \subseteq Frame
<1>1. \A r \in RoundId :
         /\ RoundStart(r) \in Inner /\ RoundStart(r).kind = "round_start"
         /\ RoundStart(r).round = r
         /\ MatchEnd(r) \in Inner /\ MatchEnd(r).kind = "match_end"
         /\ MatchEnd(r).round = r
  <2>1. \A r \in RoundId : RoundStart(r) \in Inner /\ MatchEnd(r) \in Inner
    <3>1. \A r \in RoundId : /\ RoundStart(r) \in {RoundStart(q) : q \in RoundId}
                             /\ MatchEnd(r) \in {MatchEnd(q) : q \in RoundId}
        OBVIOUS
    <3> QED BY <3>1 DEF Inner
  <2> QED BY <2>1 DEF RoundStart, MatchEnd
<1>2. \A r \in RoundId :
         /\ Snapshot(r) \in Frame /\ Snapshot(r).kind = "snapshot"
         /\ Snapshot(r).round = r
  <2>1. \A r \in RoundId : Snapshot(r) \in {Snapshot(q) : q \in RoundId}
      OBVIOUS
  <2>2. \A r \in RoundId : Snapshot(r) \in Frame
      BY <2>1 DEF Frame
  <2> QED BY <2>2 DEF Snapshot
<1>3. \A r \in RoundId, m \in SUBSET Brick :
         /\ BrickFull(r, m) \in Inner /\ BrickFull(r, m).kind = "brick_full"
         /\ BrickFull(r, m).round = r /\ BrickFull(r, m).maze = m
  <2>0. \A r \in RoundId, m \in SUBSET Brick :
           BrickFull(r, m) \in {BrickFull(q, o) : q \in RoundId, o \in SUBSET Brick}
      OBVIOUS
  <2>1. \A r \in RoundId, m \in SUBSET Brick : BrickFull(r, m) \in Inner
      BY <2>0 DEF Inner
  <2> QED BY <2>1 DEF BrickFull
<1>4. \A r \in RoundId, b \in Brick :
         /\ BrickDelta(r, b) \in Inner /\ BrickDelta(r, b).kind = "brick_delta"
         /\ BrickDelta(r, b).round = r /\ BrickDelta(r, b).brick = b
    BY DEF BrickDelta, Inner
<1>5. \A r \in RoundId, up \in BOOLEAN :
         /\ Respawn(r, up) \in Inner /\ Respawn(r, up).kind = "respawn"
         /\ Respawn(r, up).round = r /\ Respawn(r, up).final = up
    BY DEF Respawn, Inner
<1>6. NameFrame \in Inner /\ NameFrame.kind = "name"
    BY DEF NameFrame, Inner
<1>7. \A e \in Inner :
         Event(e) \in Frame /\ Event(e).kind = "event" /\ Event(e).inner = e
  <2>0. \A e \in Inner : Event(e) \in {Event(f) : f \in Inner}
      OBVIOUS
  <2>1. \A e \in Inner : Event(e) \in Frame
      BY <2>0 DEF Frame
  <2> QED BY <2>1 DEF Event
<1>8. Inner \subseteq Frame
    BY DEF Frame
<1> QED BY <1>1, <1>2, <1>3, <1>4, <1>5, <1>6, <1>7, <1>8

----------------------------------------------------------------------------
(* Bursts                                                                  *)

Members(q) == {q[k] : k \in DOMAIN q}

\* What stands behind the first part of a sequence.
Added(k, q) == k \in DOMAIN q' \ DOMAIN q

LEMMA FunctionIsSeq ==
    ASSUME NEW S, NEW n \in Nat, NEW f \in [1 .. n -> S]
    PROVE  f \in Seq(S) /\ Len(f) = n
    OBVIOUS

\* The frames of a burst that survive keep their order.
LEMMA Transmitted ==
    ASSUME TypeInv, NEW fs \in Seq(Frame), Transmit(fs)
    PROVE  /\ wire' \in Seq(Frame) /\ Len(wire') <= WireCap
           /\ \A i \in DOMAIN wire : i \in DOMAIN wire' /\ wire'[i] = wire[i]
           /\ \A i : Added(i, wire) =>
                 i \in Nat /\ \A j \in DOMAIN wire : j < i
           /\ \E at : /\ \A i : Added(i, wire) =>
                            at[i] \in DOMAIN fs /\ wire'[i] = fs[at[i]]
                      /\ \A i, j :
                          Added(i, wire) /\ Added(j, wire) /\ i < j => at[i] < at[j]
<1>1. wire \in Seq(Frame) /\ Len(wire) \in Nat /\ DOMAIN wire = 1 .. Len(wire)
    BY LenProperties DEF TypeInv
<1>2. WireCap \in Nat
    OBVIOUS
<1>3. PICK n \in 0 .. WireCap - Len(wire) :
         \E at \in [1 .. n -> DOMAIN fs] :
            /\ \A i, j \in 1 .. n : i < j => at[i] < at[j]
            /\ wire' = wire \o [k \in 1 .. n |-> fs[at[k]]]
    BY DEF Transmit
<1>4. PICK at \in [1 .. n -> DOMAIN fs] :
         /\ \A i, j \in 1 .. n : i < j => at[i] < at[j]
         /\ wire' = wire \o [k \in 1 .. n |-> fs[at[k]]]
    BY <1>3
<1>5. n \in Nat /\ n <= WireCap - Len(wire)
    BY <1>1, <1>2, <1>3
<1> DEFINE new == [k \in 1 .. n |-> fs[at[k]]]
<1>6. new \in Seq(Frame) /\ Len(new) = n
  <2>1. \A x \in DOMAIN fs : fs[x] \in Frame
      BY LenProperties, ElementOfSeq
  <2>2. new \in [1 .. n -> Frame]
      BY <1>4, <2>1
  <2> HIDE DEF new
  <2> QED BY <1>5, <2>2, FunctionIsSeq
<1>7. \A k \in 1 .. n : new[k] = fs[at[k]] /\ at[k] \in DOMAIN fs
    BY <1>4
<1>8. wire' = wire \o new
    BY <1>4
<1> HIDE DEF new
<1>9. /\ wire' \in Seq(Frame) /\ Len(wire') = Len(wire) + n
      /\ \A i \in 1 .. Len(wire) + n :
            wire'[i] = IF i <= Len(wire) THEN wire[i] ELSE new[i - Len(wire)]
    BY <1>1, <1>6, <1>8, ConcatProperties
<1>10. DOMAIN wire' = 1 .. Len(wire) + n
    BY <1>9, LenProperties
<1>11. Len(wire') <= WireCap
    BY <1>1, <1>2, <1>5, <1>9
<1>12. \A i \in DOMAIN wire : i \in DOMAIN wire' /\ wire'[i] = wire[i]
    BY <1>1, <1>5, <1>9, <1>10
<1>13. ASSUME NEW i, Added(i, wire)
       PROVE  /\ i \in Nat /\ i - Len(wire) \in 1 .. n
              /\ \A j \in DOMAIN wire : j < i
              /\ wire'[i] = new[i - Len(wire)]
  <2>1. i \in 1 .. Len(wire) + n /\ i \notin 1 .. Len(wire)
      BY <1>1, <1>10, <1>13 DEF Added
  <2> QED BY <1>1, <1>5, <1>9, <2>1
<1> DEFINE from == [i \in DOMAIN wire' |-> at[i - Len(wire)]]
<1>14. ASSUME NEW i, Added(i, wire)
       PROVE  from[i] \in DOMAIN fs /\ wire'[i] = fs[from[i]]
  <2>1. from[i] = at[i - Len(wire)]
      BY <1>14 DEF Added
  <2> QED BY <1>7, <1>13, <1>14, <2>1
<1>15. ASSUME NEW i, NEW j, Added(i, wire), Added(j, wire), i < j
       PROVE  from[i] < from[j]
  <2>1. from[i] = at[i - Len(wire)] /\ from[j] = at[j - Len(wire)]
      BY <1>15 DEF Added
  <2>2. i - Len(wire) < j - Len(wire)
      BY <1>1, <1>13, <1>15
  <2> QED BY <1>4, <1>13, <1>15, <2>1, <2>2
<1> HIDE DEF from
<1>16. \E a : /\ \A i : Added(i, wire) =>
                    a[i] \in DOMAIN fs /\ wire'[i] = fs[a[i]]
              /\ \A i, j :
                  Added(i, wire) /\ Added(j, wire) /\ i < j => a[i] < a[j]
  <2> WITNESS from
  <2> QED BY <1>14, <1>15
<1> QED BY <1>9, <1>11, <1>12, <1>13, <1>16

\* The queue with more events behind what it held.
Queued(events) ==
    /\ queue' \in Seq(Inner) /\ Len(queue') <= QueueMax
    /\ \A k \in DOMAIN queue : k \in DOMAIN queue' /\ queue'[k] = queue[k]
    /\ \A k : Added(k, queue) =>
          /\ k \in Nat /\ \A j \in DOMAIN queue : j < k
          /\ k - Len(queue) \in DOMAIN events
          /\ queue'[k] = events[k - Len(queue)]
    /\ \A l \in DOMAIN events :
          /\ Added(Len(queue) + l, queue)
          /\ queue'[Len(queue) + l] = events[l]

\* The wire with a burst behind what it held.
Burst(before, events, after) ==
    /\ wire' \in Seq(Frame) /\ Len(wire') <= WireCap
    /\ \A i \in DOMAIN wire : i \in DOMAIN wire' /\ wire'[i] = wire[i]
    /\ \A i : Added(i, wire) =>
          /\ i \in Nat /\ \A j \in DOMAIN wire : j < i
          /\ \/ wire'[i] \in Members(before) \cup Members(after)
             \/ queue = <<>> /\ events # <<>> /\ wire'[i] = Event(events[1])
    /\ \A i, j :
          Added(i, wire) /\ Added(j, wire) /\ IsEvent(wire'[j]) =>
             /\ IsEvent(wire'[i]) => i = j
             /\ wire'[i] \notin Members(after) => i <= j

LEMMA QueueGrows ==
    ASSUME TypeInv, NEW events \in Seq(Inner), queue' = queue \o events,
           ~Overflows(Len(events), QueueMax - Len(queue))
    PROVE  Queued(events)
<1>1. /\ queue \in Seq(Inner) /\ Len(queue) \in Nat
      /\ DOMAIN queue = 1 .. Len(queue)
      /\ Len(events) \in Nat /\ DOMAIN events = 1 .. Len(events)
      /\ QueueMax \in Nat
    BY LenProperties DEF TypeInv
<1>2. /\ queue' \in Seq(Inner) /\ Len(queue') = Len(queue) + Len(events)
      /\ \A i \in 1 .. Len(queue) + Len(events) : queue'[i] =
            IF i <= Len(queue) THEN queue[i] ELSE events[i - Len(queue)]
    BY <1>1, ConcatProperties
<1>3. DOMAIN queue' = 1 .. Len(queue) + Len(events)
    BY <1>2, LenProperties
<1>4. Len(queue') <= QueueMax
    BY <1>1, <1>2 DEF Overflows
<1>5. \A k \in DOMAIN queue : k \in DOMAIN queue' /\ queue'[k] = queue[k]
    BY <1>1, <1>2, <1>3
<1>6. ASSUME NEW k, Added(k, queue)
      PROVE  /\ k \in Nat /\ \A j \in DOMAIN queue : j < k
             /\ k - Len(queue) \in DOMAIN events
             /\ queue'[k] = events[k - Len(queue)]
  <2>1. k \in 1 .. Len(queue) + Len(events) /\ k \notin 1 .. Len(queue)
      BY <1>1, <1>3, <1>6 DEF Added
  <2> QED BY <1>1, <1>2, <2>1
<1>7. ASSUME NEW l \in DOMAIN events
      PROVE  /\ Added(Len(queue) + l, queue)
             /\ queue'[Len(queue) + l] = events[l]
  <2>1. /\ l \in 1 .. Len(events)
        /\ Len(queue) + l \in 1 .. Len(queue) + Len(events)
        /\ ~(Len(queue) + l <= Len(queue))
        /\ (Len(queue) + l) - Len(queue) = l
      BY <1>1
  <2> QED BY <1>1, <1>2, <1>3, <2>1 DEF Added
<1> QED BY <1>2, <1>4, <1>5, <1>6, <1>7 DEF Queued

LEMMA BurstParts ==
    ASSUME NEW S, NEW b \in Seq(S), NEW m \in Seq(S), NEW a \in Seq(S)
    PROVE  LET fs == b \o m \o a
           IN  /\ fs \in Seq(S) /\ Len(b) \in Nat /\ Len(m) \in Nat
               /\ DOMAIN fs \subseteq Nat
               /\ \A x \in DOMAIN fs :
                     \/ x <= Len(b) /\ fs[x] \in Members(b)
                     \/ /\ Len(b) < x /\ x <= Len(b) + Len(m)
                        /\ fs[x] \in Members(m)
                     \/ Len(b) + Len(m) < x /\ fs[x] \in Members(a)
<1> DEFINE bm == b \o m
           fs == bm \o a
<1>1. /\ Len(b) \in Nat /\ Len(m) \in Nat /\ Len(a) \in Nat
      /\ DOMAIN b = 1 .. Len(b) /\ DOMAIN m = 1 .. Len(m)
      /\ DOMAIN a = 1 .. Len(a)
    BY LenProperties
<1>2. /\ bm \in Seq(S) /\ Len(bm) = Len(b) + Len(m)
      /\ \A x \in 1 .. Len(b) + Len(m) :
            bm[x] = IF x <= Len(b) THEN b[x] ELSE m[x - Len(b)]
    BY ConcatProperties
<1> HIDE DEF bm
<1>3. /\ fs \in Seq(S) /\ Len(fs) = Len(bm) + Len(a)
      /\ \A x \in 1 .. Len(bm) + Len(a) :
            fs[x] = IF x <= Len(bm) THEN bm[x] ELSE a[x - Len(bm)]
    BY <1>2, ConcatProperties
<1> HIDE DEF fs
<1>4. DOMAIN fs = 1 .. Len(b) + Len(m) + Len(a)
    BY <1>1, <1>2, <1>3, LenProperties
<1>5. ASSUME NEW x \in DOMAIN fs
      PROVE  \/ x <= Len(b) /\ fs[x] \in Members(b)
             \/ /\ Len(b) < x /\ x <= Len(b) + Len(m)
                /\ fs[x] \in Members(m)
             \/ Len(b) + Len(m) < x /\ fs[x] \in Members(a)
  <2>1. x \in Nat /\ 1 <= x /\ x <= Len(b) + Len(m) + Len(a)
      BY <1>1, <1>4
  <2>2. CASE x <= Len(b)
    <3>1. x \in DOMAIN b /\ fs[x] = b[x]
        BY <1>1, <1>2, <1>3, <2>1, <2>2
    <3> QED BY <2>2, <3>1 DEF Members
  <2>3. CASE Len(b) < x /\ x <= Len(b) + Len(m)
    <3>1. x - Len(b) \in DOMAIN m /\ fs[x] = m[x - Len(b)]
        BY <1>1, <1>2, <1>3, <2>1, <2>3
    <3> QED BY <2>3, <3>1 DEF Members
  <2>4. CASE Len(b) + Len(m) < x
    <3>1. /\ x - (Len(b) + Len(m)) \in DOMAIN a
          /\ fs[x] = a[x - (Len(b) + Len(m))]
        BY <1>1, <1>2, <1>3, <2>1, <2>4
    <3> QED BY <2>4, <3>1 DEF Members
  <2> QED BY <1>1, <2>1, <2>2, <2>3, <2>4
<1>6. DOMAIN fs \subseteq Nat
    BY <1>1, <1>4
<1> QED BY <1>1, <1>3, <1>5, <1>6 DEF fs, bm

\* A handler's burst condemns the connection, or is queued and sent.
LEMMA Emitted ==
    ASSUME TypeInv, NEW before \in Seq(Frame), NEW after \in Seq(Frame),
           NEW events \in Seq(Inner), Emit(before, events, after),
           \A f \in Members(before) \cup Members(after) : ~IsEvent(f)
    PROVE  \/ Disconnect
           \/ /\ session' = "seated" /\ UNCHANGED <<head_applied, client>>
              /\ Queued(events)
              /\ Burst(before, events, after)
<1> DEFINE first == IF queue = <<>> /\ events # <<>>
                    THEN <<Event(Head(events))>> ELSE <<>>
           fs == before \o first \o after
<1> SUFFICES ASSUME ~Disconnect
             PROVE  /\ session' = "seated" /\ UNCHANGED <<head_applied, client>>
                    /\ Queued(events)
                    /\ Burst(before, events, after)
    OBVIOUS
<1>1. /\ ~Overflows(Len(events), QueueMax - Len(queue))
      /\ session' = "seated" /\ queue' = queue \o events /\ Transmit(fs)
      /\ UNCHANGED <<head_applied, client>>
    BY DEF Emit
<1>2. Queued(events)
    BY <1>1, QueueGrows
<1>3. /\ first \in Seq(Frame) /\ Len(first) <= 1
      /\ \A f \in Members(first) :
            queue = <<>> /\ events # <<>> /\ f = Event(events[1])
  <2>1. CASE queue = <<>> /\ events # <<>>
    <3>1. /\ Len(events) \in Nat \ {0} /\ Head(events) = events[1]
          /\ events[1] \in Inner
      <4>1. Len(events) \in Nat \ {0}
          BY <2>1, EmptySeq
      <4> QED BY <4>1, ElementOfSeq
    <3>2. Event(events[1]) \in Frame
        BY <3>1, FramesMade
    <3>3. first = <<Event(events[1])>>
        BY <2>1, <3>1
    <3> HIDE DEF first
    <3>4. first \in Seq(Frame) /\ Len(first) = 1 /\ DOMAIN first = {1}
          /\ first[1] = Event(events[1])
        BY <3>2, <3>3
    <3> QED BY <2>1, <3>4 DEF Members
  <2>2. CASE ~(queue = <<>> /\ events # <<>>)
    <3>1. first = <<>>
        BY <2>2
    <3> HIDE DEF first
    <3> QED BY <3>1, EmptySeq, LenProperties DEF Members
  <2> QED BY <2>1, <2>2
<1> HIDE DEF first
<1>4. /\ fs \in Seq(Frame) /\ Len(before) \in Nat /\ Len(first) \in Nat
      /\ DOMAIN fs \subseteq Nat
      /\ \A x \in DOMAIN fs :
            \/ x <= Len(before) /\ fs[x] \in Members(before)
            \/ /\ Len(before) < x /\ x <= Len(before) + Len(first)
               /\ fs[x] \in Members(first)
            \/ Len(before) + Len(first) < x /\ fs[x] \in Members(after)
    BY <1>3, BurstParts
<1> HIDE DEF fs
<1>5. ASSUME NEW x \in DOMAIN fs, IsEvent(fs[x]) PROVE x = Len(before) + 1
    BY <1>3, <1>4, <1>5
<1>6. ASSUME NEW x \in DOMAIN fs, fs[x] \notin Members(after)
      PROVE  x <= Len(before) + 1
    BY <1>3, <1>4, <1>6
<1>7. /\ wire' \in Seq(Frame) /\ Len(wire') <= WireCap
      /\ \A i \in DOMAIN wire : i \in DOMAIN wire' /\ wire'[i] = wire[i]
      /\ \A i : Added(i, wire) => i \in Nat /\ \A j \in DOMAIN wire : j < i
      /\ \E at : /\ \A i : Added(i, wire) =>
                       at[i] \in DOMAIN fs /\ wire'[i] = fs[at[i]]
                 /\ \A i, j :
                     Added(i, wire) /\ Added(j, wire) /\ i < j => at[i] < at[j]
    BY <1>1, <1>4, Transmitted
<1>8. PICK at : /\ \A i : Added(i, wire) =>
                      at[i] \in DOMAIN fs /\ wire'[i] = fs[at[i]]
                /\ \A i, j :
                    Added(i, wire) /\ Added(j, wire) /\ i < j => at[i] < at[j]
    BY <1>7
<1>9. ASSUME NEW i, Added(i, wire)
      PROVE  \/ wire'[i] \in Members(before) \cup Members(after)
             \/ queue = <<>> /\ events # <<>> /\ wire'[i] = Event(events[1])
    BY <1>3, <1>4, <1>8, <1>9
<1>10. ASSUME NEW i, NEW j, Added(i, wire), Added(j, wire), IsEvent(wire'[j])
       PROVE  /\ IsEvent(wire'[i]) => i = j
              /\ wire'[i] \notin Members(after) => i <= j
  <2>1. /\ i \in Nat /\ j \in Nat
        /\ at[i] \in Nat /\ at[j] \in Nat
    <3>1. at[i] \in DOMAIN fs /\ at[j] \in DOMAIN fs
        BY <1>8, <1>10
    <3> QED BY <1>4, <1>7, <1>10, <3>1
  <2>2. at[j] = Len(before) + 1
      BY <1>5, <1>8, <1>10
  <2>3. i < j => at[i] < at[j]
      BY <1>8, <1>10
  <2>4. j < i => at[j] < at[i]
      BY <1>8, <1>10
  <2>5. IsEvent(wire'[i]) => at[i] = Len(before) + 1
      BY <1>5, <1>8, <1>10
  <2>6. wire'[i] \notin Members(after) => at[i] <= Len(before) + 1
      BY <1>6, <1>8, <1>10
  <2> QED BY <1>4, <2>1, <2>2, <2>3, <2>4, <2>5, <2>6
<1>11. Burst(before, events, after)
    BY <1>7, <1>9, <1>10 DEF Burst
<1> QED BY <1>1, <1>2, <1>11

LEMMA SyncTyped ==
    ASSUME TypeInv
    PROVE  /\ queue \in Seq(Inner) /\ wire \in Seq(Frame)
           /\ Len(queue) \in Nat /\ DOMAIN queue = 1 .. Len(queue)
           /\ Len(wire) \in Nat /\ DOMAIN wire = 1 .. Len(wire)
           /\ \A k \in DOMAIN queue : queue[k] \in Inner /\ k \in Nat
           /\ \A i \in DOMAIN wire : wire[i] \in Frame /\ i \in Nat
           /\ round_id \in RoundId /\ over \in BOOLEAN
           /\ bricks \in SUBSET Brick /\ announced \in BOOLEAN
           /\ client \in Client
           /\ ServerAt \in Nat /\ ClientAt \in Nat
           /\ \A k \in DOMAIN queue :
                 HasRound(queue[k]) =>
                    queue[k].round \in RoundId /\ EventAt(queue[k]) \in Nat
<1>1. /\ queue \in Seq(Inner) /\ wire \in Seq(Frame)
      /\ round_id \in RoundId /\ over \in BOOLEAN
      /\ bricks \in SUBSET Brick /\ announced \in BOOLEAN
      /\ client \in Client
    BY DEF TypeInv, TypeOK
<1>2. /\ Len(queue) \in Nat /\ DOMAIN queue = 1 .. Len(queue)
      /\ Len(wire) \in Nat /\ DOMAIN wire = 1 .. Len(wire)
      /\ \A k \in DOMAIN queue : queue[k] \in Inner /\ k \in Nat
      /\ \A i \in DOMAIN wire : wire[i] \in Frame /\ i \in Nat
    BY <1>1, LenProperties, ElementOfSeq
<1>3. client.round \in RoundId /\ (client.phase = "over") \in BOOLEAN
    BY <1>1 DEF Client
<1>4. ServerAt \in Nat /\ ClientAt \in Nat
    BY <1>1, <1>3, AtIs DEF ServerAt, ClientAt
<1>5. ASSUME NEW k \in DOMAIN queue, HasRound(queue[k])
      PROVE  queue[k].round \in RoundId /\ EventAt(queue[k]) \in Nat
  <2>1. queue[k].round \in RoundId
      BY <1>2, <1>5, InnerIs DEF HasRound
  <2>2. (queue[k].kind = "match_end") \in BOOLEAN
      OBVIOUS
  <2> QED BY <2>1, <2>2, AtIs DEF EventAt
<1> QED BY <1>1, <1>2, <1>4, <1>5

\* What waits for the client, and what waits behind a frame, after a burst.
LEMMA Waiting ==
    ASSUME TypeInv, WireInv, UNCHANGED head_applied,
           NEW before, NEW events, NEW after,
           Queued(events), Burst(before, events, after)
    PROVE  /\ \A k : Waits(k) => Waits(k)'
           /\ \A k : Waits(k)' => Waits(k) \/ Added(k, queue)
           /\ \A k : Added(k, queue) => Waits(k)'
           /\ \A k : \A i \in DOMAIN wire :
                 WaitsBehind(k, i) => WaitsBehind(k, i)'
           /\ \A k : \A i \in DOMAIN wire :
                 Added(k, queue) => WaitsBehind(k, i)'
           /\ \A k, i :
                 /\ Added(k, queue) /\ Added(i, wire)
                 /\ wire'[i] \notin Members(after) /\ ~IsEvent(wire'[i])
                 => WaitsBehind(k, i)'
<1>1. /\ queue \in Seq(Inner) /\ DOMAIN queue = 1 .. Len(queue)
      /\ Len(queue) \in Nat /\ DOMAIN wire \subseteq Nat
      /\ head_applied => queue # <<>>
    BY SyncTyped DEF TypeInv, TypeOK
<1>2. /\ \A k \in DOMAIN queue : k \in DOMAIN queue' /\ queue'[k] = queue[k]
      /\ \A k : Added(k, queue) => k \in Nat /\ \A j \in DOMAIN queue : j < k
    BY DEF Queued
<1>3. /\ \A i \in DOMAIN wire : i \in DOMAIN wire' /\ wire'[i] = wire[i]
      /\ \A i : Added(i, wire) => i \in Nat /\ \A j \in DOMAIN wire : j < i
      /\ \A i, j : Added(i, wire) /\ Added(j, wire) /\ IsEvent(wire'[j])
            /\ wire'[i] \notin Members(after) => i <= j
    BY DEF Burst
<1>4. ASSUME Added(1, queue)
      PROVE  ~head_applied /\ \A j \in DOMAIN wire : ~IsEvent(wire[j])
  <2>1. 1 \notin DOMAIN queue
      BY <1>4 DEF Added
  <2>2. Len(queue) = 0
      BY <1>1, <2>1
  <2>3. queue = <<>>
      BY <1>1, <2>2, EmptySeq
  <2> QED BY <1>1, <2>1, <2>3 DEF WireInv, Waits
<1>5. \A k : Waits(k) => Waits(k)'
    BY <1>2 DEF Waits
<1>6. \A k : Waits(k)' => Waits(k) \/ Added(k, queue)
    BY DEF Waits, Added
<1>7. \A k : Added(k, queue) => Waits(k)'
    BY <1>4 DEF Waits, Added
<1>8. ASSUME NEW k, NEW i \in DOMAIN wire, WaitsBehind(k, i)
      PROVE  WaitsBehind(k, i)'
  <2>1. Waits(k)'
      BY <1>5, <1>8 DEF WaitsBehind
  <2>2. ASSUME k = 1, NEW j \in DOMAIN wire', IsEvent(wire'[j]) PROVE i < j
    <3>1. CASE j \in DOMAIN wire
        BY <1>3, <1>8, <2>2, <3>1 DEF WaitsBehind
    <3>2. CASE j \notin DOMAIN wire
        BY <1>3, <3>2 DEF Added
    <3> QED BY <3>1, <3>2
  <2> QED BY <2>1, <2>2 DEF WaitsBehind, IsEvent
<1>9. ASSUME NEW k, NEW i \in DOMAIN wire, Added(k, queue)
      PROVE  WaitsBehind(k, i)'
  <2>1. Waits(k)'
      BY <1>7, <1>9
  <2>2. ASSUME k = 1, NEW j \in DOMAIN wire', IsEvent(wire'[j]) PROVE i < j
    <3>1. j \notin DOMAIN wire
        BY <1>3, <1>4, <1>9, <2>2
    <3> QED BY <1>3, <3>1 DEF Added
  <2> QED BY <2>1, <2>2 DEF WaitsBehind, IsEvent
<1>10. ASSUME NEW k, NEW i, Added(k, queue), Added(i, wire),
              wire'[i] \notin Members(after), ~IsEvent(wire'[i])
       PROVE  WaitsBehind(k, i)'
  <2>1. Waits(k)'
      BY <1>7, <1>10
  <2>2. ASSUME k = 1, NEW j \in DOMAIN wire', IsEvent(wire'[j]) PROVE i < j
    <3>1. j \notin DOMAIN wire
        BY <1>3, <1>4, <1>10, <2>2
    <3>2. Added(j, wire) /\ i # j
        BY <1>10, <2>2, <3>1 DEF Added
    <3>3. i <= j /\ i \in Nat /\ j \in Nat
        BY <1>3, <1>10, <2>2, <3>2
    <3> QED BY <3>2, <3>3
  <2> QED BY <2>1, <2>2 DEF WaitsBehind, IsEvent
<1> QED BY <1>5, <1>6, <1>7, <1>8, <1>9, <1>10

----------------------------------------------------------------------------
(* What a seated connection's burst leaves as it was                       *)

DirectKind == {"brick_full", "brick_delta", "respawn", "snapshot"}

\* A burst that the connection took.
SentBurst(before, events, after) ==
    /\ session' = "seated" /\ UNCHANGED <<head_applied, client>>
    /\ events \in Seq(Inner)
    /\ Queued(events)
    /\ Burst(before, events, after)

\* One of the room: direct frames are of the round being played.
RoomBurst(before, events, after) ==
    /\ SentBurst(before, events, after)
    /\ \A f \in Members(before) \cup Members(after) :
          f.kind \in DirectKind /\ f.round = round_id

\* The events of the burst are about the point the server has come to; the
\* first one turns the round if the server does.
Announces(events) ==
    /\ ServerAt' \in {ServerAt, ServerAt + 1}
    /\ \A l \in DOMAIN events :
          HasRound(events[l]) => EventAt(events[l]) = ServerAt'
    /\ \A l \in DOMAIN events :
          Turns(events[l]) => l = 1 /\ ServerAt' = ServerAt + 1
    /\ ServerAt' # ServerAt => 1 \in DOMAIN events /\ Turns(events[1])

LEMMA BurstWire ==
    ASSUME TypeInv, WireInv, NEW before, NEW events, NEW after,
           SentBurst(before, events, after),
           \A f \in Members(before) \cup Members(after) :
              f.kind \in DirectKind \cup {"welcome"},
           \A j : Added(j, wire) /\ wire'[j].kind = "welcome" =>
              j = 1 /\ ~client.welcome
    PROVE  WireInv'
<1>1. /\ session' = "seated" /\ UNCHANGED <<head_applied, client>>
      /\ Queued(events) /\ Burst(before, events, after)
      /\ events \in Seq(Inner)
    BY DEF SentBurst
<1>2. /\ queue \in Seq(Inner) /\ Len(queue) \in Nat /\ DOMAIN queue = 1 .. Len(queue)
      /\ head_applied => queue # <<>>
    BY SyncTyped DEF TypeInv, TypeOK
<1>3. Waits(1) => Waits(1)' /\ queue'[1] = queue[1]
    BY <1>1, Waiting DEF Waits, Queued
<1>4. ASSUME NEW j, Added(j, wire)
      PROVE  \/ wire'[j].kind \in DirectKind
             \/ wire'[j].kind = "welcome" /\ j = 1 /\ ~client.welcome
             \/ queue = <<>> /\ Waits(1)' /\ wire'[j] = Event(queue'[1])
  <2>1. CASE wire'[j] \in Members(before) \cup Members(after)
    <3>1. wire'[j].kind \in DirectKind \cup {"welcome"}
        BY <2>1
    <3> QED BY <1>4, <3>1
  <2>2. CASE queue = <<>> /\ events # <<>> /\ wire'[j] = Event(events[1])
    <3>1. Len(queue) = 0 /\ DOMAIN queue = {}
        BY <1>2, <2>2, EmptySeq
    <3>2. 1 \in DOMAIN events
        BY <1>1, <2>2, EmptySeq, LenProperties
    <3>3. Added(1, queue) /\ queue'[1] = events[1]
        BY <1>1, <3>1, <3>2 DEF Queued
    <3>4. Waits(1)'
        BY <1>1, <3>3, Waiting
    <3> QED BY <2>2, <3>3, <3>4
  <2> QED BY <1>1, <1>4, <2>1, <2>2 DEF Burst
<1>5. ASSUME NEW j \in DOMAIN wire'
      PROVE  \/ j \in DOMAIN wire /\ wire'[j] = wire[j]
             \/ Added(j, wire)
    BY <1>1 DEF Burst, Added
<1>6. DirectKind = {"brick_full", "brick_delta", "respawn", "snapshot"}
    BY DEF DirectKind
<1>7. ASSUME NEW j \in DOMAIN wire'
      PROVE  /\ wire'[j].kind \in {"welcome", "event", "brick_full", "brick_delta",
                                   "respawn", "snapshot"}
             /\ IsEvent(wire'[j]) => Waits(1)' /\ wire'[j] = Event(queue'[1])
             /\ wire'[j].kind = "welcome" => j = 1 /\ ~client'.welcome
  <2>1. CASE j \in DOMAIN wire /\ wire'[j] = wire[j]
      BY <1>1, <1>3, <2>1 DEF WireInv
  <2>2. CASE wire'[j].kind \in DirectKind
      BY <1>6, <2>2 DEF IsEvent
  <2>3. CASE Waits(1)' /\ wire'[j] = Event(queue'[1])
    <3>1. wire'[j].kind = "event"
        BY <2>3 DEF Event
    <3> QED BY <2>3, <3>1
  <2>4. CASE wire'[j].kind = "welcome" /\ j = 1 /\ ~client.welcome
      BY <1>1, <2>4 DEF IsEvent
  <2> QED BY <1>4, <1>5, <2>1, <2>2, <2>3, <2>4
<1>8. ASSUME NEW i \in DOMAIN wire', NEW j \in DOMAIN wire',
             IsEvent(wire'[i]), IsEvent(wire'[j])
      PROVE  i = j
  <2>1. ASSUME NEW k, Added(k, wire), IsEvent(wire'[k])
        PROVE  \A l \in DOMAIN wire : ~IsEvent(wire[l])
    <3>1. queue = <<>>
        BY <1>4, <1>6, <2>1 DEF IsEvent
    <3>2. Len(queue) = 0
        BY <1>2, <3>1, EmptySeq
    <3>3. ~Waits(1)
        BY <1>2, <3>2 DEF Waits
    <3> QED BY <3>3 DEF WireInv
  <2>2. CASE Added(i, wire) /\ Added(j, wire)
      BY <1>1, <1>8, <2>2 DEF Burst
  <2>3. CASE ~Added(i, wire) /\ ~Added(j, wire)
      BY <1>5, <1>8, <2>3 DEF WireInv
  <2>4. CASE Added(i, wire) /\ ~Added(j, wire)
      BY <1>5, <1>8, <2>1, <2>4
  <2>5. CASE ~Added(i, wire) /\ Added(j, wire)
      BY <1>5, <1>8, <2>1, <2>5
  <2> QED BY <2>2, <2>3, <2>4, <2>5
<1>9. ~client'.welcome => ~client'.map_ready /\ ~head_applied'
    BY <1>1 DEF WireInv
<1> QED BY <1>1, <1>7, <1>8, <1>9 DEF WireInv, IsEvent

LEMMA RoomBurstWire ==
    ASSUME TypeInv, WireInv, NEW before, NEW events, NEW after,
           RoomBurst(before, events, after)
    PROVE  WireInv'
<1>1. SentBurst(before, events, after) /\ Burst(before, events, after)
    BY DEF RoomBurst, SentBurst
<1>2. \A f \in Members(before) \cup Members(after) : f.kind \in DirectKind
    BY DEF RoomBurst
<1>3. ASSUME NEW j, Added(j, wire) PROVE wire'[j].kind # "welcome"
  <2>1. CASE wire'[j] \in Members(before) \cup Members(after)
      BY <1>2, <2>1 DEF DirectKind
  <2>2. CASE wire'[j] = Event(events[1])
    <3>1. \A x : Event(x).kind = "event"
        BY DEF Event
    <3> QED BY <2>2, <3>1
  <2> QED BY <1>1, <1>3, <2>1, <2>2 DEF Burst
<1> QED BY <1>1, <1>2, <1>3, BurstWire

LEMMA BurstTypes ==
    ASSUME TypeInv, NEW before, NEW events, NEW after,
           SentBurst(before, events, after),
           round_id' \in RoundId, over' \in BOOLEAN, bricks' \in SUBSET Brick,
           announced' \in BOOLEAN,
           brick_echo' \in [Brick -> 0 .. BrickRepeats],
           respawn_echo' \in {RespawnEcho(n, r, up) :
                n \in 0 .. RespawnRepeats, r \in RoundId, up \in BOOLEAN}
    PROVE  TypeInv'
<1>1. /\ session' = "seated" /\ UNCHANGED <<head_applied, client>>
      /\ Queued(events) /\ Burst(before, events, after)
    BY DEF SentBurst
<1>2. /\ queue' \in Seq(Inner) /\ Len(queue') <= QueueMax
      /\ wire' \in Seq(Frame) /\ Len(wire') <= WireCap
    BY <1>1 DEF Queued, Burst
<1>3. /\ \A k \in 1 .. Len(queue') : queue'[k] \in Inner
      /\ \A k \in 1 .. Len(wire') : wire'[k] \in Frame
    BY <1>2, ElementOfSeq
<1>4. head_applied' => queue' # <<>>
  <2>1. SUFFICES ASSUME head_applied PROVE queue' # <<>>
      BY <1>1
  <2>2. queue # <<>> /\ queue \in Seq(Inner)
      BY <2>1 DEF TypeInv, TypeOK
  <2>3. 1 \in DOMAIN queue
      BY <2>2, EmptySeq, LenProperties
  <2>4. 1 \in DOMAIN queue'
      BY <1>1, <2>3 DEF Queued
  <2> QED BY <2>4, EmptySeq
<1>5. client \in Client
    BY DEF TypeInv, TypeOK
<1> QED BY <1>1, <1>2, <1>3, <1>4, <1>5 DEF TypeInv, TypeOK

\* What waits still leads on to where the server is.
LEMMA BurstLeads ==
    ASSUME TypeInv, WireInv, NEW before, NEW events, NEW after,
           RoomBurst(before, events, after), Announces(events),
           ServerAt' \in Nat, NEW v \in Nat, LeadOn(v)
    PROVE  LeadOn(v)'
<1>1. /\ Queued(events) /\ Burst(before, events, after)
      /\ UNCHANGED head_applied
    BY DEF RoomBurst, SentBurst
<1>2. /\ \A k : Waits(k) => Waits(k)'
      /\ \A k : Waits(k)' => Waits(k) \/ Added(k, queue)
      /\ \A k : Added(k, queue) => Waits(k)'
    BY <1>1, Waiting
<1>3. ServerAt \in Nat /\ DOMAIN queue = 1 .. Len(queue) /\ Len(queue) \in Nat
    BY SyncTyped
<1>4. v <= ServerAt /\ ServerAt <= ServerAt'
    BY <1>3 DEF LeadOn, Announces
<1>5. ASSUME NEW k \in DOMAIN queue', Waits(k)', HasRound(queue'[k])
      PROVE  v <= EventAt(queue'[k])
  <2>1. CASE Waits(k)
    <3>1. k \in DOMAIN queue /\ queue'[k] = queue[k]
        BY <1>1, <2>1 DEF Queued, Waits
    <3> QED BY <1>5, <2>1, <3>1 DEF LeadOn
  <2>2. CASE Added(k, queue)
    <3>1. k - Len(queue) \in DOMAIN events /\ queue'[k] = events[k - Len(queue)]
        BY <1>1, <2>2 DEF Queued
    <3>2. EventAt(queue'[k]) = ServerAt'
        BY <1>5, <3>1 DEF Announces
    <3> QED BY <1>3, <1>4, <3>2
  <2> QED BY <1>2, <1>5, <2>1, <2>2
<1>6. ASSUME NEW u \in v + 1 .. ServerAt'
      PROVE  \E k \in DOMAIN queue' :
                Waits(k)' /\ Turns(queue'[k]) /\ EventAt(queue'[k]) = u
  <2>1. CASE u <= ServerAt
    <3>1. u \in v + 1 .. ServerAt
        BY <1>3, <2>1
    <3>2. PICK k \in DOMAIN queue :
             Waits(k) /\ Turns(queue[k]) /\ EventAt(queue[k]) = u
        BY <3>1 DEF LeadOn
    <3>3. k \in DOMAIN queue' /\ queue'[k] = queue[k] /\ Waits(k)'
        BY <1>1, <1>2, <3>2 DEF Queued
    <3> QED BY <3>2, <3>3
  <2>2. CASE ~(u <= ServerAt)
    <3>1. ServerAt' # ServerAt /\ u = ServerAt'
        BY <1>3, <2>2 DEF Announces
    <3>2. 1 \in DOMAIN events /\ Turns(events[1])
        BY <3>1 DEF Announces
    <3>3. HasRound(events[1])
        BY <3>2 DEF Turns, HasRound
    <3>4. EventAt(events[1]) = ServerAt'
        BY <3>2, <3>3 DEF Announces
    <3>5. Added(Len(queue) + 1, queue) /\ queue'[Len(queue) + 1] = events[1]
        BY <1>1, <3>2 DEF Queued
    <3>6. PICK k : k = Len(queue) + 1
        OBVIOUS
    <3>7. k \in DOMAIN queue' /\ Waits(k)' /\ queue'[k] = events[1]
        BY <1>2, <3>5, <3>6 DEF Added
    <3> QED BY <3>1, <3>2, <3>4, <3>7
  <2> QED BY <2>1, <2>2
<1> QED BY <1>3, <1>4, <1>5, <1>6 DEF LeadOn

LEMMA BurstRounds ==
    ASSUME TypeInv, WireInv, RoundsInv, NEW before, NEW events, NEW after,
           RoomBurst(before, events, after), Announces(events),
           round_id' \in RoundId, over' \in BOOLEAN,
           Pos(round_id)' <= Pos(LastRound)
    PROVE  RoundsInv'
<1>1. /\ Queued(events) /\ Burst(before, events, after)
      /\ UNCHANGED <<head_applied, client>>
      /\ \A f \in Members(before) \cup Members(after) :
            f.kind \in DirectKind /\ f.round = round_id
    BY DEF RoomBurst, SentBurst
<1>2. /\ \A k : Waits(k) => Waits(k)'
      /\ \A k : Added(k, queue) => Waits(k)'
    BY <1>1, Waiting
<1>3. /\ ServerAt \in Nat /\ DOMAIN queue = 1 .. Len(queue) /\ Len(queue) \in Nat
      /\ round_id \in RoundId /\ over \in BOOLEAN
      /\ \A k \in DOMAIN queue :
            HasRound(queue[k]) => EventAt(queue[k]) \in Nat
      /\ \A i \in DOMAIN wire : wire[i] \in Frame
      /\ client \in Client /\ ClientAt \in Nat
    BY SyncTyped
<1>4. ServerAt' \in Nat
    BY AtIs DEF ServerAt
<1>5. ServerAt <= ServerAt' /\ ServerAt' <= ServerAt + 1
    BY <1>3, <1>4 DEF Announces
<1>6. Pos(round_id) <= Pos(round_id')
    BY <1>3, <1>5, AtIs DEF ServerAt
<1>7. ASSUME NEW k \in DOMAIN queue'
      PROVE  \/ k \in DOMAIN queue /\ queue'[k] = queue[k]
             \/ Added(k, queue) /\ k - Len(queue) \in DOMAIN events
                   /\ queue'[k] = events[k - Len(queue)]
                   /\ (HasRound(queue'[k]) => EventAt(queue'[k]) = ServerAt')
  <2>1. CASE k \in DOMAIN queue
      BY <1>1, <2>1 DEF Queued
  <2>2. CASE Added(k, queue)
    <3>1. k - Len(queue) \in DOMAIN events /\ queue'[k] = events[k - Len(queue)]
        BY <1>1, <2>2 DEF Queued
    <3>2. HasRound(queue'[k]) => EventAt(queue'[k]) = ServerAt'
        BY <3>1 DEF Announces
    <3> QED BY <2>2, <3>1, <3>2
  <2> QED BY <2>1, <2>2 DEF Added
<1>8. ASSUME NEW k \in DOMAIN queue', HasRound(queue'[k])
      PROVE  EventAt(queue'[k]) <= ServerAt'
  <2>1. CASE k \in DOMAIN queue /\ queue'[k] = queue[k]
    <3>1. EventAt(queue[k]) <= ServerAt /\ EventAt(queue[k]) \in Nat
        BY <1>3, <1>8, <2>1 DEF RoundsInv
    <3> QED BY <1>3, <1>4, <1>5, <2>1, <3>1
  <2> QED BY <1>4, <1>7, <1>8, <2>1
<1>9. ASSUME NEW i \in DOMAIN queue', NEW j \in DOMAIN queue', i < j,
             HasRound(queue'[i]), HasRound(queue'[j])
      PROVE  /\ EventAt(queue'[i]) <= EventAt(queue'[j])
             /\ Turns(queue'[j]) => EventAt(queue'[i]) < EventAt(queue'[j])
  <2>1. CASE j \in DOMAIN queue /\ queue'[j] = queue[j]
    <3>1. i \in DOMAIN queue
      <4>1. Added(i, queue) => j < i /\ i \in Nat
          BY <1>1, <2>1 DEF Queued
      <4> QED BY <1>3, <1>7, <1>9, <2>1, <4>1
    <3>2. queue'[i] = queue[i]
        BY <1>1, <3>1 DEF Queued
    <3> QED BY <1>9, <2>1, <3>1, <3>2 DEF RoundsInv
  <2>2. CASE Added(j, queue)
    <3>1. /\ j - Len(queue) \in DOMAIN events
          /\ queue'[j] = events[j - Len(queue)] /\ j \in Nat
          /\ EventAt(queue'[j]) = ServerAt'
        BY <1>1, <1>7, <1>9, <2>2 DEF Queued, Added
    <3>2. EventAt(queue'[i]) <= ServerAt'
        BY <1>8, <1>9
    <3>3. ASSUME Turns(queue'[j]) PROVE EventAt(queue'[i]) < EventAt(queue'[j])
      <4>1. j - Len(queue) = 1 /\ ServerAt' = ServerAt + 1
          BY <3>1, <3>3 DEF Announces
      <4>2. ~Added(i, queue)
        <5>1. SUFFICES ASSUME Added(i, queue) PROVE FALSE
            OBVIOUS
        <5>2. i \in Nat /\ i - Len(queue) \in DOMAIN events
            BY <1>1, <5>1 DEF Queued
        <5>3. i - Len(queue) \in 1 .. Len(events) /\ Len(events) \in Nat
            BY <5>2, LenProperties DEF RoomBurst, SentBurst
        <5> QED BY <1>3, <1>9, <3>1, <4>1, <5>2, <5>3
      <4>3. i \in DOMAIN queue /\ queue'[i] = queue[i]
          BY <1>7, <4>2
      <4>4. EventAt(queue[i]) <= ServerAt /\ EventAt(queue[i]) \in Nat
          BY <1>3, <1>9, <4>3 DEF RoundsInv
      <4> QED BY <1>3, <3>1, <4>1, <4>3, <4>4
    <3> QED BY <3>1, <3>2, <3>3
  <2> QED BY <1>7, <2>1, <2>2
<1>10. ASSUME NEW i \in DOMAIN wire',
              wire'[i].kind \in {"brick_full", "brick_delta", "respawn"}
       PROVE  Pos(wire'[i].round) <= Pos(round_id')
  <2>1. CASE i \in DOMAIN wire /\ wire'[i] = wire[i]
    <3>1. Pos(wire[i].round) <= Pos(round_id)
        BY <1>10, <2>1 DEF RoundsInv
    <3>2. wire[i].round \in RoundId
      <4>1. wire[i] \in Inner
          BY <1>3, <1>10, <2>1, FrameIs
      <4> QED BY <1>10, <2>1, <4>1, InnerIs
    <3>3. Pos(wire[i].round) \in Nat /\ Pos(round_id) \in Nat /\ Pos(round_id') \in Nat
        BY <1>3, <3>2, PosIs
    <3> QED BY <1>6, <2>1, <3>1, <3>3
  <2>2. CASE Added(i, wire)
    <3>1. wire'[i] \in Members(before) \cup Members(after)
      <4>1. \A x : Event(x).kind = "event"
          BY DEF Event
      <4> QED BY <1>1, <1>10, <2>2, <4>1 DEF Burst
    <3>2. wire'[i].round = round_id
        BY <1>1, <3>1
    <3> QED BY <1>6, <3>2
  <2> QED BY <1>1, <2>1, <2>2 DEF Burst, Added
<1>11. ASSUME NEW r, StartWaits(r) PROVE StartWaits(r)'
  <2>1. PICK k \in DOMAIN queue : Waits(k) /\ queue[k] = RoundStart(r)
      BY <1>11 DEF StartWaits
  <2>2. k \in DOMAIN queue' /\ queue'[k] = queue[k] /\ Waits(k)'
      BY <1>1, <1>2, <2>1 DEF Queued
  <2> QED BY <2>1, <2>2 DEF StartWaits, RoundStart
<1>12. ASSUME NEW i \in DOMAIN wire', wire'[i].kind = "welcome"
       PROVE  /\ LeadOn(At(wire[i].round, wire[i].phase = "over"))'
              /\ wire'[i].phase = "playing" => StartWaits(wire[i].round)'
  <2>1. i \in DOMAIN wire /\ wire'[i] = wire[i]
    <3>1. CASE Added(i, wire)
      <4>1. \A x : Event(x).kind = "event"
          BY DEF Event
      <4>2. wire'[i] \in Members(before) \cup Members(after)
          BY <1>1, <1>12, <3>1, <4>1 DEF Burst
      <4>3. wire'[i].kind \in DirectKind
          BY <1>1, <4>2
      <4> QED BY <1>12, <4>3 DEF DirectKind
    <3> QED BY <1>1, <3>1 DEF Burst, Added
  <2>2. PICK v : v = At(wire[i].round, wire[i].phase = "over")
      OBVIOUS
  <2>3. PICK r : r = wire[i].round
      OBVIOUS
  <2>4. LeadOn(v) /\ (wire[i].phase = "playing" => StartWaits(r))
      BY <1>12, <2>1, <2>2, <2>3 DEF RoundsInv
  <2>5. v \in Nat
    <3>1. wire[i].round \in RoundId
        BY <1>3, <1>12, <2>1, FrameIs
    <3>2. (wire[i].phase = "over") \in BOOLEAN
        OBVIOUS
    <3> QED BY <2>2, <3>1, <3>2, AtIs
  <2>6. LeadOn(v)'
      BY <1>4, <2>4, <2>5, BurstLeads
  <2>7. v = At(wire'[i].round, wire'[i].phase = "over") /\ r = wire'[i].round
      BY <2>1, <2>2, <2>3
  <2>8. wire'[i].phase = "playing" => StartWaits(r)'
      BY <1>11, <2>1, <2>4
  <2>9. LeadOn(At(wire[i].round, wire[i].phase = "over"))'
      BY <2>6, <2>7 DEF LeadOn
  <2> QED BY <2>7, <2>8, <2>9 DEF StartWaits
<1>13. ASSUME client'.welcome
       PROVE  /\ LeadOn(ClientAt)'
              /\ client'.phase = "playing" /\ ~client'.authorized =>
                    StartWaits(client.round)'
  <2>1. PICK v : v = ClientAt
      OBVIOUS
  <2>2. PICK r : r = client.round
      OBVIOUS
  <2>3. /\ LeadOn(v)
        /\ client.phase = "playing" /\ ~client.authorized => StartWaits(r)
      BY <1>1, <1>13, <2>1, <2>2 DEF RoundsInv
  <2>4. LeadOn(v)'
      BY <1>3, <1>4, <2>1, <2>3, BurstLeads
  <2>5. v = ClientAt' /\ r = client'.round
      BY <1>1, <2>1, <2>2 DEF ClientAt
  <2>6. LeadOn(ClientAt)'
      BY <2>4, <2>5 DEF LeadOn
  <2>7. client'.phase = "playing" /\ ~client'.authorized => StartWaits(r)'
      BY <1>1, <1>11, <2>3
  <2> QED BY <2>5, <2>6, <2>7 DEF StartWaits
<1> QED BY <1>8, <1>9, <1>10, <1>12, <1>13 DEF RoundsInv

\* A start is queued with its map.
Mapped(events) ==
    \A l \in DOMAIN events :
       events[l].kind = "round_start" =>
          \E m \in DOMAIN events :
             /\ l < m
             /\ events[m].kind = "brick_full"
             /\ events[m].round = events[l].round

LEMMA BurstMaps ==
    ASSUME TypeInv, WireInv, MapInv, NEW before, NEW events, NEW after,
           SentBurst(before, events, after), Mapped(events)
    PROVE  MapInv'
<1>1. /\ Queued(events) /\ Burst(before, events, after)
      /\ UNCHANGED <<head_applied, client>>
      /\ events \in Seq(Inner)
    BY DEF SentBurst
<1>2. /\ \A k : Waits(k) => Waits(k)'
      /\ DOMAIN queue = 1 .. Len(queue) /\ Len(queue) \in Nat
      /\ Len(events) \in Nat /\ DOMAIN events = 1 .. Len(events)
    BY <1>1, Waiting, SyncTyped, LenProperties
<1>3. \A k \in DOMAIN queue : k \in DOMAIN queue' /\ queue'[k] = queue[k]
    BY <1>1 DEF Queued
<1>4. ASSUME NEW k \in DOMAIN queue', queue'[k].kind = "round_start"
      PROVE  \E j \in DOMAIN queue' :
                /\ k < j
                /\ queue'[j].kind = "brick_full"
                /\ queue'[j].round = queue'[k].round
  <2>1. CASE k \in DOMAIN queue
    <3>1. PICK j \in DOMAIN queue :
             /\ k < j
             /\ queue[j].kind = "brick_full"
             /\ queue[j].round = queue[k].round
        BY <1>3, <1>4, <2>1 DEF MapInv
    <3> QED BY <1>3, <2>1, <3>1
  <2>2. CASE k \notin DOMAIN queue
    <3>1. /\ k \in Nat /\ k - Len(queue) \in DOMAIN events
          /\ queue'[k] = events[k - Len(queue)]
        BY <1>1, <1>4, <2>2 DEF Queued, Added
    <3>2. PICK m \in DOMAIN events :
             /\ k - Len(queue) < m
             /\ events[m].kind = "brick_full"
             /\ events[m].round = events[k - Len(queue)].round
        BY <1>4, <3>1 DEF Mapped
    <3>3. Len(queue) + m \in DOMAIN queue' /\ queue'[Len(queue) + m] = events[m]
        BY <1>1, <3>2 DEF Queued, Added
    <3>4. k < Len(queue) + m
        BY <1>2, <3>1, <3>2
    <3> QED BY <3>1, <3>2, <3>3, <3>4
  <2> QED BY <2>1, <2>2
<1>5. ASSUME client'.welcome, client'.phase = "playing", client'.authorized,
             ~client'.map_ready
      PROVE  \E k \in DOMAIN queue' :
                /\ Waits(k)'
                /\ queue'[k].kind = "brick_full"
                /\ queue'[k].round = client'.round
  <2>1. PICK k \in DOMAIN queue :
           /\ Waits(k)
           /\ queue[k].kind = "brick_full"
           /\ queue[k].round = client.round
      BY <1>1, <1>5 DEF MapInv
  <2> QED BY <1>1, <1>2, <1>3, <2>1
<1> QED BY <1>4, <1>5 DEF MapInv

\* A burst within a round: bricks only fall, and a fall and a new announcement
\* are told by an event; nothing in it is out of date when it is sent.
UpToDate(before, events, after) ==
    /\ round_id' = round_id /\ (over => over') /\ bricks' \subseteq bricks
    /\ \A f \in Members(before) \cup Members(events) \cup Members(after) :
          /\ f.kind = "brick_full" => f.maze = bricks'
          /\ f.kind = "brick_delta" => f.brick \notin bricks'
    /\ ~over' => \A b \in bricks \ bricks' :
                    BrickDelta(round_id, b) \in Members(events)
    /\ ~over' /\ announced' # announced =>
          Respawn(round_id, announced') \in Members(events)
    /\ ~over' => \A f \in Members(events) \cup Members(after) : ~Misleads(f)'
    /\ ~over' => \A f \in Members(before) :
                    Misleads(f)' => Respawn(round_id, announced') \in Members(events)

SameRound(before, events, after) ==
    SentBurst(before, events, after) /\ UpToDate(before, events, after)

\* Where the entries of the queue and of the wire come from.
LEMMA Sources ==
    ASSUME TypeInv, NEW before, NEW events, NEW after,
           SentBurst(before, events, after)
    PROVE  /\ \A k \in DOMAIN queue' :
                 \/ k \in DOMAIN queue /\ queue'[k] = queue[k]
                 \/ Added(k, queue) /\ queue'[k] \in Members(events)
           /\ \A i \in DOMAIN wire' :
                 \/ i \in DOMAIN wire /\ wire'[i] = wire[i]
                 \/ Added(i, wire) /\ wire'[i].kind = "event"
                 \/ Added(i, wire) /\ wire'[i] \in Members(after)
                 \/ /\ Added(i, wire) /\ wire'[i] \in Members(before)
                    /\ \A e \in Members(events) : \E k \in DOMAIN queue' :
                          Added(k, queue) /\ queue'[k] = e
           /\ \A e \in Members(events) : \E k \in DOMAIN queue' :
                 /\ Added(k, queue) /\ queue'[k] = e
                 /\ \A j \in DOMAIN queue : j < k
<1>1. Queued(events) /\ Burst(before, events, after)
    BY DEF SentBurst
<1>2. ASSUME NEW k \in DOMAIN queue'
      PROVE  \/ k \in DOMAIN queue /\ queue'[k] = queue[k]
             \/ Added(k, queue) /\ queue'[k] \in Members(events)
    BY <1>1 DEF Queued, Added, Members
<1>3. ASSUME NEW e \in Members(events)
      PROVE  \E k \in DOMAIN queue' :
                 /\ Added(k, queue) /\ queue'[k] = e
                 /\ \A j \in DOMAIN queue : j < k
  <2>1. PICK l \in DOMAIN events : e = events[l]
      BY DEF Members
  <2>2. PICK k : k = Len(queue) + l
      OBVIOUS
  <2>3. Added(k, queue) /\ queue'[k] = e /\ \A j \in DOMAIN queue : j < k
      BY <1>1, <2>1, <2>2 DEF Queued
  <2> QED BY <2>3 DEF Added
<1>4. \A x : Event(x).kind = "event"
    BY DEF Event
<1>5. ASSUME NEW i \in DOMAIN wire'
      PROVE  \/ i \in DOMAIN wire /\ wire'[i] = wire[i]
             \/ Added(i, wire) /\ wire'[i].kind = "event"
             \/ Added(i, wire) /\ wire'[i] \in Members(after)
             \/ Added(i, wire) /\ wire'[i] \in Members(before)
    BY <1>1, <1>4 DEF Burst, Added
<1> QED BY <1>2, <1>3, <1>5

LEMMA SameRoundLacks ==
    ASSUME TypeInv, LacksInv, NEW before, NEW events, NEW after,
           SameRound(before, events, after)
    PROVE  LacksInv'
<1>1. /\ SentBurst(before, events, after)
      /\ round_id' = round_id /\ bricks' \subseteq bricks
      /\ \A f \in Members(before) \cup Members(events) \cup Members(after) :
            /\ f.kind = "brick_full" => f.maze = bricks'
            /\ f.kind = "brick_delta" => f.brick \notin bricks'
    BY DEF SameRound, UpToDate
<1>2. \A f \in Members(before) \cup Members(events) \cup Members(after) :
         ~Lacks(f)'
    BY <1>1 DEF Lacks
<1>3. \A f : ~Lacks(f) => ~Lacks(f)'
    BY <1>1 DEF Lacks
<1>4. \A f : f.kind = "event" => ~Lacks(f)'
    BY DEF Lacks
<1>5. ASSUME NEW k \in DOMAIN queue' PROVE ~Lacks(queue[k])'
  <2>1. PICK f : f = queue'[k]
      OBVIOUS
  <2>2. ~Lacks(f)'
      BY <1>1, <1>2, <1>3, <2>1, Sources DEF LacksInv
  <2> QED BY <2>1, <2>2 DEF Lacks
<1>6. ASSUME NEW i \in DOMAIN wire' PROVE ~Lacks(wire[i])'
  <2>1. PICK f : f = wire'[i]
      OBVIOUS
  <2>2. ~Lacks(f)'
      BY <1>1, <1>2, <1>3, <1>4, <2>1, Sources DEF LacksInv
  <2> QED BY <2>1, <2>2 DEF Lacks
<1>7. client'.map_ready /\ client'.round = round_id' => bricks' \subseteq client'.maze
    BY <1>1 DEF LacksInv, SentBurst
<1> QED BY <1>5, <1>6, <1>7 DEF LacksInv

LEMMA SameRoundFallen ==
    ASSUME TypeInv, WireInv, FallenInv, NEW before, NEW events, NEW after,
           SameRound(before, events, after)
    PROVE  FallenInv'
<1>1. /\ SentBurst(before, events, after)
      /\ Queued(events) /\ Burst(before, events, after)
      /\ UNCHANGED <<head_applied, client>>
      /\ round_id' = round_id /\ (over => over')
      /\ \A f \in Members(before) \cup Members(events) \cup Members(after) :
            f.kind = "brick_full" => f.maze = bricks'
    BY DEF SameRound, UpToDate, SentBurst
<1> SUFFICES ASSUME ~over', NEW b \in Brick \ bricks'
             PROVE  FallIsTold(b)'
    BY DEF FallenInv
<1>2. PICK r : r = round_id
    OBVIOUS
<1>3. PICK fall : fall = BrickDelta(r, b)
    OBVIOUS
<1>4. ASSUME NEW f \in Members(before) \cup Members(events) \cup Members(after)
      PROVE  ~Keeps(f, b)'
    BY <1>1, <1>4 DEF Keeps
<1>5. \A f : Keeps(f, b)' => Keeps(f, b)
    BY <1>1 DEF Keeps
<1>6. /\ \A k : Waits(k) => Waits(k)'
      /\ \A k : Added(k, queue) => Waits(k)'
      /\ \A k : \A i \in DOMAIN wire :
            WaitsBehind(k, i) => WaitsBehind(k, i)'
      /\ \A k : \A i \in DOMAIN wire :
            Added(k, queue) => WaitsBehind(k, i)'
    BY <1>1, Waiting
<1>7. ASSUME NEW j \in DOMAIN queue', NEW f, f = queue'[j], Keeps(f, b)'
      PROVE  j \in DOMAIN queue /\ f = queue[j] /\ Keeps(f, b)
    BY <1>1, <1>4, <1>5, <1>7, Sources
<1>8. ASSUME NEW i \in DOMAIN wire', NEW f, f = wire'[i], Keeps(f, b)'
      PROVE  i \in DOMAIN wire /\ f = wire[i] /\ Keeps(f, b)
  <2>1. f.kind # "event"
      BY <1>8 DEF Keeps
  <2> QED BY <1>1, <1>4, <1>5, <1>8, <2>1, Sources
<1>9. CASE b \in bricks
  <2>1. fall \in Members(events)
      BY <1>2, <1>3, <1>9 DEF SameRound, UpToDate
  <2>2. PICK k \in DOMAIN queue' : /\ Added(k, queue) /\ queue'[k] = fall
                                   /\ \A j \in DOMAIN queue : j < k
      BY <1>1, <2>1, Sources
  <2>3. ASSUME NEW i \in DOMAIN wire PROVE WaitsBehind(k, i)'
      BY <1>6, <2>2, <2>3
  <2>4. \A j \in DOMAIN queue' : \A f : f = queue'[j] /\ Keeps(f, b)' => j < k
      BY <1>7, <2>2
  <2>5. \A i \in DOMAIN wire' : \A f : f = wire'[i] /\ Keeps(f, b)' =>
           WaitsBehind(k, i)'
      BY <1>8, <2>3
  <2>6. Waits(k)'
      BY <1>6, <2>2
  <2> QED BY <1>1, <1>2, <1>3, <2>2, <2>4, <2>5, <2>6 DEF FallIsTold, Keeps
<1>10. CASE b \notin bricks
  <2>1. FallIsTold(b)
      BY <1>1, <1>10 DEF FallenInv
  <2>2. ASSUME NEW k \in DOMAIN queue PROVE k \in DOMAIN queue' /\ queue'[k] = queue[k]
      BY <1>1 DEF Queued
  <2>3. client'.map_ready /\ client'.round = round_id' /\ b \in client'.maze
           => \E k \in DOMAIN queue' : Waits(k)' /\ queue'[k] = fall
    <3>1. SUFFICES ASSUME client.map_ready, client.round = round_id, b \in client.maze
                   PROVE  \E k \in DOMAIN queue' : Waits(k)' /\ queue'[k] = fall
        BY <1>1
    <3>2. PICK k \in DOMAIN queue : Waits(k) /\ queue[k] = fall
        BY <1>2, <1>3, <2>1, <3>1 DEF FallIsTold
    <3> QED BY <1>6, <2>2, <3>2
  <2>4. ASSUME NEW j \in DOMAIN queue', NEW f, f = queue'[j], Keeps(f, b)'
        PROVE  \E k \in DOMAIN queue' : j < k /\ queue'[k] = fall
    <3>1. j \in DOMAIN queue /\ Keeps(queue[j], b)
        BY <1>7, <2>4
    <3>2. PICK k \in DOMAIN queue : j < k /\ queue[k] = fall
        BY <1>2, <1>3, <2>1, <3>1 DEF FallIsTold
    <3> QED BY <2>2, <3>2
  <2>5. ASSUME NEW i \in DOMAIN wire', NEW f, f = wire'[i], Keeps(f, b)'
        PROVE  \E k \in DOMAIN queue' : WaitsBehind(k, i)' /\ queue'[k] = fall
    <3>1. i \in DOMAIN wire /\ Keeps(wire[i], b)
        BY <1>8, <2>5
    <3>2. PICK k \in DOMAIN queue : WaitsBehind(k, i) /\ queue[k] = fall
        BY <1>2, <1>3, <2>1, <3>1 DEF FallIsTold
    <3> QED BY <1>6, <2>2, <3>1, <3>2
  <2> QED BY <1>1, <1>2, <1>3, <2>3, <2>4, <2>5 DEF FallIsTold, Keeps
<1> QED BY <1>9, <1>10

LEMMA SameRoundActor ==
    ASSUME TypeInv, WireInv, ActorInv, NEW before, NEW events, NEW after,
           SameRound(before, events, after)
    PROVE  ActorInv'
<1>1. /\ SentBurst(before, events, after)
      /\ Queued(events) /\ Burst(before, events, after)
      /\ UNCHANGED <<head_applied, client>>
      /\ round_id' = round_id /\ (over => over')
      /\ announced \in BOOLEAN
    BY DEF SameRound, UpToDate, SentBurst, TypeInv, TypeOK
<1> SUFFICES ASSUME ~over' PROVE ActorInv'
    BY DEF ActorInv
<1>2. PICK r : r = round_id
    OBVIOUS
<1>3. PICK last : last = Respawn(r, announced')
    OBVIOUS
<1>4. /\ \A f \in Members(events) \cup Members(after) : ~Misleads(f)'
      /\ \A f \in Members(before) : Misleads(f)' => last \in Members(events)
      /\ announced' # announced => last \in Members(events)
    BY <1>2, <1>3 DEF SameRound, UpToDate
<1>5. announced' = announced => \A f : Misleads(f)' => Misleads(f)
    BY <1>1 DEF Misleads
<1>6. /\ \A k : Waits(k) => Waits(k)'
      /\ \A k : Added(k, queue) => Waits(k)'
      /\ \A k : \A i \in DOMAIN wire :
            WaitsBehind(k, i) => WaitsBehind(k, i)'
      /\ \A k : \A i \in DOMAIN wire :
            Added(k, queue) => WaitsBehind(k, i)'
      /\ \A k, i :
            /\ Added(k, queue) /\ Added(i, wire)
            /\ wire'[i] \notin Members(after) /\ ~IsEvent(wire'[i])
            => WaitsBehind(k, i)'
    BY <1>1, Waiting
<1>7. ASSUME NEW j \in DOMAIN queue', NEW f, f = queue'[j], Misleads(f)'
      PROVE  j \in DOMAIN queue /\ f = queue[j]
    BY <1>1, <1>4, <1>7, Sources
<1>8. ASSUME NEW i \in DOMAIN wire', NEW f, f = wire'[i], Misleads(f)'
      PROVE  \/ i \in DOMAIN wire /\ f = wire[i]
             \/ /\ Added(i, wire) /\ ~IsEvent(f) /\ f \notin Members(after)
                /\ last \in Members(events)
  <2>1. f.kind # "event"
      BY <1>8 DEF Misleads, Respawn, RoundStart
  <2> QED BY <1>1, <1>4, <1>8, <2>1, Sources DEF IsEvent
<1>9. CASE last \in Members(events)
  <2>1. PICK k \in DOMAIN queue' : /\ Added(k, queue) /\ queue'[k] = last
                                   /\ \A j \in DOMAIN queue : j < k
      BY <1>1, <1>9, Sources
  <2>2. \A j \in DOMAIN queue' : \A f : f = queue'[j] /\ Misleads(f)' => j < k
      BY <1>7, <2>1
  <2>3. \A i \in DOMAIN wire' : \A f : f = wire'[i] /\ Misleads(f)' =>
           WaitsBehind(k, i)'
    <3>1. ASSUME NEW i \in DOMAIN wire', NEW f, f = wire'[i], Misleads(f)'
          PROVE  WaitsBehind(k, i)'
      <4>1. CASE i \in DOMAIN wire
          BY <1>6, <2>1, <4>1
      <4>2. CASE Added(i, wire) /\ ~IsEvent(f) /\ f \notin Members(after)
          BY <1>6, <2>1, <3>1, <4>2
      <4> QED BY <1>8, <3>1, <4>1, <4>2
    <3> QED BY <3>1
  <2>4. Waits(k)'
      BY <1>6, <2>1
  <2> QED BY <1>1, <1>2, <1>3, <2>1, <2>2, <2>3, <2>4 DEF ActorInv, Misleads
<1>10. CASE last \notin Members(events)
  <2>1. ~over /\ announced' = announced /\ last = Respawn(round_id, announced)
      BY <1>1, <1>2, <1>3, <1>4, <1>10
  <2>2. ASSUME NEW k \in DOMAIN queue PROVE k \in DOMAIN queue' /\ queue'[k] = queue[k]
      BY <1>1 DEF Queued
  <2>3. client'.welcome /\ client'.round = round_id' /\ client'.authorized
              /\ client'.hidden = announced'
           => \E k \in DOMAIN queue' : Waits(k)' /\ queue'[k] = last
    <3>1. SUFFICES ASSUME client.welcome, client.round = round_id, client.authorized,
                          client.hidden = announced
                   PROVE  \E k \in DOMAIN queue' : Waits(k)' /\ queue'[k] = last
        BY <1>1, <2>1
    <3>2. PICK k \in DOMAIN queue : Waits(k) /\ queue[k] = last
        BY <2>1, <3>1 DEF ActorInv
    <3> QED BY <1>6, <2>2, <3>2
  <2>4. ASSUME NEW j \in DOMAIN queue', NEW f, f = queue'[j], Misleads(f)'
        PROVE  \E k \in DOMAIN queue' : j < k /\ queue'[k] = last
    <3>1. j \in DOMAIN queue /\ Misleads(queue[j])
        BY <1>5, <1>7, <2>1, <2>4
    <3>2. PICK k \in DOMAIN queue : j < k /\ queue[k] = last
        BY <2>1, <3>1 DEF ActorInv
    <3> QED BY <2>2, <3>2
  <2>5. ASSUME NEW i \in DOMAIN wire', NEW f, f = wire'[i], Misleads(f)'
        PROVE  \E k \in DOMAIN queue' : WaitsBehind(k, i)' /\ queue'[k] = last
    <3>1. i \in DOMAIN wire /\ Misleads(wire[i])
        BY <1>5, <1>8, <1>10, <2>1, <2>5
    <3>2. PICK k \in DOMAIN queue : WaitsBehind(k, i) /\ queue[k] = last
        BY <2>1, <3>1 DEF ActorInv
    <3> QED BY <1>6, <2>2, <3>1, <3>2
  <2> QED BY <1>1, <1>2, <1>3, <2>3, <2>4, <2>5 DEF ActorInv, Misleads
<1> QED BY <1>9, <1>10

\* The room's own variables, and the bound on the rounds.
RoomTyped ==
    /\ round_id \in RoundId /\ over \in BOOLEAN
    /\ bricks \in SUBSET Brick /\ announced \in BOOLEAN
    /\ brick_echo \in [Brick -> 0 .. BrickRepeats]
    /\ respawn_echo \in {RespawnEcho(n, r, up) :
            n \in 0 .. RespawnRepeats, r \in RoundId, up \in BOOLEAN}
    /\ Pos(round_id) <= Pos(LastRound)

LEMMA Disconnected ==
    ASSUME SyncInv, Disconnect, RoomTyped', EchoInv'
    PROVE  SyncInv'
<1>1. /\ session' = "closed" /\ queue' = <<>> /\ wire' = <<>>
      /\ head_applied' = FALSE /\ client' = NewClient
    BY DEF Disconnect
<1>2. DOMAIN queue' = {} /\ DOMAIN wire' = {} /\ Len(queue') = 0 /\ Len(wire') = 0
      /\ queue' \in Seq(Inner) /\ wire' \in Seq(Frame)
    BY <1>1, EmptySeq
<1>3. client' \in Client /\ ~client'.welcome /\ ~client'.map_ready
  <2>1. 0 \in RoundId /\ "over" \in Phase
      BY DEF RoundId, Phase
  <2> QED BY <1>1, <2>1 DEF NewClient, Client
<1>4. TypeInv'
    BY <1>1, <1>2, <1>3 DEF TypeInv, TypeOK, RoomTyped
<1>5. WireInv'
    BY <1>1, <1>2, <1>3 DEF WireInv
<1>6. RoundsInv'
    BY <1>2, <1>3 DEF RoundsInv, RoomTyped
<1>7. MapInv'
    BY <1>2, <1>3 DEF MapInv
<1>8. LacksInv'
    BY <1>2, <1>3 DEF LacksInv
<1>9. FallenInv'
    BY <1>2, <1>3 DEF FallenInv, FallIsTold
<1>10. ActorInv'
    BY <1>2, <1>3 DEF ActorInv
<1> QED BY <1>4, <1>5, <1>6, <1>7, <1>8, <1>9, <1>10 DEF SyncInv

\* A handler of the room that stays in the round.
LEMMA RoomStep ==
    ASSUME SyncInv, NEW before \in Seq(Frame), NEW events \in Seq(Inner),
           NEW after \in Seq(Frame), Emit(before, events, after),
           \A f \in Members(before) \cup Members(after) :
              f.kind \in DirectKind /\ f.round = round_id,
           UpToDate(before, events, after), Announces(events), Mapped(events),
           RoomTyped', EchoInv'
    PROVE  SyncInv'
<1>1. /\ TypeInv /\ WireInv /\ RoundsInv /\ MapInv
      /\ LacksInv /\ FallenInv /\ ActorInv
    BY DEF SyncInv
<1>2. CASE Disconnect
    BY <1>2, Disconnected
<1>3. CASE ~Disconnect
  <2>1. \A f \in Members(before) \cup Members(after) : ~IsEvent(f)
      BY DEF DirectKind, IsEvent
  <2>2. SentBurst(before, events, after)
      BY <1>1, <1>3, <2>1, Emitted DEF SentBurst
  <2>3. RoomBurst(before, events, after) /\ SameRound(before, events, after)
      BY <2>2 DEF RoomBurst, SameRound
  <2>4. TypeInv'
      BY <1>1, <2>2, BurstTypes DEF RoomTyped
  <2>5. WireInv'
      BY <1>1, <2>3, RoomBurstWire
  <2>6. RoundsInv'
      BY <1>1, <2>3, BurstRounds DEF RoomTyped
  <2>7. MapInv'
      BY <1>1, <2>2, BurstMaps
  <2>8. LacksInv'
      BY <1>1, <2>3, SameRoundLacks
  <2>9. FallenInv'
      BY <1>1, <2>3, SameRoundFallen
  <2>10. ActorInv'
      BY <1>1, <2>3, SameRoundActor
  <2> QED BY <2>4, <2>5, <2>6, <2>7, <2>8, <2>9, <2>10 DEF SyncInv
<1> QED BY <1>2, <1>3

LEMMA SyncRoom ==
    ASSUME SyncInv
    PROVE  RoomTyped
    BY DEF SyncInv, TypeInv, TypeOK, RoundsInv, RoomTyped

----------------------------------------------------------------------------
(* Echoes                                                                  *)

LEMMA MembersOf ==
    /\ Members(<<>>) = {}
    /\ \A x : Members(<<x>>) = {x}
    /\ \A x, y : Members(<<x, y>>) = {x, y}
<1>1. \A x : DOMAIN <<x>> = {1} /\ <<x>>[1] = x
    OBVIOUS
<1>2. \A x, y : DOMAIN <<x, y>> = {1, 2} /\ <<x, y>>[1] = x /\ <<x, y>>[2] = y
    OBVIOUS
<1> QED BY <1>1, <1>2, EmptySeq DEF Members

LEMMA MembersOfBoth ==
    ASSUME NEW S, NEW p \in Seq(S), NEW q \in Seq(S)
    PROVE  /\ p \o q \in Seq(S)
           /\ Members(p \o q) = Members(p) \cup Members(q)
<1> DEFINE pq == p \o q
<1>1. /\ Len(p) \in Nat /\ Len(q) \in Nat
      /\ DOMAIN p = 1 .. Len(p) /\ DOMAIN q = 1 .. Len(q)
    BY LenProperties
<1>2. /\ pq \in Seq(S) /\ Len(pq) = Len(p) + Len(q)
      /\ \A x \in 1 .. Len(p) + Len(q) :
            pq[x] = IF x <= Len(p) THEN p[x] ELSE q[x - Len(p)]
    BY ConcatProperties
<1> HIDE DEF pq
<1>3. DOMAIN pq = 1 .. Len(p) + Len(q)
    BY <1>1, <1>2, LenProperties
<1>4. ASSUME NEW x \in DOMAIN pq PROVE pq[x] \in Members(p) \cup Members(q)
  <2>1. CASE x <= Len(p)
    <3>1. x \in DOMAIN p /\ pq[x] = p[x]
        BY <1>1, <1>2, <1>3, <2>1
    <3> QED BY <3>1 DEF Members
  <2>2. CASE ~(x <= Len(p))
    <3>1. x - Len(p) \in DOMAIN q /\ pq[x] = q[x - Len(p)]
        BY <1>1, <1>2, <1>3, <2>2
    <3> QED BY <3>1 DEF Members
  <2> QED BY <2>1, <2>2
<1>5. ASSUME NEW x \in DOMAIN p PROVE p[x] \in Members(pq)
  <2>1. x \in DOMAIN pq /\ pq[x] = p[x]
      BY <1>1, <1>2, <1>3
  <2> QED BY <2>1 DEF Members
<1>6. ASSUME NEW x \in DOMAIN q PROVE q[x] \in Members(pq)
  <2>1. x + Len(p) \in DOMAIN pq /\ pq[x + Len(p)] = q[x]
    <3>1. x + Len(p) \in 1 .. Len(p) + Len(q) /\ ~(x + Len(p) <= Len(p))
          /\ (x + Len(p)) - Len(p) = x
        BY <1>1
    <3> QED BY <1>2, <1>3, <3>1
  <2> QED BY <2>1 DEF Members
<1>7. Members(pq) = Members(p) \cup Members(q)
    BY <1>4, <1>5, <1>6 DEF Members
<1> QED BY <1>2, <1>7 DEF pq

LEMMA EchoQueued ==
    ASSUME NEW e \in [Brick -> 0 .. BrickRepeats], NEW b \in Brick,
           NEW d \in QueuedEcho(e, b)
    PROVE  /\ d \in [Brick -> 0 .. BrickRepeats]
           /\ \A q \in Brick : d[q] > 0 => q = b \/ e[q] > 0
<1>1. BrickRepeats \in 0 .. BrickRepeats /\ 0 \in 0 .. BrickRepeats
    OBVIOUS
<1>2. \/ d = [e EXCEPT ![b] = BrickRepeats]
      \/ \E q \in Brick : d = [e EXCEPT ![b] = BrickRepeats, ![q] = 0]
    BY DEF QueuedEcho
<1> QED BY <1>1, <1>2

\* Echoes that leave are about fallen bricks and the last announcement.
Echoes(f) ==
    \/ /\ f.kind = "brick_delta" /\ f.round = round_id
       /\ f \in Frame /\ f.brick \in Brick \ bricks
    \/ f = Respawn(round_id, announced)

LEMMA Flushed ==
    ASSUME SyncInv, NEW fl \in BrickFlushes
    PROVE  /\ fl.frames \o RespawnFlush.frames \in Seq(Frame)
           /\ \A f \in Members(fl.frames \o RespawnFlush.frames) : Echoes(f)
           /\ fl.echo \in [Brick -> 0 .. BrickRepeats]
           /\ \A q \in Brick : fl.echo[q] > 0 => brick_echo[q] > 0
           /\ RespawnFlush.echo \in {RespawnEcho(n, r, up) :
                  n \in 0 .. RespawnRepeats, r \in RoundId, up \in BOOLEAN}
           /\ RespawnFlush.echo.left > 0 =>
                  RespawnFlush.echo.frame = Respawn(round_id, announced) /\ ~over
<1>1. RoomTyped /\ EchoInv
    BY SyncRoom DEF SyncInv
<1>2. /\ fl.frames \in Seq(Frame) /\ \A f \in Members(fl.frames) : Echoes(f)
      /\ fl.echo \in [Brick -> 0 .. BrickRepeats]
      /\ \A q \in Brick : fl.echo[q] > 0 => brick_echo[q] > 0
  <2>1. CASE fl = [frames |-> <<>>, echo |-> brick_echo]
    <3>1. fl.frames = <<>> /\ fl.echo = brick_echo
        BY <2>1
    <3> QED BY <1>1, <3>1, MembersOf, EmptySeq DEF RoomTyped
  <2>2. CASE \E b \in Brick :
                /\ brick_echo[b] > 0
                /\ fl = [frames |-> <<BrickDelta(round_id, b)>>,
                         echo |-> [brick_echo EXCEPT ![b] = @ - 1]]
    <3>1. PICK b \in Brick :
             /\ brick_echo[b] > 0
             /\ fl = [frames |-> <<BrickDelta(round_id, b)>>,
                      echo |-> [brick_echo EXCEPT ![b] = @ - 1]]
        BY <2>2
    <3>2. /\ fl.frames = <<BrickDelta(round_id, b)>>
          /\ fl.echo = [brick_echo EXCEPT ![b] = @ - 1]
        BY <3>1
    <3>3. b \notin bricks
        BY <1>1, <3>1 DEF EchoInv
    <3>4. /\ BrickDelta(round_id, b) \in Frame
          /\ Echoes(BrickDelta(round_id, b))
      <4>1. BrickDelta(round_id, b) \in Inner
          BY <1>1, FramesMade DEF RoomTyped
      <4>2. BrickDelta(round_id, b) \in Frame
          BY <4>1, FramesMade
      <4> QED BY <3>3, <4>2 DEF Echoes, BrickDelta
    <3>5. fl.frames \in Seq(Frame) /\ \A f \in Members(fl.frames) : Echoes(f)
        BY <3>2, <3>4, MembersOf
    <3>6. /\ fl.echo \in [Brick -> 0 .. BrickRepeats]
          /\ \A q \in Brick : fl.echo[q] > 0 => brick_echo[q] > 0
      <4>1. brick_echo[b] \in 0 .. BrickRepeats /\ brick_echo[b] - 1 \in 0 .. BrickRepeats
          BY <1>1, <3>1 DEF RoomTyped
      <4> QED BY <1>1, <3>1, <3>2, <4>1 DEF RoomTyped
    <3> QED BY <3>5, <3>6
  <2> QED BY <2>1, <2>2 DEF BrickFlushes
<1>3. /\ RespawnFlush.frames \in Seq(Frame)
      /\ \A f \in Members(RespawnFlush.frames) : Echoes(f)
      /\ RespawnFlush.echo \in {RespawnEcho(n, r, up) :
             n \in 0 .. RespawnRepeats, r \in RoundId, up \in BOOLEAN}
      /\ RespawnFlush.echo.left > 0 =>
             RespawnFlush.echo.frame = Respawn(round_id, announced) /\ ~over
  <2>1. PICK n \in 0 .. RespawnRepeats, r \in RoundId, up \in BOOLEAN :
           respawn_echo = RespawnEcho(n, r, up)
      BY <1>1 DEF RoomTyped
  <2>2. respawn_echo.left = n /\ respawn_echo.frame = Respawn(r, up)
      BY <2>1 DEF RespawnEcho
  <2>3. CASE n = 0
    <3>1. RespawnFlush.frames = <<>> /\ RespawnFlush.echo = respawn_echo
        BY <2>2, <2>3 DEF RespawnFlush
    <3> QED BY <1>1, <2>2, <2>3, <3>1, MembersOf, EmptySeq DEF RoomTyped
  <2>4. CASE n # 0
    <3>1. /\ RespawnFlush.frames = <<Respawn(r, up)>>
          /\ RespawnFlush.echo = [respawn_echo EXCEPT !.left = @ - 1]
        BY <2>2, <2>4 DEF RespawnFlush
    <3>2. Respawn(r, up) = Respawn(round_id, announced) /\ ~over
      <4>1. respawn_echo.left > 0
          BY <2>2, <2>4
      <4> QED BY <1>1, <2>2, <4>1 DEF EchoInv
    <3>3. Respawn(r, up) \in Frame
        BY FramesMade
    <3>4. RespawnFlush.echo = RespawnEcho(n - 1, r, up)
        BY <2>1, <3>1 DEF RespawnEcho
    <3>5. n - 1 \in 0 .. RespawnRepeats
        BY <2>4
    <3>6. RespawnFlush.echo.frame = Respawn(r, up)
        BY <3>4 DEF RespawnEcho
    <3>7. RespawnFlush.frames \in Seq(Frame)
          /\ \A f \in Members(RespawnFlush.frames) : Echoes(f)
        BY <3>1, <3>2, <3>3, MembersOf DEF Echoes
    <3> QED BY <3>2, <3>4, <3>5, <3>6, <3>7
  <2> QED BY <2>3, <2>4
<1>4. PICK p : p = fl.frames
    OBVIOUS
<1>5. PICK q : q = RespawnFlush.frames
    OBVIOUS
<1>6. /\ p \o q \in Seq(Frame)
      /\ Members(p \o q) = Members(p) \cup Members(q)
    BY <1>2, <1>3, <1>4, <1>5, MembersOfBoth
<1> QED BY <1>2, <1>3, <1>4, <1>5, <1>6

----------------------------------------------------------------------------
(* The handlers of the room                                                *)

LEMMA EchoIs ==
    ASSUME SyncInv, NEW f, Echoes(f)
    PROVE  /\ f.kind \in {"brick_delta", "respawn"} /\ f.round = round_id
           /\ f.kind = "brick_delta" => f.brick \notin bricks
           /\ f.kind = "respawn" => f = Respawn(round_id, announced)
    BY DEF Echoes, Respawn

\* What is sent directly in the step of a handler that keeps to the round.
Direct(f) ==
    /\ f.kind \in DirectKind /\ f.round = round_id
    /\ f.kind = "brick_full" => f.maze = bricks'
    /\ f.kind = "brick_delta" => f.brick \notin bricks'

LEMMA SnapshotIs ==
    ASSUME round_id \in RoundId
    PROVE  /\ <<Snapshot(round_id)>> \in Seq(Frame)
           /\ \A f \in Members(<<Snapshot(round_id)>>) : f.kind = "snapshot" /\ f.round = round_id
<1>1. Snapshot(round_id) \in Frame
    BY FramesMade
<1> QED BY <1>1, MembersOf DEF Snapshot

\* A handler that tells nothing new.
LEMMA QuietStep ==
    ASSUME SyncInv, NEW before \in Seq(Frame), NEW after \in Seq(Frame),
           Emit(before, <<>>, after), UNCHANGED roomVars,
           \A f \in Members(before) : Direct(f) /\ (f.kind = "respawn" => Echoes(f)),
           \A f \in Members(after) : f.kind = "snapshot" /\ f.round = round_id,
           RoomTyped', EchoInv'
    PROVE  SyncInv'
<1>1. PICK events : events = <<>>
    OBVIOUS
<1>2. /\ events \in Seq(Inner) /\ DOMAIN events = {} /\ Members(events) = {}
      /\ Emit(before, events, after)
    BY <1>1, EmptySeq, MembersOf
<1>3. /\ round_id' = round_id /\ over' = over /\ bricks' = bricks
      /\ announced' = announced
    BY DEF roomVars
<1>4. \A f \in Members(before) \cup Members(after) :
         f.kind \in DirectKind /\ f.round = round_id
    BY DEF Direct, DirectKind
<1>5. \A f \in Members(before) \cup Members(after) : ~Misleads(f)'
  <2>1. ASSUME NEW f \in Members(before) \cup Members(after) PROVE ~Misleads(f)'
    <3>1. f.kind \notin {"round_start", "respawn"} \/ f = Respawn(round_id, announced)
        BY <2>1, EchoIs DEF Direct, DirectKind
    <3>2. announced \in BOOLEAN
        BY SyncRoom DEF RoomTyped
    <3> QED BY <1>3, <3>1, <3>2 DEF Misleads, Respawn, RoundStart
  <2> QED BY <2>1
<1>6. UpToDate(before, events, after)
    BY <1>2, <1>3, <1>5 DEF UpToDate, Direct
<1>7. Announces(events) /\ Mapped(events)
    BY <1>2, <1>3 DEF Announces, ServerAt, Mapped
<1> QED BY <1>2, <1>4, <1>6, <1>7, RoomStep

LEMMA StepRotateName ==
    ASSUME SyncInv, RotateName PROVE SyncInv'
<1>1. /\ Emit(<<>>, <<NameFrame>>, <<>>)
      /\ UNCHANGED <<roomVars, echoVars>>
    BY DEF RotateName
<1>2. PICK events : events = <<NameFrame>>
    OBVIOUS
<1>3. PICK none : none = <<>>
    OBVIOUS
<1>4. /\ events \in Seq(Inner) /\ DOMAIN events = {1} /\ Members(events) = {NameFrame}
      /\ events[1].kind = "name" /\ NameFrame.kind = "name"
    BY <1>2, MembersOf, FramesMade
<1>5. none \in Seq(Frame) /\ Members(none) = {} /\ Emit(none, events, none)
    BY <1>1, <1>2, <1>3, MembersOf, EmptySeq
<1>6. UpToDate(none, events, none)
    BY <1>1, <1>4, <1>5 DEF UpToDate, roomVars, Misleads, Respawn, RoundStart
<1>7. Announces(events) /\ Mapped(events)
    BY <1>1, <1>4 DEF Announces, Mapped, ServerAt, roomVars, HasRound, Turns
<1>8. RoomTyped' /\ EchoInv'
    BY <1>1, SyncRoom DEF RoomTyped, EchoInv, SyncInv, roomVars, echoVars
<1> QED BY <1>4, <1>5, <1>6, <1>7, <1>8, RoomStep

LEMMA StepResync ==
    ASSUME SyncInv, Resync PROVE SyncInv'
<1>1. /\ Emit(<<BrickFull(round_id, bricks)>>, <<>>, <<>>)
      /\ UNCHANGED <<roomVars, echoVars>>
    BY DEF Resync
<1>2. RoomTyped
    BY SyncRoom
<1>3. PICK before : before = <<BrickFull(round_id, bricks)>>
    OBVIOUS
<1>4. before \in Seq(Frame) /\ Members(before) = {BrickFull(round_id, bricks)}
  <2>1. BrickFull(round_id, bricks) \in Inner
      BY <1>2, FramesMade DEF RoomTyped
  <2>2. BrickFull(round_id, bricks) \in Frame
      BY <2>1, FramesMade
  <2> QED BY <1>3, <2>2, MembersOf
<1>5. \A f \in Members(before) : Direct(f) /\ (f.kind = "respawn" => Echoes(f))
    BY <1>1, <1>4 DEF Direct, DirectKind, BrickFull, roomVars
<1>6. PICK none : none = <<>>
    OBVIOUS
<1>7. none \in Seq(Frame) /\ Members(none) = {} /\ Emit(before, <<>>, none)
    BY <1>1, <1>3, <1>6, MembersOf, EmptySeq
<1>8. RoomTyped' /\ EchoInv'
    BY <1>1, <1>2 DEF RoomTyped, EchoInv, SyncInv, roomVars, echoVars
<1> QED BY <1>1, <1>4, <1>5, <1>7, <1>8, QuietStep

\* A brick falls: a delta at once and an event, repairs queued before it.
LEMMA BrickStep ==
    ASSUME SyncInv, ~over, NEW b \in Brick, NEW pre \in Seq(Frame),
           \A f \in Members(pre) : Echoes(f),
           NEW after \in Seq(Frame),
           \A f \in Members(after) : f.kind = "snapshot" /\ f.round = round_id,
           Emit(pre \o <<BrickDelta(round_id, b)>>, BrickEvents(b), after),
           bricks' = bricks \ {b}, UNCHANGED <<round_id, over, announced>>,
           RoomTyped', EchoInv'
    PROVE  SyncInv'
<1>1. RoomTyped
    BY SyncRoom
<1>2. PICK delta : delta = BrickDelta(round_id, b)
    OBVIOUS
<1>3. /\ delta \in Inner /\ delta \in Frame /\ delta.kind = "brick_delta"
      /\ delta.round = round_id /\ delta.brick = b
    BY <1>1, <1>2, FramesMade DEF RoomTyped
<1>4. PICK events : events = <<delta>>
    OBVIOUS
<1>5. PICK told : told = <<delta>>
    OBVIOUS
<1>6. /\ events \in Seq(Inner) /\ DOMAIN events = {1} /\ events[1] = delta
      /\ Members(events) = {delta}
      /\ told \in Seq(Frame) /\ Members(told) = {delta}
    BY <1>3, <1>4, <1>5, MembersOf
<1>7. PICK before : before = pre \o told
    OBVIOUS
<1>8. /\ before \in Seq(Frame) /\ Members(before) = Members(pre) \cup {delta}
      /\ Emit(before, events, after)
  <2>1. /\ pre \o told \in Seq(Frame)
        /\ Members(pre \o told) = Members(pre) \cup Members(told)
      BY <1>6, MembersOfBoth
  <2>2. Emit(before, events, after)
      BY <1>2, <1>4, <1>5, <1>7 DEF BrickEvents
  <2> QED BY <1>6, <1>7, <2>1, <2>2
<1>9. ASSUME NEW f \in Members(before) \cup Members(events) \cup Members(after)
      PROVE  /\ f.kind \in DirectKind /\ f.round = round_id
             /\ f.kind # "brick_full"
             /\ f.kind = "brick_delta" => f.brick \notin bricks'
             /\ ~Misleads(f)'
  <2>1. /\ f.kind \in {"brick_delta", "respawn", "snapshot"} /\ f.round = round_id
        /\ f.kind = "brick_delta" => f.brick \notin bricks'
        /\ f.kind = "respawn" => f = Respawn(round_id, announced)
    <3>1. CASE f = delta
        BY <1>3, <3>1
    <3>2. CASE f \in Members(pre)
        BY <3>2, EchoIs
    <3>3. CASE f \in Members(after)
        BY <3>3
    <3> QED BY <1>6, <1>8, <1>9, <3>1, <3>2, <3>3
  <2>2. ~Misleads(f)'
    <3>1. announced' = announced /\ announced \in BOOLEAN
        BY <1>1 DEF RoomTyped
    <3> QED BY <2>1, <3>1 DEF Misleads, Respawn, RoundStart
  <2> QED BY <2>1, <2>2 DEF DirectKind
<1>10. UpToDate(before, events, after)
  <2>1. \A q \in bricks \ bricks' : BrickDelta(round_id, q) \in Members(events)
      BY <1>2, <1>6
  <2> QED BY <1>9, <2>1 DEF UpToDate
<1>11. Announces(events) /\ Mapped(events)
  <2>1. EventAt(delta) = ServerAt
      BY <1>3 DEF EventAt, ServerAt, At
  <2> QED BY <1>3, <1>6, <2>1 DEF Announces, Mapped, ServerAt, Turns
<1> QED BY <1>6, <1>8, <1>9, <1>10, <1>11, RoomStep

\* The actor falls or stands up: told at once and by an event.
LEMMA ActorStep ==
    ASSUME SyncInv, ~over, NEW up \in BOOLEAN, NEW pre \in Seq(Frame),
           \A f \in Members(pre) : Echoes(f),
           NEW after \in Seq(Frame),
           \A f \in Members(after) : f.kind = "snapshot" /\ f.round = round_id,
           Emit(pre \o <<Respawn(round_id, up)>>, <<Respawn(round_id, up)>>, after),
           announced' = up, UNCHANGED <<round_id, over, bricks>>,
           RoomTyped', EchoInv'
    PROVE  SyncInv'
<1>1. RoomTyped
    BY SyncRoom
<1>2. PICK last : last = Respawn(round_id, up)
    OBVIOUS
<1>3. /\ last \in Inner /\ last \in Frame /\ last.kind = "respawn"
      /\ last.round = round_id /\ last.final = up
    BY <1>1, <1>2, FramesMade DEF RoomTyped
<1>4. PICK events : events = <<last>>
    OBVIOUS
<1>5. PICK told : told = <<last>>
    OBVIOUS
<1>6. /\ events \in Seq(Inner) /\ DOMAIN events = {1} /\ events[1] = last
      /\ Members(events) = {last}
      /\ told \in Seq(Frame) /\ Members(told) = {last}
    BY <1>3, <1>4, <1>5, MembersOf
<1>7. PICK before : before = pre \o told
    OBVIOUS
<1>8. /\ before \in Seq(Frame) /\ Members(before) = Members(pre) \cup {last}
      /\ Emit(before, events, after)
  <2>1. /\ pre \o told \in Seq(Frame)
        /\ Members(pre \o told) = Members(pre) \cup Members(told)
      BY <1>6, MembersOfBoth
  <2>2. Emit(before, events, after)
      BY <1>2, <1>4, <1>5, <1>7
  <2> QED BY <1>6, <1>7, <2>1, <2>2
<1>9. ASSUME NEW f \in Members(before) \cup Members(events) \cup Members(after)
      PROVE  /\ f.kind \in {"brick_delta", "respawn", "snapshot"}
             /\ f.round = round_id
             /\ f.kind = "brick_delta" => f.brick \notin bricks'
  <2>1. CASE f = last
      BY <1>3, <2>1
  <2>2. CASE f \in Members(pre)
      BY <2>2, EchoIs
  <2>3. CASE f \in Members(after)
      BY <2>3
  <2> QED BY <1>6, <1>8, <1>9, <2>1, <2>2, <2>3
<1>10. \A f \in Members(events) \cup Members(after) : ~Misleads(f)'
    BY <1>2, <1>3, <1>6 DEF Misleads, Respawn, RoundStart
<1>11. UpToDate(before, events, after)
    BY <1>2, <1>6, <1>9, <1>10 DEF UpToDate
<1>12. Announces(events) /\ Mapped(events)
  <2>1. EventAt(last) = ServerAt
      BY <1>3 DEF EventAt, ServerAt, At
  <2> QED BY <1>3, <1>6, <2>1 DEF Announces, Mapped, ServerAt, Turns
<1>13. \A f \in Members(before) \cup Members(after) :
         f.kind \in DirectKind /\ f.round = round_id
    BY <1>9 DEF DirectKind
<1> QED BY <1>6, <1>8, <1>11, <1>12, <1>13, RoomStep

\* The results: an event, and nothing of the round after it.
LEMMA EndStep ==
    ASSUME SyncInv, ~over, NEW pre \in Seq(Frame),
           \A f \in Members(pre) : Echoes(f),
           Emit(pre, <<MatchEnd(round_id)>>, <<Snapshot(round_id)>>),
           over' = TRUE, UNCHANGED <<round_id, bricks, announced>>,
           RoomTyped', EchoInv'
    PROVE  SyncInv'
<1>1. RoomTyped
    BY SyncRoom
<1>2. PICK end : end = MatchEnd(round_id)
    OBVIOUS
<1>3. end \in Inner /\ end.kind = "match_end" /\ end.round = round_id
    BY <1>1, <1>2, FramesMade DEF RoomTyped
<1>4. PICK events : events = <<end>>
    OBVIOUS
<1>5. /\ events \in Seq(Inner) /\ DOMAIN events = {1} /\ events[1] = end
      /\ Members(events) = {end}
    BY <1>3, <1>4, MembersOf
<1>6. PICK after : after = <<Snapshot(round_id)>>
    OBVIOUS
<1>7. /\ after \in Seq(Frame)
      /\ \A f \in Members(after) : f.kind = "snapshot" /\ f.round = round_id
      /\ Emit(pre, events, after)
    BY <1>1, <1>2, <1>4, <1>6, SnapshotIs DEF RoomTyped
<1>8. ASSUME NEW f \in Members(pre) \cup Members(after)
      PROVE  /\ f.kind \in {"brick_delta", "respawn", "snapshot"}
             /\ f.round = round_id
             /\ f.kind = "brick_delta" => f.brick \notin bricks'
    BY <1>7, <1>8, EchoIs
<1>9. UpToDate(pre, events, after)
    BY <1>3, <1>5, <1>8 DEF UpToDate
<1>10. Announces(events) /\ Mapped(events)
  <2>1. PICK p : p = Pos(round_id)
      OBVIOUS
  <2>2. p \in Nat
      BY <1>1, <2>1, PosIs DEF RoomTyped
  <2>3. EventAt(end) = 2 * p + 1 /\ ServerAt = 2 * p + 0 /\ ServerAt' = 2 * p + 1
      BY <1>3, <2>1 DEF EventAt, ServerAt, At
  <2> QED BY <1>3, <1>5, <2>2, <2>3 DEF Announces, Mapped, Turns, HasRound
<1>11. \A f \in Members(pre) \cup Members(after) :
         f.kind \in DirectKind /\ f.round = round_id
    BY <1>8 DEF DirectKind
<1> QED BY <1>5, <1>7, <1>9, <1>10, <1>11, RoomStep

LEMMA StepTick ==
    ASSUME SyncInv, Tick PROVE SyncInv'
<1>1. RoomTyped /\ EchoInv
    BY SyncRoom DEF SyncInv
<1>2. PICK after : after = <<Snapshot(round_id)>>
    OBVIOUS
<1>3. /\ after \in Seq(Frame)
      /\ \A f \in Members(after) : f.kind = "snapshot" /\ f.round = round_id
    BY <1>1, <1>2, SnapshotIs DEF RoomTyped
<1>4. ASSUME over, Emit(<<>>, <<>>, after), UNCHANGED <<roomVars, echoVars>>
      PROVE  SyncInv'
  <2>1. PICK none : none = <<>>
      OBVIOUS
  <2>2. none \in Seq(Frame) /\ Members(none) = {} /\ Emit(none, <<>>, after)
      BY <1>4, <2>1, MembersOf, EmptySeq
  <2>3. RoomTyped' /\ EchoInv'
      BY <1>1, <1>4 DEF RoomTyped, EchoInv, roomVars, echoVars
  <2> QED BY <1>3, <1>4, <2>2, <2>3, QuietStep
<1>5. ASSUME ~over, NEW fl \in BrickFlushes, NEW pre,
             pre = fl.frames \o RespawnFlush.frames,
             \/ QuietTick(pre, fl.echo)
             \/ \E b \in Brick : BrickTick(pre, fl.echo, b)
             \/ \E up \in BOOLEAN : ActorTick(pre, fl.echo, up)
             \/ EndTick(pre, fl.echo)
      PROVE  SyncInv'
  <2>1. pre \in Seq(Frame) /\ \A f \in Members(pre) : Echoes(f)
      BY <1>5, Flushed
  <2>2. /\ fl.echo \in [Brick -> 0 .. BrickRepeats]
        /\ \A q \in Brick : fl.echo[q] > 0 => brick_echo[q] > 0
        /\ RespawnFlush.echo \in {RespawnEcho(n, r, up) :
               n \in 0 .. RespawnRepeats, r \in RoundId, up \in BOOLEAN}
        /\ RespawnFlush.echo.left > 0 =>
               RespawnFlush.echo.frame = Respawn(round_id, announced) /\ ~over
      BY Flushed
  <2>3. PICK e : e = RespawnFlush.echo
      OBVIOUS
  <2>4. PICK d : d = fl.echo
      OBVIOUS
  <2>5. CASE QuietTick(pre, fl.echo)
    <3>1. /\ Emit(pre, <<>>, after) /\ brick_echo' = d /\ respawn_echo' = e
          /\ UNCHANGED roomVars
        BY <1>2, <2>3, <2>4, <2>5 DEF QuietTick
    <3>2. RoomTyped' /\ EchoInv'
        BY <1>1, <1>5, <2>2, <2>3, <2>4, <3>1 DEF RoomTyped, EchoInv, roomVars
    <3>3. \A f \in Members(pre) : Direct(f) /\ (f.kind = "respawn" => Echoes(f))
        BY <2>1, <3>1, EchoIs DEF Direct, DirectKind, roomVars
    <3> QED BY <1>3, <2>1, <3>1, <3>2, <3>3, QuietStep
  <2>6. ASSUME NEW b \in Brick, BrickTick(pre, fl.echo, b) PROVE SyncInv'
    <3>1. /\ Emit(pre \o <<BrickDelta(round_id, b)>>, BrickEvents(b), after)
          /\ bricks' = bricks \ {b}
          /\ brick_echo' \in QueuedEcho(d, b) /\ respawn_echo' = e
          /\ UNCHANGED <<round_id, over, announced>>
        BY <1>2, <2>3, <2>4, <2>6 DEF BrickTick
    <3>2. PICK n \in QueuedEcho(d, b) : brick_echo' = n
        BY <3>1
    <3>3. /\ n \in [Brick -> 0 .. BrickRepeats]
          /\ \A q \in Brick : n[q] > 0 => q = b \/ d[q] > 0
        BY <2>2, <2>4, EchoQueued
    <3>4. RoomTyped' /\ EchoInv'
        BY <1>1, <1>5, <2>2, <2>3, <2>4, <3>1, <3>2, <3>3 DEF RoomTyped, EchoInv
    <3> QED BY <1>3, <1>5, <2>1, <3>1, <3>4, BrickStep
  <2>7. ASSUME NEW up \in BOOLEAN, ActorTick(pre, fl.echo, up) PROVE SyncInv'
    <3>1. /\ Emit(pre \o <<Respawn(round_id, up)>>, <<Respawn(round_id, up)>>, after)
          /\ announced' = up
          /\ brick_echo' = d
          /\ respawn_echo' = RespawnEcho(RespawnRepeats, round_id, up)
          /\ UNCHANGED <<round_id, over, bricks>>
        BY <1>2, <2>4, <2>7 DEF ActorTick, Announce
    <3>2. RoomTyped'
      <4>1. RespawnRepeats \in 0 .. RespawnRepeats
          OBVIOUS
      <4> QED BY <1>1, <2>2, <2>4, <3>1, <4>1 DEF RoomTyped
    <3>3. EchoInv'
        BY <1>1, <1>5, <2>2, <2>4, <3>1 DEF EchoInv, RespawnEcho
    <3> QED BY <1>3, <1>5, <2>1, <3>1, <3>2, <3>3, ActorStep
  <2>8. CASE EndTick(pre, fl.echo)
    <3>1. /\ Emit(pre, <<MatchEnd(round_id)>>, <<Snapshot(round_id)>>)
          /\ over' = TRUE
          /\ brick_echo' = NoBrickEcho
          /\ respawn_echo' = [respawn_echo EXCEPT !.left = 0]
          /\ UNCHANGED <<round_id, bricks, announced>>
        BY <2>8 DEF EndTick, EchoAtRoundEnd
    <3>2. RoomTyped' /\ respawn_echo'.left = 0
      <4>1. PICK n \in 0 .. RespawnRepeats, r \in RoundId, up \in BOOLEAN :
               respawn_echo = RespawnEcho(n, r, up)
          BY <1>1 DEF RoomTyped
      <4>2. respawn_echo' = RespawnEcho(0, r, up) /\ respawn_echo'.left = 0
          BY <3>1, <4>1 DEF RespawnEcho
      <4>3. 0 \in 0 .. RespawnRepeats /\ 0 \in 0 .. BrickRepeats
          OBVIOUS
      <4>4. NoBrickEcho \in [Brick -> 0 .. BrickRepeats]
          BY <4>3 DEF NoBrickEcho
      <4> QED BY <1>1, <3>1, <4>2, <4>3, <4>4 DEF RoomTyped
    <3>3. EchoInv'
        BY <3>1, <3>2 DEF EchoInv, NoBrickEcho
    <3> QED BY <1>5, <2>1, <3>1, <3>2, <3>3, EndStep
  <2> QED BY <1>5, <2>5, <2>6, <2>7, <2>8
<1> QED
  <2>1. CASE over /\ Emit(<<>>, <<>>, after) /\ UNCHANGED <<roomVars, echoVars>>
      BY <1>4, <2>1
  <2>2. CASE ~over /\ \E fl \in BrickFlushes :
                LET pre == fl.frames \o RespawnFlush.frames
                IN  \/ QuietTick(pre, fl.echo)
                    \/ \E b \in Brick : BrickTick(pre, fl.echo, b)
                    \/ \E up \in BOOLEAN : ActorTick(pre, fl.echo, up)
                    \/ EndTick(pre, fl.echo)
    <3>1. PICK fl \in BrickFlushes :
                LET pre == fl.frames \o RespawnFlush.frames
                IN  \/ QuietTick(pre, fl.echo)
                    \/ \E b \in Brick : BrickTick(pre, fl.echo, b)
                    \/ \E up \in BOOLEAN : ActorTick(pre, fl.echo, up)
                    \/ EndTick(pre, fl.echo)
        BY <2>2
    <3>2. PICK pre : pre = fl.frames \o RespawnFlush.frames
        OBVIOUS
    <3>3. \/ QuietTick(pre, fl.echo)
          \/ \E b \in Brick : BrickTick(pre, fl.echo, b)
          \/ \E up \in BOOLEAN : ActorTick(pre, fl.echo, up)
          \/ EndTick(pre, fl.echo)
        BY <3>1, <3>2
    <3> QED BY <1>5, <2>2, <3>2, <3>3
  <2> QED BY <1>2, <2>1, <2>2 DEF Tick

LEMMA StepBrickRequest ==
    ASSUME SyncInv, NEW b \in Brick, BrickRequest(b) PROVE SyncInv'
<1>1. /\ ~over /\ bricks' = bricks \ {b}
      /\ brick_echo' \in QueuedEcho(brick_echo, b)
      /\ Emit(<<BrickDelta(round_id, b)>>, BrickEvents(b), <<>>)
      /\ UNCHANGED <<round_id, over, announced, respawn_echo>>
    BY DEF BrickRequest
<1>2. RoomTyped /\ EchoInv
    BY SyncRoom DEF SyncInv
<1>3. PICK none : none = <<>>
    OBVIOUS
<1>4. none \in Seq(Frame) /\ Members(none) = {}
    BY <1>3, EmptySeq, MembersOf
<1>5. Emit(none \o <<BrickDelta(round_id, b)>>, BrickEvents(b), none)
  <2>1. PICK told : told = <<BrickDelta(round_id, b)>>
      OBVIOUS
  <2>2. told \in Seq(Frame)
    <3>1. BrickDelta(round_id, b) \in Inner
        BY <1>2, FramesMade DEF RoomTyped
    <3>2. BrickDelta(round_id, b) \in Frame
        BY <3>1, FramesMade
    <3> QED BY <2>1, <3>2
  <2>3. none \o told = told
      BY <1>3, <2>2, ConcatEmptySeq
  <2> QED BY <1>1, <1>3, <2>1, <2>3
<1>6. PICK d \in QueuedEcho(brick_echo, b) : brick_echo' = d
    BY <1>1
<1>7. /\ d \in [Brick -> 0 .. BrickRepeats]
      /\ \A q \in Brick : d[q] > 0 => q = b \/ brick_echo[q] > 0
    BY <1>2, EchoQueued DEF RoomTyped
<1>8. RoomTyped' /\ EchoInv'
    BY <1>1, <1>2, <1>6, <1>7 DEF RoomTyped, EchoInv
<1> QED BY <1>1, <1>4, <1>5, <1>8, BrickStep

LEMMA StepRespawnRequest ==
    ASSUME SyncInv, RespawnRequest PROVE SyncInv'
<1>1. PICK up \in BOOLEAN : up = TRUE
    OBVIOUS
<1>2. /\ ~over /\ announced' = up
      /\ respawn_echo' = RespawnEcho(RespawnRepeats, round_id, up)
      /\ Emit(<<Respawn(round_id, up)>>, <<Respawn(round_id, up)>>, <<>>)
      /\ UNCHANGED <<round_id, over, bricks, brick_echo>>
    BY <1>1 DEF RespawnRequest, Announce
<1>3. RoomTyped /\ EchoInv
    BY SyncRoom DEF SyncInv
<1>4. PICK none : none = <<>>
    OBVIOUS
<1>5. none \in Seq(Frame) /\ Members(none) = {}
    BY <1>4, EmptySeq, MembersOf
<1>6. Emit(none \o <<Respawn(round_id, up)>>, <<Respawn(round_id, up)>>, none)
  <2>1. PICK told : told = <<Respawn(round_id, up)>>
      OBVIOUS
  <2>2. told \in Seq(Frame)
    <3>1. PICK f : f = Respawn(round_id, up)
        OBVIOUS
    <3>2. f \in Inner
        BY <1>3, <3>1, FramesMade DEF RoomTyped
    <3>3. f \in Frame
        BY <3>2, FramesMade
    <3>4. told = <<f>>
        BY <2>1, <3>1
    <3> QED BY <3>3, <3>4
  <2>3. none \o told = told
      BY <1>4, <2>2, ConcatEmptySeq
  <2> QED BY <1>2, <1>4, <2>1, <2>3
<1>7. RoomTyped'
  <2>1. RespawnRepeats \in 0 .. RespawnRepeats
      OBVIOUS
  <2> QED BY <1>2, <1>3, <2>1 DEF RoomTyped
<1>8. EchoInv'
    BY <1>2, <1>3 DEF EchoInv, RespawnEcho
<1> QED BY <1>2, <1>5, <1>6, <1>7, <1>8, ActorStep

LEMMA StepDrop ==
    ASSUME SyncInv, Drop PROVE SyncInv'
<1>1. Disconnect /\ UNCHANGED <<roomVars, echoVars>>
    BY DEF Drop
<1>2. RoomTyped' /\ EchoInv'
    BY <1>1, SyncRoom DEF RoomTyped, EchoInv, SyncInv, roomVars, echoVars
<1> QED BY <1>1, <1>2, Disconnected

\* Nothing of a later round is about.
LEMMA NothingLater ==
    ASSUME SyncInv, NEW r \in RoundId, Pos(r) > Pos(round_id)
    PROVE  /\ client.welcome => client.round # r
           /\ \A k \in DOMAIN queue :
                 HasRound(queue[k]) => queue[k].round # r
           /\ \A i \in DOMAIN wire :
                 wire[i].kind \in {"brick_full", "brick_delta", "respawn"} =>
                    wire[i].round # r
<1>1. /\ TypeInv /\ RoundsInv /\ round_id \in RoundId /\ over \in BOOLEAN
      /\ client.round \in RoundId
    BY SyncTyped DEF SyncInv, Client
<1>2. Pos(r) \in Nat /\ Pos(round_id) \in Nat
    BY <1>1, PosIs
<1>3. ASSUME NEW s \in RoundId, NEW b \in BOOLEAN, At(s, b) <= ServerAt
      PROVE  s # r
    BY <1>1, <1>2, <1>3, AtIs DEF ServerAt
<1>4. client.welcome => client.round # r
  <2>1. SUFFICES ASSUME client.welcome PROVE client.round # r
      OBVIOUS
  <2>2. ClientAt <= ServerAt /\ (client.phase = "over") \in BOOLEAN
      BY <1>1, <2>1 DEF RoundsInv, LeadOn
  <2> QED BY <1>1, <1>3, <2>2 DEF ClientAt
<1>5. ASSUME NEW k \in DOMAIN queue, HasRound(queue[k]) PROVE queue[k].round # r
  <2>1. EventAt(queue[k]) <= ServerAt /\ (queue[k].kind = "match_end") \in BOOLEAN
      BY <1>1, <1>5 DEF RoundsInv
  <2>2. queue[k].round \in RoundId
      BY <1>1, <1>5, SyncTyped
  <2> QED BY <1>3, <2>1, <2>2 DEF EventAt
<1>6. ASSUME NEW i \in DOMAIN wire,
             wire[i].kind \in {"brick_full", "brick_delta", "respawn"}
      PROVE  wire[i].round # r
  <2>1. Pos(wire[i].round) <= Pos(round_id)
      BY <1>1, <1>6 DEF RoundsInv
  <2> QED BY <1>2, <2>1
<1> QED BY <1>4, <1>5, <1>6

LEMMA StepResetRound ==
    ASSUME SyncInv, ResetRound PROVE SyncInv'
<1>1. /\ TypeInv /\ WireInv /\ RoundsInv /\ MapInv /\ RoomTyped
    BY SyncRoom DEF SyncInv
<1>2. PICK r : r = NextRound(round_id)
    OBVIOUS
<1>3. /\ over /\ round_id # LastRound /\ round_id' = r /\ over' = FALSE
      /\ bricks' = Brick /\ announced' = TRUE
      /\ brick_echo' = NoBrickEcho
      /\ respawn_echo' = [respawn_echo EXCEPT !.left = 0]
      /\ Emit(<<>>, <<RoundStart(r), BrickFull(r, Brick)>>, <<>>)
    BY <1>2 DEF ResetRound, EchoAtRoundEnd, RoundState
<1>4. /\ r \in RoundId /\ Pos(r) = Pos(round_id) + 1 /\ Pos(r) <= Pos(LastRound)
      /\ Pos(round_id) \in Nat /\ Pos(r) \in Nat
  <2>1. r \in RoundId /\ Pos(r) = Pos(round_id) + 1 /\ Pos(r) <= Pos(LastRound)
      BY <1>1, <1>2, <1>3, PosNext DEF RoomTyped
  <2> QED BY <1>1, <2>1, PosIs DEF RoomTyped
<1>5. RoomTyped' /\ EchoInv'
  <2>1. PICK n \in 0 .. RespawnRepeats, q \in RoundId, up \in BOOLEAN :
           respawn_echo = RespawnEcho(n, q, up)
      BY <1>1 DEF RoomTyped
  <2>2. respawn_echo' = RespawnEcho(0, q, up) /\ respawn_echo'.left = 0
      BY <1>3, <2>1 DEF RespawnEcho
  <2>3. 0 \in 0 .. RespawnRepeats /\ 0 \in 0 .. BrickRepeats
      OBVIOUS
  <2>4. NoBrickEcho \in [Brick -> 0 .. BrickRepeats]
      BY <2>3 DEF NoBrickEcho
  <2>5. RoomTyped'
    <3>1. /\ over' \in BOOLEAN /\ announced' \in BOOLEAN
          /\ bricks' \in SUBSET Brick
        BY <1>3
    <3>2. brick_echo' \in [Brick -> 0 .. BrickRepeats]
        BY <1>3, <2>4
    <3>3. respawn_echo' \in {RespawnEcho(m, s, u) :
             m \in 0 .. RespawnRepeats, s \in RoundId, u \in BOOLEAN}
        BY <2>2, <2>3
    <3> QED BY <1>3, <1>4, <3>1, <3>2, <3>3 DEF RoomTyped
  <2> QED BY <1>3, <2>2, <2>5 DEF EchoInv, NoBrickEcho
<1>6. PICK none : none = <<>>
    OBVIOUS
<1>7. none \in Seq(Frame) /\ Members(none) = {}
    BY <1>6, EmptySeq, MembersOf
<1>8. PICK start : start = RoundStart(r)
    OBVIOUS
<1>9. PICK map : map = BrickFull(r, Brick)
    OBVIOUS
<1>10. /\ start \in Inner /\ start.kind = "round_start" /\ start.round = r
       /\ map \in Inner /\ map.kind = "brick_full" /\ map.round = r
       /\ map.maze = Brick
    BY <1>4, <1>8, <1>9, FramesMade
<1>11. PICK events : events = <<start, map>>
    OBVIOUS
<1>12. /\ events \in Seq(Inner) /\ DOMAIN events = {1, 2}
       /\ events[1] = start /\ events[2] = map /\ Members(events) = {start, map}
    BY <1>10, <1>11, MembersOf
<1>13. Emit(none, events, none)
    BY <1>3, <1>6, <1>8, <1>9, <1>11
<1>14. CASE Disconnect
    BY <1>5, <1>14, Disconnected
<1>15. CASE ~Disconnect
  <2>1. SentBurst(none, events, none)
      BY <1>1, <1>7, <1>12, <1>13, <1>15, Emitted DEF SentBurst
  <2>2. RoomBurst(none, events, none)
      BY <1>7, <2>1 DEF RoomBurst
  <2>3. UNCHANGED client
      BY <2>1 DEF SentBurst
  <2>4. Announces(events)
    <3>1. PICK p : p = Pos(round_id)
        OBVIOUS
    <3>2. /\ ServerAt = 2 * p + 1 /\ ServerAt' = 2 * (p + 1) + 0
          /\ EventAt(start) = 2 * (p + 1) + 0 /\ EventAt(map) = 2 * (p + 1) + 0
        BY <1>3, <1>4, <1>10, <3>1 DEF ServerAt, EventAt, At
    <3>3. p \in Nat
        BY <1>4, <3>1
    <3>4. Turns(start) /\ ~Turns(map)
        BY <1>10 DEF Turns
    <3> QED BY <1>12, <3>2, <3>3, <3>4 DEF Announces
  <2>5. Mapped(events)
      BY <1>10, <1>12 DEF Mapped
  <2>6. TypeInv'
      BY <1>1, <1>5, <2>1, BurstTypes DEF RoomTyped
  <2>7. WireInv'
      BY <1>1, <2>2, RoomBurstWire
  <2>8. RoundsInv'
      BY <1>1, <1>5, <2>2, <2>4, BurstRounds DEF RoomTyped
  <2>9. MapInv'
      BY <1>1, <2>1, <2>5, BurstMaps
  <2>10. Pos(r) > Pos(round_id)
      BY <1>4
  <2>11. /\ client.welcome => client.round # r
         /\ \A k \in DOMAIN queue : HasRound(queue[k]) => queue[k].round # r
         /\ \A i \in DOMAIN wire :
               wire[i].kind \in {"brick_full", "brick_delta", "respawn"} =>
                  wire[i].round # r
      BY <1>4, <2>10, NothingLater
  <2>12. ASSUME NEW k \in DOMAIN queue'
         PROVE  \/ queue'[k] = start \/ queue'[k] = map
                \/ HasRound(queue'[k]) => queue'[k].round # r
      BY <1>1, <1>12, <2>1, <2>11, Sources
  <2>13. ASSUME NEW i \in DOMAIN wire'
         PROVE  \/ wire'[i].kind = "event"
                \/ wire'[i].kind \in {"brick_full", "brick_delta", "respawn"} =>
                     wire'[i].round # r
      BY <1>1, <1>7, <2>1, <2>11, Sources
  <2>14. \A i \in DOMAIN wire' : wire'[i].kind # "round_start"
      BY <2>7 DEF WireInv
  <2>15. LacksInv'
    <3>1. client'.map_ready => client'.round # r
        BY <1>1, <2>3, <2>11 DEF WireInv
    <3>2. ASSUME NEW k \in DOMAIN queue' PROVE ~Lacks(queue[k])'
      <4>1. CASE queue'[k] = start
          BY <1>10, <4>1 DEF Lacks
      <4>2. CASE queue'[k] = map
          BY <1>3, <1>10, <4>2 DEF Lacks
      <4>3. CASE HasRound(queue'[k]) => queue'[k].round # r
          BY <1>3, <4>3 DEF Lacks, HasRound
      <4> QED BY <2>12, <4>1, <4>2, <4>3
    <3>3. ASSUME NEW i \in DOMAIN wire' PROVE ~Lacks(wire[i])'
        BY <1>3, <2>13 DEF Lacks
    <3> QED BY <1>3, <3>1, <3>2, <3>3 DEF LacksInv
  <2>16. FallenInv'
      BY <1>3 DEF FallenInv
  <2>17. ActorInv'
    <3>1. client'.welcome => client'.round # r
        BY <2>3, <2>11
    <3>2. ASSUME NEW k \in DOMAIN queue' PROVE ~Misleads(queue[k])'
      <4>1. \A f : Misleads(f)' => f.kind = "respawn" /\ f.round = r
          BY <1>3 DEF Misleads, Respawn
      <4>2. PICK f : f = queue'[k]
          OBVIOUS
      <4>3. ~Misleads(f)'
          BY <1>10, <2>12, <4>1, <4>2 DEF HasRound
      <4> QED BY <4>2, <4>3 DEF Misleads
    <3>3. ASSUME NEW i \in DOMAIN wire' PROVE ~Misleads(wire[i])'
      <4>1. \A f : Misleads(f)' => f.kind = "respawn" /\ f.round = r
          BY <1>3 DEF Misleads, Respawn
      <4>2. PICK f : f = wire'[i]
          OBVIOUS
      <4>3. ~Misleads(f)'
          BY <2>13, <4>1, <4>2
      <4> QED BY <4>2, <4>3 DEF Misleads
    <3> QED BY <1>3, <3>1, <3>2, <3>3 DEF ActorInv
  <2> QED BY <1>5, <2>6, <2>7, <2>8, <2>9, <2>15, <2>16, <2>17 DEF SyncInv
<1> QED BY <1>14, <1>15

\* WELCOME leads the burst.
LEMMA WelcomeFirst ==
    ASSUME TypeInv, wire = <<>>, ~Disconnect,
           NEW welcome \in Frame, NEW events \in Seq(Inner),
           NEW after \in Seq(Frame), Emit(<<welcome>>, events, after),
           \A f \in Members(after) : f.kind # "welcome"
    PROVE  \A j \in DOMAIN wire' : wire'[j].kind = "welcome" => j = 1
<1> DEFINE first == IF queue = <<>> /\ events # <<>>
                    THEN <<Event(Head(events))>> ELSE <<>>
           before == <<welcome>>
           fs == before \o first \o after
<1>1. Transmit(fs)
    BY DEF Emit
<1>2. /\ first \in Seq(Frame)
      /\ \A f \in Members(first) : f.kind = "event"
  <2>1. CASE queue = <<>> /\ events # <<>>
    <3>1. Head(events) \in Inner
        BY <2>1, HeadTailProperties
    <3>2. PICK e : e = Event(Head(events))
        OBVIOUS
    <3>3. e \in Frame /\ e.kind = "event"
        BY <3>1, <3>2, FramesMade
    <3>4. first = <<e>>
        BY <2>1, <3>2
    <3> HIDE DEF first
    <3> QED BY <3>3, <3>4, MembersOf
  <2>2. CASE ~(queue = <<>> /\ events # <<>>)
    <3>1. first = <<>>
        BY <2>2
    <3> HIDE DEF first
    <3> QED BY <3>1, MembersOf, EmptySeq
  <2> QED BY <2>1, <2>2
<1>3. /\ before \in Seq(Frame) /\ Len(before) = 1
    OBVIOUS
<1> HIDE DEF first, before
<1>4. /\ fs \in Seq(Frame) /\ DOMAIN fs \subseteq Nat
      /\ \A x \in DOMAIN fs :
            \/ x <= Len(before) /\ fs[x] \in Members(before)
            \/ fs[x] \in Members(first) \/ fs[x] \in Members(after)
    BY <1>2, <1>3, BurstParts
<1>5. DOMAIN fs = 1 .. Len(fs) /\ Len(fs) \in Nat
    BY <1>4, LenProperties
<1> HIDE DEF fs
<1>6. /\ wire' \in Seq(Frame)
      /\ \A i : Added(i, wire) => i \in Nat
      /\ \E at : /\ \A i : Added(i, wire) =>
                       at[i] \in DOMAIN fs /\ wire'[i] = fs[at[i]]
                 /\ \A i, j :
                     Added(i, wire) /\ Added(j, wire) /\ i < j => at[i] < at[j]
    BY <1>1, <1>4, Transmitted
<1>7. PICK at : /\ \A i : Added(i, wire) =>
                      at[i] \in DOMAIN fs /\ wire'[i] = fs[at[i]]
                /\ \A i, j :
                     Added(i, wire) /\ Added(j, wire) /\ i < j => at[i] < at[j]
    BY <1>6
<1>8. \A i \in DOMAIN wire' : Added(i, wire)
    BY DEF Added
<1> SUFFICES ASSUME NEW j \in DOMAIN wire', wire'[j].kind = "welcome"
             PROVE  j = 1
    OBVIOUS
<1>9. at[j] <= 1
    BY <1>2, <1>3, <1>4, <1>7, <1>8
<1>10. DOMAIN wire' = 1 .. Len(wire') /\ Len(wire') \in Nat
    BY <1>6, LenProperties
<1>11. CASE j # 1
  <2>1. 1 \in DOMAIN wire' /\ 1 < j
      BY <1>10, <1>11
  <2>2. at[1] < at[j] /\ at[1] \in DOMAIN fs /\ at[j] \in DOMAIN fs
      BY <1>7, <1>8, <2>1
  <2> QED BY <1>5, <1>9, <2>2
<1> QED BY <1>11

\* The events of a HELLO are about the point where the server is.
Recounts(events) ==
    /\ \A l \in DOMAIN events :
          /\ HasRound(events[l]) /\ EventAt(events[l]) = ServerAt
          /\ Turns(events[l]) => l = 1

LEMMA HelloStep ==
    ASSUME SyncInv, session = "joining", RoomTyped', EchoInv',
           NEW welcome, welcome = WelcomeFrame(round_id, IF over THEN "over" ELSE "playing"),
           NEW events \in Seq(Inner), NEW after \in Seq(Frame),
           \A f \in Members(after) : f.kind = "respawn" /\ f.round = round_id,
           Emit(<<welcome>>, events, after), Recounts(events), Mapped(events),
           ~over => 1 \in DOMAIN events /\ events[1] = RoundStart(round_id),
           UNCHANGED <<round_id, over, bricks>>,
           \A f \in Members(events) : f.kind = "brick_full" => f.maze = bricks,
           \A f \in Members(events) : f.kind # "brick_delta",
           ~over => /\ announced' = TRUE
                    /\ Respawn(round_id, TRUE) \in Members(events)
                    /\ Respawn(round_id, FALSE) \notin Members(events) \cup Members(after)
    PROVE  SyncInv'
<1>1. /\ TypeInv /\ WireInv /\ RoundsInv /\ MapInv /\ RoomTyped
      /\ LacksInv /\ FallenInv /\ ActorInv
    BY SyncRoom DEF SyncInv
<1>2. /\ queue = <<>> /\ wire = <<>> /\ ~client.welcome /\ ~head_applied
    BY <1>1 DEF WireInv
<1>3. /\ Len(queue) = 0 /\ DOMAIN queue = {} /\ DOMAIN wire = {}
    BY <1>2, EmptySeq
<1>4. CASE Disconnect
    BY <1>4, Disconnected
<1>5. CASE ~Disconnect
  <2>1. welcome \in Frame /\ welcome.kind = "welcome" /\ welcome.round = round_id
        /\ welcome.phase = IF over THEN "over" ELSE "playing"
    <3>1. PICK ph : ph = IF over THEN "over" ELSE "playing"
        OBVIOUS
    <3>2. ph \in Phase /\ round_id \in RoundId
        BY <1>1, <3>1 DEF Phase, RoomTyped
    <3>3. WelcomeFrame(round_id, ph) \in {WelcomeFrame(q, x) : q \in RoundId, x \in Phase}
        BY <3>2
    <3>4. welcome = WelcomeFrame(round_id, ph)
        BY <3>1
    <3>5. WelcomeFrame(round_id, ph) \in Frame
        BY <3>3 DEF Frame
    <3>6. /\ WelcomeFrame(round_id, ph).kind = "welcome"
          /\ WelcomeFrame(round_id, ph).round = round_id
          /\ WelcomeFrame(round_id, ph).phase = ph
        BY DEF WelcomeFrame
    <3> QED BY <3>1, <3>4, <3>5, <3>6
  <2>2. PICK before : before = <<welcome>>
      OBVIOUS
  <2>3. /\ before \in Seq(Frame) /\ Members(before) = {welcome}
        /\ Emit(before, events, after)
      BY <2>1, <2>2, MembersOf
  <2>4. \A f \in Members(before) \cup Members(after) :
           f.kind \in {"welcome", "respawn"}
      BY <2>1, <2>3
  <2>5. SentBurst(before, events, after)
    <3>1. \A f \in Members(before) \cup Members(after) : ~IsEvent(f)
        BY <2>4 DEF IsEvent
    <3> QED BY <1>1, <1>5, <2>3, <3>1, Emitted DEF SentBurst
  <2>6. /\ Queued(events) /\ Burst(before, events, after)
        /\ UNCHANGED <<head_applied, client>>
      BY <2>5 DEF SentBurst
  <2>7. TypeInv'
      BY <1>1, <2>5, BurstTypes DEF RoomTyped
  <2>8. WireInv'
    <3>1. \A j \in DOMAIN wire' : wire'[j].kind = "welcome" => j = 1
      <4>1. \A f \in Members(after) : f.kind # "welcome"
          OBVIOUS
      <4> QED BY <1>1, <1>2, <1>5, <2>1, <4>1, WelcomeFirst
    <3>2. \A j : Added(j, wire) /\ wire'[j].kind = "welcome" =>
             j = 1 /\ ~client.welcome
        BY <1>2, <3>1 DEF Added
    <3>3. \A f \in Members(before) \cup Members(after) :
             f.kind \in DirectKind \cup {"welcome"}
        BY <2>4 DEF DirectKind
    <3> QED BY <1>1, <2>5, <3>2, <3>3, BurstWire
  <2>9. MapInv'
      BY <1>1, <2>5, BurstMaps
  <2>10. SameRound(before, events, after)
    <3>1. \A f \in Members(before) \cup Members(events) \cup Members(after) :
             /\ f.kind = "brick_full" => f.maze = bricks'
             /\ f.kind = "brick_delta" => f.brick \notin bricks'
        BY <2>4
    <3>2. ASSUME ~over'
          PROVE  \A f \in Members(before) \cup Members(events) \cup Members(after) :
                    ~Misleads(f)'
      <4>1. \A f : Misleads(f)' => f = Respawn(round_id, FALSE)
          BY <3>2 DEF Misleads
      <4>2. welcome # Respawn(round_id, FALSE)
          BY <2>1 DEF Respawn
      <4> QED BY <2>3, <3>2, <4>1, <4>2
    <3>3. ~over' /\ announced' # announced =>
             Respawn(round_id, announced') \in Members(events)
        OBVIOUS
    <3> QED BY <2>5, <3>1, <3>2, <3>3 DEF SameRound, UpToDate
  <2>11. LacksInv' /\ FallenInv' /\ ActorInv'
      BY <1>1, <2>10, SameRoundLacks, SameRoundFallen, SameRoundActor
  <2>12. /\ ServerAt \in Nat /\ ServerAt' = ServerAt
      BY <1>1, SyncTyped DEF ServerAt
  <2>13. ASSUME NEW k \in DOMAIN queue'
         PROVE  /\ k \in DOMAIN events /\ queue'[k] = events[k] /\ Waits(k)'
                /\ HasRound(queue'[k]) /\ EventAt(queue'[k]) = ServerAt
                /\ Turns(queue'[k]) => k = 1
    <3>1. Added(k, queue)
        BY <1>3, <2>13 DEF Added
    <3>2. k \in Nat /\ k - Len(queue) \in DOMAIN events
          /\ queue'[k] = events[k - Len(queue)]
        BY <2>6, <3>1 DEF Queued
    <3>3. k \in DOMAIN events /\ queue'[k] = events[k]
        BY <1>3, <3>2
    <3> QED BY <1>2, <2>6, <2>13, <3>3 DEF Recounts, Waits
  <2>14. RoundsInv'
    <3>1. Pos(round_id') <= Pos(LastRound)
        BY DEF RoomTyped
    <3>2. \A k \in DOMAIN queue' :
             HasRound(queue'[k]) => EventAt(queue'[k]) <= ServerAt'
        BY <2>12, <2>13
    <3>3. \A i, j \in DOMAIN queue' :
             i < j /\ HasRound(queue'[i]) /\ HasRound(queue'[j]) =>
               /\ EventAt(queue'[i]) <= EventAt(queue'[j])
               /\ Turns(queue'[j]) => EventAt(queue'[i]) < EventAt(queue'[j])
      <4>1. \A j \in DOMAIN queue' : j \in Nat /\ j >= 1
        <5>1. queue' \in Seq(Inner)
            BY <2>6 DEF Queued
        <5>2. DOMAIN queue' = 1 .. Len(queue') /\ Len(queue') \in Nat
            BY <5>1, LenProperties
        <5> QED BY <5>2
      <4> QED BY <2>12, <2>13, <4>1
    <3>4. ASSUME NEW i \in DOMAIN wire',
                 wire'[i].kind \in {"brick_full", "brick_delta", "respawn"}
          PROVE  Pos(wire'[i].round) <= Pos(round_id')
      <4>1. wire'[i] \in Members(before) \cup Members(after)
          BY <1>1, <1>3, <2>5, <3>4, Sources
      <4>2. wire'[i].round = round_id'
          BY <2>1, <2>3, <4>1
      <4>3. Pos(round_id') \in Nat
          BY PosIs DEF RoomTyped
      <4> QED BY <4>2, <4>3
    <3>5. ASSUME NEW v, v = ServerAt PROVE LeadOn(v)'
        BY <2>12, <2>13, <3>5 DEF LeadOn
    <3>6. ASSUME NEW i \in DOMAIN wire', wire'[i].kind = "welcome"
          PROVE  /\ LeadOn(At(wire[i].round, wire[i].phase = "over"))'
                 /\ wire'[i].phase = "playing" => StartWaits(wire[i].round)'
      <4>1. wire'[i] = welcome
        <5>1. wire'[i] \in Members(before) \cup Members(after)
            BY <1>1, <1>3, <2>5, <3>6, Sources
        <5> QED BY <2>3, <3>6, <5>1
      <4>2. (welcome.phase = "over") = over
          BY <1>1, <2>1 DEF RoomTyped
      <4>3. At(wire'[i].round, wire'[i].phase = "over") = ServerAt
          BY <2>1, <4>1, <4>2 DEF ServerAt
      <4>4. PICK v : v = ServerAt
          OBVIOUS
      <4>5. LeadOn(v)'
          BY <3>5, <4>4
      <4>6. LeadOn(At(wire[i].round, wire[i].phase = "over"))'
          BY <4>3, <4>4, <4>5 DEF LeadOn
      <4>7. ASSUME wire'[i].phase = "playing" PROVE StartWaits(wire[i].round)'
        <5>1. ~over
            BY <2>1, <4>1, <4>7
        <5>2. 1 \in DOMAIN events /\ events[1] = RoundStart(round_id)
            BY <5>1
        <5>3. PICK k : k = Len(queue) + 1
            OBVIOUS
        <5>4. Added(k, queue) /\ queue'[k] = events[1]
            BY <2>6, <5>2, <5>3 DEF Queued
        <5>5. k \in DOMAIN queue' /\ Waits(k)'
            BY <2>13, <5>4 DEF Added
        <5> QED BY <2>1, <4>1, <5>2, <5>4, <5>5 DEF StartWaits
      <4> QED BY <4>6, <4>7
    <3>7. ~client'.welcome
        BY <1>2, <2>6
    <3> QED BY <3>1, <3>2, <3>3, <3>4, <3>6, <3>7 DEF RoundsInv
  <2> QED BY <2>7, <2>8, <2>9, <2>11, <2>14 DEF SyncInv
<1> QED BY <1>4, <1>5

LEMMA StepHello ==
    ASSUME SyncInv, Hello PROVE SyncInv'
<1>1. RoomTyped /\ EchoInv
    BY SyncRoom DEF SyncInv
<1>2. PICK welcome : welcome = WelcomeFrame(round_id, IF over THEN "over" ELSE "playing")
    OBVIOUS
<1>3. session = "joining" /\ UNCHANGED <<round_id, over, bricks, brick_echo>>
    BY DEF Hello
<1>4. ASSUME over, Emit(<<welcome>>, <<MatchEnd(round_id)>>, <<>>),
             UNCHANGED <<announced, respawn_echo>>
      PROVE  SyncInv'
  <2>1. PICK end : end = MatchEnd(round_id)
      OBVIOUS
  <2>2. end \in Inner /\ end.kind = "match_end" /\ end.round = round_id
      BY <1>1, <2>1, FramesMade DEF RoomTyped
  <2>3. PICK events : events = <<end>>
      OBVIOUS
  <2>4. /\ events \in Seq(Inner) /\ DOMAIN events = {1} /\ events[1] = end
        /\ Members(events) = {end}
      BY <2>2, <2>3, MembersOf
  <2>5. PICK none : none = <<>>
      OBVIOUS
  <2>6. none \in Seq(Frame) /\ Members(none) = {}
      BY <2>5, EmptySeq, MembersOf
  <2>7. Emit(<<welcome>>, events, none)
      BY <1>4, <2>1, <2>3, <2>5
  <2>8. RoomTyped' /\ EchoInv'
      BY <1>1, <1>3, <1>4 DEF RoomTyped, EchoInv
  <2>9. Recounts(events) /\ Mapped(events)
    <3>1. EventAt(end) = ServerAt
        BY <1>4, <2>2 DEF EventAt, ServerAt, At
    <3> QED BY <2>2, <2>4, <3>1 DEF Recounts, Mapped, HasRound
  <2> QED BY <1>2, <1>3, <1>4, <2>2, <2>4, <2>6, <2>7, <2>8, <2>9, HelloStep
<1>5. ASSUME ~over,
             Emit(<<welcome>>,
                  <<RoundStart(round_id), BrickFull(round_id, bricks)>>
                     \o <<Respawn(round_id, TRUE)>>,
                  <<Respawn(round_id, TRUE)>>),
             Announce(round_id, TRUE)
      PROVE  SyncInv'
  <2>1. PICK start : start = RoundStart(round_id)
      OBVIOUS
  <2>2. PICK map : map = BrickFull(round_id, bricks)
      OBVIOUS
  <2>3. PICK up \in BOOLEAN : up = TRUE
      OBVIOUS
  <2>4. PICK spawn : spawn = Respawn(round_id, up)
      OBVIOUS
  <2>5. /\ start \in Inner /\ start.kind = "round_start" /\ start.round = round_id
        /\ map \in Inner /\ map.kind = "brick_full" /\ map.round = round_id
        /\ map.maze = bricks
        /\ spawn \in Inner /\ spawn.kind = "respawn" /\ spawn.round = round_id
        /\ spawn.final = TRUE
        /\ spawn \in Frame
    <3>1. start \in Inner /\ start.kind = "round_start" /\ start.round = round_id
        BY <1>1, <2>1, FramesMade DEF RoomTyped
    <3>2. map \in Inner /\ map.kind = "brick_full" /\ map.round = round_id
          /\ map.maze = bricks
        BY <1>1, <2>2, FramesMade DEF RoomTyped
    <3>3. spawn \in Inner /\ spawn.kind = "respawn" /\ spawn.round = round_id
          /\ spawn.final = up
        BY <1>1, <2>4, FramesMade DEF RoomTyped
    <3>4. spawn \in Frame
        BY <3>3, FramesMade
    <3> QED BY <2>3, <3>1, <3>2, <3>3, <3>4
  <2>6. PICK state : state = <<start, map>>
      OBVIOUS
  <2>7. PICK spawns : spawns = <<spawn>>
      OBVIOUS
  <2>8. PICK events : events = state \o spawns
      OBVIOUS
  <2>9. /\ state \in Seq(Inner) /\ spawns \in Seq(Inner) /\ spawns \in Seq(Frame)
        /\ Members(state) = {start, map} /\ Members(spawns) = {spawn}
      BY <2>5, <2>6, <2>7, MembersOf
  <2>10. /\ events \in Seq(Inner) /\ Members(events) = {start, map, spawn}
    <3>1. state \o spawns \in Seq(Inner)
          /\ Members(state \o spawns) = Members(state) \cup Members(spawns)
        BY <2>9, MembersOfBoth
    <3> QED BY <2>8, <2>9, <3>1
  <2>11. /\ Len(state) = 2 /\ state[1] = start /\ state[2] = map
         /\ Len(spawns) = 1 /\ spawns[1] = spawn
      BY <2>6, <2>7
  <2>12. /\ DOMAIN events = {1, 2, 3}
         /\ events[1] = start /\ events[2] = map /\ events[3] = spawn
    <3>1. /\ Len(events) = Len(state) + Len(spawns)
          /\ \A i \in 1 .. Len(state) + Len(spawns) : events[i] =
                IF i <= Len(state) THEN state[i] ELSE spawns[i - Len(state)]
        BY <2>8, <2>9, ConcatProperties
    <3>2. DOMAIN events = 1 .. 3
        BY <2>10, <2>11, <3>1, LenProperties
    <3> QED BY <2>11, <3>1, <3>2
  <2>13. Emit(<<welcome>>, events, spawns)
      BY <1>5, <2>1, <2>2, <2>3, <2>4, <2>6, <2>7, <2>8
  <2>14. announced' = up /\ respawn_echo' = RespawnEcho(RespawnRepeats, round_id, up)
      BY <1>5, <2>3 DEF Announce
  <2>15. RoomTyped'
    <3>1. RespawnRepeats \in 0 .. RespawnRepeats
        OBVIOUS
    <3> QED BY <1>1, <1>3, <2>14, <3>1 DEF RoomTyped
  <2>16. EchoInv'
      BY <1>1, <1>3, <1>5, <2>14 DEF EchoInv, RespawnEcho
  <2>17. Recounts(events) /\ Mapped(events)
    <3>1. EventAt(start) = ServerAt /\ EventAt(map) = ServerAt /\ EventAt(spawn) = ServerAt
        BY <1>5, <2>5 DEF EventAt, ServerAt, At
    <3> QED BY <2>5, <2>12, <3>1 DEF Recounts, Mapped, HasRound, Turns
  <2>18. /\ Respawn(round_id, TRUE) \in Members(events)
         /\ Respawn(round_id, FALSE) \notin Members(events) \cup Members(spawns)
    <3>1. Respawn(round_id, TRUE) = spawn
        BY <2>3, <2>4
    <3>2. Respawn(round_id, FALSE).final = FALSE
          /\ Respawn(round_id, FALSE).kind = "respawn"
        BY DEF Respawn
    <3> QED BY <2>5, <2>9, <2>10, <3>1, <3>2
  <2>19. announced' = TRUE
      BY <2>3, <2>14
  <2>20. \A f \in Members(events) :
            /\ f.kind = "brick_full" => f.maze = bricks
            /\ f.kind # "brick_delta"
      BY <2>5, <2>10
  <2>21. \A f \in Members(spawns) : f.kind = "respawn" /\ f.round = round_id
      BY <2>5, <2>9
  <2> QED BY <1>2, <1>3, <2>1, <2>9, <2>10, <2>12, <2>13, <2>15, <2>16, <2>17,
             <2>18, <2>19, <2>20, <2>21, HelloStep
<1> QED
  <2>1. CASE over
      BY <1>2, <1>4, <2>1 DEF Hello, RoundState
  <2>2. CASE ~over
      BY <1>2, <1>5, <2>2 DEF Hello, RoundState
  <2> QED BY <2>1, <2>2

----------------------------------------------------------------------------
(* The reliable stream                                                     *)

\* The server's side of the stream moves: s events leave its head, at most
\* the event that is the head now is sent.
Serves(s) ==
    /\ UNCHANGED <<session, roomVars, echoVars, client>>
    /\ \A k \in DOMAIN queue' :
          /\ k \in Nat /\ k + s \in DOMAIN queue /\ queue'[k] = queue[k + s]
          /\ Waits(k)' => Waits(k + s)
    /\ \A k \in DOMAIN queue :
          k > s => k - s \in DOMAIN queue' /\ queue'[k - s] = queue[k]
    /\ \A k : Waits(k) => k \in Nat /\ k > s /\ Waits(k - s)'
    /\ \A i \in DOMAIN wire : i \in DOMAIN wire' /\ wire'[i] = wire[i]
    /\ \A i : Added(i, wire) => wire'[i].kind = "event"
    /\ \A k : \A i \in DOMAIN wire : WaitsBehind(k, i) => WaitsBehind(k - s, i)'

LEMMA ServeKeeps ==
    ASSUME SyncInv, TypeInv', WireInv', NEW s \in {0, 1}, Serves(s)
    PROVE  SyncInv'
<1>1. /\ TypeInv /\ WireInv /\ RoundsInv /\ MapInv
      /\ LacksInv /\ FallenInv /\ ActorInv /\ EchoInv
      /\ \A k \in DOMAIN queue : k \in Nat
    BY SyncTyped DEF SyncInv
<1>2. /\ round_id' = round_id /\ over' = over /\ bricks' = bricks
      /\ announced' = announced /\ client' = client /\ session' = session
      /\ brick_echo' = brick_echo /\ respawn_echo' = respawn_echo
    BY DEF Serves, roomVars, echoVars
<1>3. /\ \A k \in DOMAIN queue' :
            /\ k \in Nat /\ k + s \in DOMAIN queue /\ queue'[k] = queue[k + s]
            /\ Waits(k)' => Waits(k + s)
      /\ \A k \in DOMAIN queue :
            k > s => k - s \in DOMAIN queue' /\ queue'[k - s] = queue[k]
    BY DEF Serves
<1>4. ASSUME NEW k, Waits(k)
      PROVE  /\ k \in DOMAIN queue /\ k - s \in DOMAIN queue'
             /\ queue'[k - s] = queue[k] /\ Waits(k - s)'
    BY <1>3, <1>4 DEF Serves, Waits
<1>5. \A i \in DOMAIN wire' :
         \/ i \in DOMAIN wire /\ wire'[i] = wire[i]
         \/ wire'[i].kind = "event"
    BY DEF Serves, Added
<1>6. \A k : \A i \in DOMAIN wire : WaitsBehind(k, i) => WaitsBehind(k - s, i)'
    BY DEF Serves
<1>7. ServerAt' = ServerAt /\ ClientAt' = ClientAt
    BY <1>2 DEF ServerAt, ClientAt
<1>8. ASSUME NEW v, LeadOn(v) PROVE LeadOn(v)'
  <2>1. ASSUME NEW k \in DOMAIN queue', Waits(k)', HasRound(queue'[k])
        PROVE  v <= EventAt(queue'[k])
      BY <1>3, <1>8, <2>1 DEF LeadOn
  <2>2. ASSUME NEW u \in v + 1 .. ServerAt
        PROVE  \E k \in DOMAIN queue' :
                  Waits(k)' /\ Turns(queue'[k]) /\ EventAt(queue'[k]) = u
    <3>1. PICK k \in DOMAIN queue :
             Waits(k) /\ Turns(queue[k]) /\ EventAt(queue[k]) = u
        BY <1>8, <2>2 DEF LeadOn
    <3>2. PICK m : m = k - s
        OBVIOUS
    <3>3. m \in DOMAIN queue' /\ queue'[m] = queue[k] /\ Waits(m)'
        BY <1>4, <3>1, <3>2
    <3> QED BY <3>1, <3>3
  <2> QED BY <1>7, <1>8, <2>1, <2>2 DEF LeadOn
<1>9. ASSUME NEW r, StartWaits(r) PROVE StartWaits(r)'
  <2>1. PICK k \in DOMAIN queue : Waits(k) /\ queue[k] = RoundStart(r)
      BY <1>9 DEF StartWaits
  <2>2. PICK m : m = k - s
      OBVIOUS
  <2>3. m \in DOMAIN queue' /\ queue'[m] = queue[k] /\ Waits(m)'
      BY <1>4, <2>1, <2>2
  <2> QED BY <2>1, <2>3 DEF StartWaits, RoundStart
<1>10. RoundsInv'
  <2>1. ASSUME NEW i \in DOMAIN wire', wire'[i].kind = "welcome"
        PROVE  /\ LeadOn(At(wire[i].round, wire[i].phase = "over"))'
               /\ wire'[i].phase = "playing" => StartWaits(wire[i].round)'
    <3>1. i \in DOMAIN wire /\ wire'[i] = wire[i]
        BY <1>5, <2>1
    <3>2. PICK v : v = At(wire[i].round, wire[i].phase = "over")
        OBVIOUS
    <3>3. PICK r : r = wire[i].round
        OBVIOUS
    <3>4. LeadOn(v) /\ (wire[i].phase = "playing" => StartWaits(r))
        BY <1>1, <2>1, <3>1, <3>2, <3>3 DEF RoundsInv
    <3>5. LeadOn(v)' /\ (wire[i].phase = "playing" => StartWaits(r)')
        BY <1>8, <1>9, <3>4
    <3>6. v = At(wire'[i].round, wire'[i].phase = "over") /\ r = wire'[i].round
        BY <3>1, <3>2, <3>3
    <3>7. LeadOn(At(wire[i].round, wire[i].phase = "over"))'
        BY <3>5, <3>6 DEF LeadOn
    <3>8. wire'[i].phase = "playing" => StartWaits(wire[i].round)'
        BY <3>1, <3>5, <3>6 DEF StartWaits
    <3> QED BY <3>7, <3>8
  <2>2. ASSUME client'.welcome
        PROVE  /\ LeadOn(ClientAt)'
               /\ client'.phase = "playing" /\ ~client'.authorized =>
                     StartWaits(client.round)'
    <3>1. PICK v : v = ClientAt
        OBVIOUS
    <3>2. PICK r : r = client.round
        OBVIOUS
    <3>3. /\ LeadOn(v)
          /\ client.phase = "playing" /\ ~client.authorized => StartWaits(r)
        BY <1>1, <1>2, <2>2, <3>1, <3>2 DEF RoundsInv
    <3>4. /\ LeadOn(v)'
          /\ client.phase = "playing" /\ ~client.authorized => StartWaits(r)'
        BY <1>8, <1>9, <3>3
    <3>5. LeadOn(ClientAt)'
        BY <1>7, <3>1, <3>4 DEF LeadOn
    <3>6. r = client'.round
        BY <1>2, <3>2
    <3>7. client'.phase = "playing" /\ ~client'.authorized => StartWaits(client.round)'
        BY <1>2, <3>4, <3>6 DEF StartWaits
    <3> QED BY <3>5, <3>7
  <2>3. \A k \in DOMAIN queue' :
           HasRound(queue'[k]) => EventAt(queue'[k]) <= ServerAt'
      BY <1>1, <1>3, <1>7 DEF RoundsInv
  <2>4. ASSUME NEW i \in DOMAIN queue', NEW j \in DOMAIN queue', i < j,
               HasRound(queue'[i]), HasRound(queue'[j])
        PROVE  /\ EventAt(queue'[i]) <= EventAt(queue'[j])
               /\ Turns(queue'[j]) => EventAt(queue'[i]) < EventAt(queue'[j])
    <3>1. /\ i + s \in DOMAIN queue /\ queue'[i] = queue[i + s]
          /\ j + s \in DOMAIN queue /\ queue'[j] = queue[j + s]
          /\ i \in Nat /\ j \in Nat
        BY <1>3
    <3>2. i + s < j + s
        BY <2>4, <3>1
    <3> QED BY <1>1, <2>4, <3>1, <3>2 DEF RoundsInv
  <2>5. \A i \in DOMAIN wire' :
           wire'[i].kind \in {"brick_full", "brick_delta", "respawn"} =>
              Pos(wire'[i].round) <= Pos(round_id')
      BY <1>1, <1>2, <1>5 DEF RoundsInv
  <2>6. Pos(round_id') <= Pos(LastRound)
      BY <1>1, <1>2 DEF RoundsInv
  <2> QED BY <2>1, <2>2, <2>3, <2>4, <2>5, <2>6 DEF RoundsInv
<1>11. MapInv'
  <2>1. ASSUME NEW k \in DOMAIN queue', queue'[k].kind = "round_start"
        PROVE  \E j \in DOMAIN queue' :
                  /\ k < j
                  /\ queue'[j].kind = "brick_full"
                  /\ queue'[j].round = queue'[k].round
    <3>1. k \in Nat /\ k + s \in DOMAIN queue /\ queue'[k] = queue[k + s]
        BY <1>3
    <3>2. PICK j \in DOMAIN queue :
             /\ k + s < j
             /\ queue[j].kind = "brick_full"
             /\ queue[j].round = queue[k + s].round
        BY <1>1, <2>1, <3>1 DEF MapInv
    <3>3. j \in Nat
        BY <1>1
    <3>4. j > s /\ k < j - s
        BY <3>1, <3>2, <3>3
    <3>5. j - s \in DOMAIN queue' /\ queue'[j - s] = queue[j]
        BY <1>3, <3>4
    <3> QED BY <3>1, <3>2, <3>4, <3>5
  <2>2. ASSUME client'.welcome, client'.phase = "playing", client'.authorized,
               ~client'.map_ready
        PROVE  \E k \in DOMAIN queue' :
                  /\ Waits(k)'
                  /\ queue'[k].kind = "brick_full"
                  /\ queue'[k].round = client'.round
    <3>1. PICK k \in DOMAIN queue :
             /\ Waits(k)
             /\ queue[k].kind = "brick_full"
             /\ queue[k].round = client.round
        BY <1>1, <1>2, <2>2 DEF MapInv
    <3>2. PICK m : m = k - s
        OBVIOUS
    <3>3. m \in DOMAIN queue' /\ queue'[m] = queue[k] /\ Waits(m)'
        BY <1>4, <3>1, <3>2
    <3> QED BY <1>2, <3>1, <3>3
  <2> QED BY <2>1, <2>2 DEF MapInv
<1>12. LacksInv'
  <2>1. \A f : Lacks(f)' => Lacks(f)
      BY <1>2 DEF Lacks
  <2>2. ASSUME NEW k \in DOMAIN queue' PROVE ~Lacks(queue[k])'
    <3>1. PICK f : f = queue'[k]
        OBVIOUS
    <3>2. ~Lacks(f)'
        BY <1>1, <1>3, <2>1, <3>1 DEF LacksInv
    <3> QED BY <3>1, <3>2 DEF Lacks
  <2>3. ASSUME NEW i \in DOMAIN wire' PROVE ~Lacks(wire[i])'
    <3>1. PICK f : f = wire'[i]
        OBVIOUS
    <3>2. f.kind = "event" => ~Lacks(f)
        BY DEF Lacks
    <3>3. ~Lacks(f)'
        BY <1>1, <1>5, <2>1, <3>1, <3>2 DEF LacksInv
    <3> QED BY <3>1, <3>3 DEF Lacks
  <2> QED BY <1>1, <1>2, <2>2, <2>3 DEF LacksInv
<1>13. ASSUME NEW e, NEW j \in DOMAIN queue',
              \E k \in DOMAIN queue : j + s < k /\ queue[k] = e
       PROVE  \E k \in DOMAIN queue' : j < k /\ queue'[k] = e
  <2>1. PICK k \in DOMAIN queue : j + s < k /\ queue[k] = e
      BY <1>13
  <2>2. k \in Nat /\ j \in Nat
      BY <1>1, <1>3
  <2>3. k > s /\ j < k - s
      BY <2>1, <2>2
  <2>4. k - s \in DOMAIN queue' /\ queue'[k - s] = queue[k]
      BY <1>3, <2>3
  <2> QED BY <2>1, <2>3, <2>4
<1>14. ASSUME NEW e, \E k \in DOMAIN queue : Waits(k) /\ queue[k] = e
       PROVE  \E k \in DOMAIN queue' : Waits(k)' /\ queue'[k] = e
  <2>1. PICK k \in DOMAIN queue : Waits(k) /\ queue[k] = e
      BY <1>14
  <2>2. PICK m : m = k - s
      OBVIOUS
  <2>3. m \in DOMAIN queue' /\ queue'[m] = queue[k] /\ Waits(m)'
      BY <1>4, <2>1, <2>2
  <2> QED BY <2>1, <2>3
<1>15. ASSUME NEW e, NEW i \in DOMAIN wire,
              \E k \in DOMAIN queue : WaitsBehind(k, i) /\ queue[k] = e
       PROVE  \E k \in DOMAIN queue' : WaitsBehind(k, i)' /\ queue'[k] = e
  <2>1. PICK k \in DOMAIN queue : WaitsBehind(k, i) /\ queue[k] = e
      BY <1>15
  <2>2. Waits(k)
      BY <2>1 DEF WaitsBehind
  <2>3. PICK m : m = k - s
      OBVIOUS
  <2>4. m \in DOMAIN queue' /\ queue'[m] = queue[k]
      BY <1>4, <2>2, <2>3
  <2>5. WaitsBehind(m, i)'
      BY <1>6, <2>1, <2>3
  <2> QED BY <2>1, <2>4, <2>5
<1>16. FallenInv'
  <2>1. SUFFICES ASSUME ~over', NEW b \in Brick \ bricks' PROVE FallIsTold(b)'
      BY DEF FallenInv
  <2>2. FallIsTold(b)
      BY <1>1, <1>2, <2>1 DEF FallenInv
  <2>3. PICK fall : fall = BrickDelta(round_id, b)
      OBVIOUS
  <2>4. \A f : Keeps(f, b)' => Keeps(f, b) /\ f.kind # "event"
      BY <1>2 DEF Keeps
  <2>5. client'.map_ready /\ client'.round = round_id' /\ b \in client'.maze
           => \E k \in DOMAIN queue' : Waits(k)' /\ queue'[k] = fall
      BY <1>2, <1>14, <2>2, <2>3 DEF FallIsTold
  <2>6. ASSUME NEW j \in DOMAIN queue', NEW f, f = queue'[j], Keeps(f, b)'
        PROVE  \E k \in DOMAIN queue' : j < k /\ queue'[k] = fall
    <3>1. j + s \in DOMAIN queue /\ Keeps(queue[j + s], b)
        BY <1>3, <2>4, <2>6
    <3>2. \E k \in DOMAIN queue : j + s < k /\ queue[k] = fall
        BY <2>2, <2>3, <3>1 DEF FallIsTold
    <3> QED BY <1>13, <3>2
  <2>7. ASSUME NEW i \in DOMAIN wire', NEW f, f = wire'[i], Keeps(f, b)'
        PROVE  \E k \in DOMAIN queue' : WaitsBehind(k, i)' /\ queue'[k] = fall
    <3>1. i \in DOMAIN wire /\ Keeps(wire[i], b)
        BY <1>5, <2>4, <2>7
    <3>2. \E k \in DOMAIN queue : WaitsBehind(k, i) /\ queue[k] = fall
        BY <2>2, <2>3, <3>1 DEF FallIsTold
    <3> QED BY <1>15, <3>1, <3>2
  <2> QED BY <1>2, <2>3, <2>5, <2>6, <2>7 DEF FallIsTold, Keeps
<1>17. ActorInv'
  <2>1. SUFFICES ASSUME ~over' PROVE ActorInv'
      BY DEF ActorInv
  <2>2. ~over /\ ActorInv
      BY <1>1, <1>2, <2>1
  <2>3. PICK last : last = Respawn(round_id, announced)
      OBVIOUS
  <2>4. \A f : Misleads(f)' => Misleads(f) /\ f.kind # "event"
      BY <1>2 DEF Misleads, Respawn, RoundStart
  <2>5. client'.welcome /\ client'.round = round_id' /\ client'.authorized
              /\ client'.hidden = announced'
           => \E k \in DOMAIN queue' : Waits(k)' /\ queue'[k] = last
      BY <1>2, <1>14, <2>2, <2>3 DEF ActorInv
  <2>6. ASSUME NEW j \in DOMAIN queue', NEW f, f = queue'[j], Misleads(f)'
        PROVE  \E k \in DOMAIN queue' : j < k /\ queue'[k] = last
    <3>1. j + s \in DOMAIN queue /\ Misleads(queue[j + s])
        BY <1>3, <2>4, <2>6
    <3>2. \E k \in DOMAIN queue : j + s < k /\ queue[k] = last
        BY <2>2, <2>3, <3>1 DEF ActorInv
    <3> QED BY <1>13, <3>2
  <2>7. ASSUME NEW i \in DOMAIN wire', NEW f, f = wire'[i], Misleads(f)'
        PROVE  \E k \in DOMAIN queue' : WaitsBehind(k, i)' /\ queue'[k] = last
    <3>1. i \in DOMAIN wire /\ Misleads(wire[i])
        BY <1>5, <2>4, <2>7
    <3>2. \E k \in DOMAIN queue : WaitsBehind(k, i) /\ queue[k] = last
        BY <2>2, <2>3, <3>1 DEF ActorInv
    <3> QED BY <1>15, <3>1, <3>2
  <2> QED BY <1>2, <2>3, <2>5, <2>6, <2>7 DEF ActorInv, Misleads
<1>18. EchoInv'
    BY <1>1, <1>2 DEF EchoInv
<1> QED BY <1>10, <1>11, <1>12, <1>16, <1>17, <1>18 DEF SyncInv

LEMMA SentOne ==
    ASSUME TypeInv, NEW e \in Inner, Transmit(<<Event(e)>>)
    PROVE  /\ wire' \in Seq(Frame) /\ Len(wire') <= WireCap
           /\ \A i \in DOMAIN wire : i \in DOMAIN wire' /\ wire'[i] = wire[i]
           /\ \A i : Added(i, wire) =>
                 /\ i \in Nat /\ \A j \in DOMAIN wire : j < i
                 /\ wire'[i] = Event(e)
           /\ \A i, j : Added(i, wire) /\ Added(j, wire) => i = j
<1>1. PICK f \in Frame : f = Event(e)
    BY FramesMade
<1>2. PICK fs : fs = <<f>>
    OBVIOUS
<1>3. fs \in Seq(Frame) /\ DOMAIN fs = {1} /\ fs[1] = f /\ Transmit(fs)
    BY <1>1, <1>2
<1>4. /\ wire' \in Seq(Frame) /\ Len(wire') <= WireCap
      /\ \A i \in DOMAIN wire : i \in DOMAIN wire' /\ wire'[i] = wire[i]
      /\ \A i : Added(i, wire) => i \in Nat /\ \A j \in DOMAIN wire : j < i
      /\ \E at : /\ \A i : Added(i, wire) =>
                       at[i] \in DOMAIN fs /\ wire'[i] = fs[at[i]]
                 /\ \A i, j :
                     Added(i, wire) /\ Added(j, wire) /\ i < j => at[i] < at[j]
    BY <1>3, Transmitted
<1>5. PICK at : /\ \A i : Added(i, wire) =>
                      at[i] \in DOMAIN fs /\ wire'[i] = fs[at[i]]
                /\ \A i, j :
                     Added(i, wire) /\ Added(j, wire) /\ i < j => at[i] < at[j]
    BY <1>4
<1>6. \A i : Added(i, wire) => at[i] = 1 /\ wire'[i] = Event(e) /\ i \in Nat
    BY <1>1, <1>3, <1>4, <1>5
<1>7. ASSUME NEW i, NEW j, Added(i, wire), Added(j, wire) PROVE i = j
  <2>1. ~(i < j) /\ ~(j < i) /\ i \in Nat /\ j \in Nat
      BY <1>5, <1>6, <1>7
  <2> QED BY <2>1
<1> QED BY <1>4, <1>6, <1>7

\* The wire after the event e was sent, or nothing.
OneSent(e) ==
    /\ wire' \in Seq(Frame) /\ Len(wire') <= WireCap
    /\ \A i \in DOMAIN wire : i \in DOMAIN wire' /\ wire'[i] = wire[i]
    /\ \A i : Added(i, wire) =>
          /\ i \in Nat /\ \A j \in DOMAIN wire : j < i
          /\ wire'[i] = Event(e)
    /\ \A i, j : Added(i, wire) /\ Added(j, wire) => i = j

LEMMA OneSentWire ==
    ASSUME SyncInv, session = "seated", UNCHANGED <<session, client>>,
           \A j \in DOMAIN wire : ~IsEvent(wire[j]),
           ~head_applied', NEW e, OneSent(e),
           \A i : Added(i, wire) => 1 \in DOMAIN queue' /\ queue'[1] = e
    PROVE  WireInv'
<1>1. WireInv /\ wire \in Seq(Frame)
    BY DEF SyncInv, TypeInv
<1>2. ASSUME NEW j \in DOMAIN wire'
      PROVE  \/ j \in DOMAIN wire /\ wire'[j] = wire[j] /\ ~IsEvent(wire'[j])
             \/ /\ Added(j, wire) /\ wire'[j] = Event(queue'[1])
                /\ Waits(1)' /\ wire'[j].kind = "event"
  <2>1. CASE j \in DOMAIN wire
      BY <2>1 DEF OneSent
  <2>2. CASE Added(j, wire)
    <3>1. wire'[j] = Event(e) /\ 1 \in DOMAIN queue' /\ queue'[1] = e
        BY <2>2 DEF OneSent
    <3>2. wire'[j].kind = "event"
        BY <3>1 DEF Event
    <3> QED BY <2>2, <3>1, <3>2 DEF Waits
  <2> QED BY <1>2, <2>1, <2>2 DEF Added
<1>3. ASSUME NEW j \in DOMAIN wire'
      PROVE  /\ wire'[j].kind \in {"welcome", "event", "brick_full", "brick_delta",
                                   "respawn", "snapshot"}
             /\ IsEvent(wire'[j]) => Waits(1)' /\ wire'[j] = Event(queue'[1])
             /\ wire'[j].kind = "welcome" => j = 1 /\ ~client'.welcome
    BY <1>1, <1>2 DEF WireInv, IsEvent
<1>4. \A i, j \in DOMAIN wire' : IsEvent(wire'[i]) /\ IsEvent(wire'[j]) => i = j
    BY <1>2 DEF OneSent
<1> QED BY <1>1, <1>3, <1>4 DEF WireInv, IsEvent

LEMMA StepResend ==
    ASSUME SyncInv, Resend PROVE SyncInv'
<1>1. /\ session = "seated" /\ queue # <<>> /\ ~head_applied /\ ~EventUnderWay
      /\ Transmit(<<Event(Head(queue))>>)
      /\ session' = session /\ UNCHANGED <<roomVars, echoVars>>
      /\ queue' = queue /\ head_applied' = head_applied /\ client' = client
    BY DEF Resend, streamVars
<1>2. /\ TypeInv /\ WireInv /\ DOMAIN wire = 1 .. Len(wire)
      /\ queue \in Seq(Inner) /\ DOMAIN queue = 1 .. Len(queue)
      /\ \A k \in DOMAIN queue : k \in Nat /\ queue[k] \in Inner
      /\ \A i \in DOMAIN wire : i \in Nat
    BY SyncTyped DEF SyncInv
<1>3. 1 \in DOMAIN queue /\ Head(queue) = queue[1]
    BY <1>1, <1>2, HeadTailProperties, EmptySeq
<1>4. OneSent(queue[1])
    BY <1>1, <1>2, <1>3, SentOne DEF OneSent
<1>5. \A j \in DOMAIN wire : ~IsEvent(wire[j])
    BY <1>1, <1>2 DEF EventUnderWay
<1>6. WireInv'
  <2>1. PICK e : e = queue[1]
      OBVIOUS
  <2>2. /\ 1 \in DOMAIN queue' /\ queue'[1] = e /\ OneSent(e) /\ ~head_applied'
        /\ UNCHANGED <<session, client>>
      BY <1>1, <1>3, <1>4, <2>1 DEF OneSent
  <2> QED BY <1>1, <1>5, <2>2, OneSentWire
<1>7. TypeInv'
  <2>1. wire' \in Seq(Frame) /\ Len(wire') <= WireCap
      BY <1>4 DEF OneSent
  <2>2. \A k \in 1 .. Len(wire') : wire'[k] \in Frame
      BY <2>1, ElementOfSeq
  <2> QED BY <1>1, <1>2, <2>1, <2>2 DEF TypeInv, TypeOK, roomVars, echoVars
<1>8. Serves(0)
  <2>1. ASSUME NEW k, Waits(k) PROVE k \in Nat /\ k > 0 /\ k - 0 = k /\ Waits(k)'
      BY <1>1, <1>2, <2>1 DEF Waits
  <2>2. ASSUME NEW k, NEW i \in DOMAIN wire, WaitsBehind(k, i)
        PROVE  k - 0 = k /\ WaitsBehind(k, i)'
    <3>1. Waits(k)' /\ k - 0 = k
        BY <2>1, <2>2 DEF WaitsBehind
    <3>2. ASSUME NEW j \in DOMAIN wire', IsEvent(wire'[j]) PROVE i < j
      <4>1. Added(j, wire)
          BY <1>4, <1>5, <3>2 DEF OneSent, Added
      <4> QED BY <1>4, <4>1 DEF OneSent
    <3> QED BY <3>1, <3>2 DEF WaitsBehind, IsEvent
  <2>3. \A k \in DOMAIN queue' :
          /\ k \in Nat /\ k + 0 \in DOMAIN queue /\ queue'[k] = queue[k + 0]
          /\ Waits(k)' => Waits(k + 0)
    <3>1. \A k \in DOMAIN queue' : k \in Nat /\ k + 0 = k
        BY <1>1, <1>2
    <3> QED BY <1>1, <3>1 DEF Waits
  <2>4. \A k \in DOMAIN queue :
          k > 0 => k - 0 \in DOMAIN queue' /\ queue'[k - 0] = queue[k]
    <3>1. \A k \in DOMAIN queue : k - 0 = k
        BY <1>2
    <3> QED BY <1>1, <3>1
  <2>5. \A i : Added(i, wire) => wire'[i].kind = "event"
      BY <1>4 DEF OneSent, Event
  <2>6. \A i \in DOMAIN wire : i \in DOMAIN wire' /\ wire'[i] = wire[i]
      BY <1>4 DEF OneSent
  <2>7. \A k : Waits(k) => k \in Nat /\ k > 0 /\ Waits(k - 0)'
    <3>1. ASSUME NEW k, Waits(k) PROVE Waits(k - 0)'
      <4>1. PICK m : m = k - 0
          OBVIOUS
      <4>2. m = k /\ Waits(k)'
          BY <2>1, <3>1, <4>1
      <4> QED BY <4>1, <4>2 DEF Waits
    <3> QED BY <2>1, <3>1
  <2>8. \A k : \A i \in DOMAIN wire : WaitsBehind(k, i) => WaitsBehind(k - 0, i)'
    <3>1. ASSUME NEW k, NEW i \in DOMAIN wire, WaitsBehind(k, i)
          PROVE  WaitsBehind(k - 0, i)'
      <4>1. k - 0 = k /\ WaitsBehind(k, i)'
          BY <2>2, <3>1
      <4> QED BY <4>1 DEF WaitsBehind, Waits
    <3> QED BY <3>1
  <2> QED BY <1>1, <2>3, <2>4, <2>5, <2>6, <2>7, <2>8 DEF Serves
<1> QED BY <1>6, <1>7, <1>8, ServeKeeps

LEMMA StepAck ==
    ASSUME SyncInv, Ack PROVE SyncInv'
<1>1. /\ session = "seated" /\ head_applied /\ head_applied' = FALSE
      /\ queue' = Tail(queue)
      /\ queue' = <<>> => wire' = wire
      /\ queue' # <<>> => Transmit(<<Event(Head(queue'))>>)
      /\ session' = session /\ UNCHANGED <<roomVars, echoVars>>
      /\ client' = client
    BY DEF Ack
<1>2. /\ TypeInv /\ WireInv /\ DOMAIN wire = 1 .. Len(wire)
      /\ wire \in Seq(Frame)
      /\ queue \in Seq(Inner) /\ DOMAIN queue = 1 .. Len(queue)
      /\ Len(queue) \in Nat /\ Len(queue) <= QueueMax
      /\ \A i \in DOMAIN wire : i \in Nat
    BY SyncTyped DEF SyncInv, TypeInv, TypeOK
<1>3. queue # <<>>
    BY <1>1, <1>2 DEF TypeInv, TypeOK
<1>4. /\ queue' \in Seq(Inner) /\ Len(queue') = Len(queue) - 1
      /\ Len(queue') \in Nat
      /\ \A k \in 1 .. Len(queue) - 1 : queue'[k] = queue[k + 1]
    BY <1>1, <1>2, <1>3, HeadTailProperties, LenProperties
<1>5. DOMAIN queue' = 1 .. Len(queue')
    BY <1>4, LenProperties
<1>6. \A j \in DOMAIN wire : ~IsEvent(wire[j])
    BY <1>1, <1>2 DEF WireInv, Waits
<1>7. PICK e : e = Head(queue')
    OBVIOUS
<1>8. queue' # <<>> => e \in Inner /\ 1 \in DOMAIN queue' /\ queue'[1] = e
    BY <1>4, <1>5, <1>7, HeadTailProperties, EmptySeq, ElementOfSeq
<1>9. OneSent(e) /\ \A i : Added(i, wire) => queue' # <<>>
  <2>1. CASE queue' = <<>>
    <3>1. wire' = wire /\ Len(wire) <= WireCap
        BY <1>1, <1>2, <2>1 DEF TypeInv, TypeOK
    <3> QED BY <1>2, <3>1 DEF OneSent, Added
  <2>2. CASE queue' # <<>>
    <3>1. e \in Inner /\ Transmit(<<Event(e)>>)
        BY <1>1, <1>7, <1>8, <2>2
    <3> QED BY <1>2, <2>2, <3>1, SentOne DEF OneSent
  <2> QED BY <2>1, <2>2
<1>10. WireInv'
    BY <1>1, <1>6, <1>8, <1>9, OneSentWire
<1>11. TypeInv'
  <2>1. wire' \in Seq(Frame) /\ Len(wire') <= WireCap
      BY <1>9 DEF OneSent
  <2>2. /\ \A k \in 1 .. Len(wire') : wire'[k] \in Frame
        /\ \A k \in 1 .. Len(queue') : queue'[k] \in Inner
      BY <1>4, <2>1, ElementOfSeq
  <2>3. Len(queue') <= QueueMax
      BY <1>2, <1>4
  <2> QED BY <1>1, <1>2, <1>4, <2>1, <2>2, <2>3 DEF TypeInv, TypeOK, roomVars, echoVars
<1>12. Serves(1)
  <2>1. ASSUME NEW k \in DOMAIN queue'
        PROVE  /\ k \in Nat /\ k + 1 \in DOMAIN queue /\ queue'[k] = queue[k + 1]
               /\ k + 1 # 1
      BY <1>2, <1>4, <1>5
  <2>2. \A k \in DOMAIN queue' : Waits(k + 1)
      BY <2>1 DEF Waits
  <2>3. ASSUME NEW k \in DOMAIN queue, k > 1
        PROVE  k - 1 \in DOMAIN queue' /\ queue'[k - 1] = queue[k]
    <3>1. k - 1 \in 1 .. Len(queue) - 1 /\ (k - 1) + 1 = k
        BY <1>2, <2>3
    <3> QED BY <1>4, <1>5, <3>1
  <2>4. ASSUME NEW k, Waits(k)
        PROVE  k \in Nat /\ k > 1 /\ k \in DOMAIN queue
      BY <1>1, <1>2, <2>4 DEF Waits
  <2>5. ASSUME NEW k, Waits(k) PROVE Waits(k - 1)'
    <3>1. PICK m : m = k - 1
        OBVIOUS
    <3>2. m \in DOMAIN queue'
        BY <2>3, <2>4, <2>5, <3>1
    <3> QED BY <1>1, <3>1, <3>2 DEF Waits
  <2>6. ASSUME NEW k, NEW i \in DOMAIN wire, WaitsBehind(k, i)
        PROVE  WaitsBehind(k - 1, i)'
    <3>1. Waits(k - 1)'
        BY <2>5, <2>6 DEF WaitsBehind
    <3>2. ASSUME NEW j \in DOMAIN wire', IsEvent(wire'[j]) PROVE i < j
      <4>1. Added(j, wire)
          BY <1>6, <1>9, <3>2 DEF OneSent, Added
      <4> QED BY <1>9, <4>1 DEF OneSent
    <3> QED BY <3>1, <3>2 DEF WaitsBehind, IsEvent
  <2>7. \A i : Added(i, wire) => wire'[i].kind = "event"
      BY <1>9 DEF OneSent, Event
  <2>8. \A i \in DOMAIN wire : i \in DOMAIN wire' /\ wire'[i] = wire[i]
      BY <1>9 DEF OneSent
  <2> QED BY <1>1, <2>1, <2>2, <2>3, <2>4, <2>5, <2>6, <2>7, <2>8 DEF Serves
<1> QED BY <1>10, <1>11, <1>12, ServeKeeps

----------------------------------------------------------------------------
(* What the client reads                                                   *)

\* The parts of the invariant about what the client itself has.
ClientLeads ==
    client.welcome =>
       /\ LeadOn(ClientAt)
       /\ client.phase = "playing" /\ ~client.authorized =>
             StartWaits(client.round)

ClientMaps ==
    client.welcome /\ client.phase = "playing" /\ client.authorized
       /\ ~client.map_ready =>
       \E k \in DOMAIN queue :
          /\ Waits(k)
          /\ queue[k].kind = "brick_full"
          /\ queue[k].round = client.round

ClientLacks ==
    client.map_ready /\ client.round = round_id => bricks \subseteq client.maze

ClientFallen ==
    ~over => \A b \in Brick \ bricks :
       client.map_ready /\ client.round = round_id /\ b \in client.maze =>
          \E k \in DOMAIN queue :
             Waits(k) /\ queue[k] = BrickDelta(round_id, b)

ClientActor ==
    ~over /\ client.welcome /\ client.round = round_id /\ client.authorized
       /\ client.hidden = announced =>
          \E k \in DOMAIN queue :
             Waits(k) /\ queue[k] = Respawn(round_id, announced)

ClientSync ==
    ClientLeads /\ ClientMaps /\ ClientLacks /\ ClientFallen /\ ClientActor

LEMMA SyncClient ==
    ASSUME SyncInv
    PROVE  ClientSync
<1>1. ClientLeads
    BY DEF SyncInv, RoundsInv, ClientLeads
<1>2. ClientMaps
    BY DEF SyncInv, MapInv, ClientMaps
<1>3. ClientLacks
    BY DEF SyncInv, LacksInv, ClientLacks
<1>4. ClientFallen
    BY DEF SyncInv, FallenInv, FallIsTold, ClientFallen
<1>5. ClientActor
    BY DEF SyncInv, ActorInv, ClientActor
<1> QED BY <1>1, <1>2, <1>3, <1>4, <1>5 DEF ClientSync

\* One frame leaves the wire; with it, or not, an event is taken.
Reads(taken) ==
    /\ wire # <<>> /\ wire' = Tail(wire)
    /\ UNCHANGED <<session, roomVars, echoVars, queue>>
    /\ taken => IsEvent(wire[1]) /\ client.welcome /\ head_applied' = TRUE
    /\ ~taken => UNCHANGED head_applied

LEMMA Reading ==
    ASSUME SyncInv, NEW taken \in BOOLEAN, Reads(taken)
    PROVE  /\ session' = "seated" /\ session = "seated"
           /\ wire' \in Seq(Frame) /\ Len(wire') <= WireCap
           /\ 1 \in DOMAIN wire /\ Head(wire) = wire[1] /\ wire[1] \in Frame
           /\ \A i \in DOMAIN wire' :
                 i \in Nat /\ i + 1 \in DOMAIN wire /\ wire'[i] = wire[i + 1]
                 /\ i + 1 # 1
           /\ taken => Waits(1) /\ wire[1] = Event(queue[1])
           /\ \A k : Waits(k)' <=> (Waits(k) /\ (taken => k # 1))
           /\ \A k : \A i \in DOMAIN wire' :
                 WaitsBehind(k, i + 1) => WaitsBehind(k, i)'
           /\ \A k : WaitsBehind(k, 1) => Waits(k)'
           /\ \A i \in DOMAIN wire' : wire'[i].kind # "welcome"
           /\ taken => \A i \in DOMAIN wire' : ~IsEvent(wire'[i])
<1>1. /\ TypeInv /\ WireInv /\ wire \in Seq(Frame) /\ Len(wire) <= WireCap
      /\ DOMAIN wire = 1 .. Len(wire) /\ Len(wire) \in Nat
      /\ WireCap \in Nat
      /\ \A i \in DOMAIN wire : wire[i] \in Frame
    BY SyncTyped DEF SyncInv, TypeInv, TypeOK
<1>2. /\ wire # <<>> /\ wire' = Tail(wire) /\ queue' = queue /\ session' = session
      /\ taken => IsEvent(wire[1]) /\ client.welcome /\ head_applied' = TRUE
      /\ ~taken => head_applied' = head_applied
    BY DEF Reads
<1>3. session = "seated"
    BY <1>1, <1>2 DEF WireInv
<1>4. /\ wire' \in Seq(Frame) /\ Len(wire') = Len(wire) - 1
      /\ Len(wire') \in Nat
      /\ \A i \in 1 .. Len(wire) - 1 : wire'[i] = wire[i + 1]
      /\ Head(wire) = wire[1]
    BY <1>1, <1>2, HeadTailProperties, LenProperties
<1>5. 1 \in DOMAIN wire /\ wire[1] \in Frame
    BY <1>1, <1>2, EmptySeq
<1>6. DOMAIN wire' = 1 .. Len(wire')
    BY <1>4, LenProperties
<1>7. ASSUME NEW i \in DOMAIN wire'
      PROVE  /\ i \in Nat /\ i + 1 \in DOMAIN wire /\ wire'[i] = wire[i + 1]
             /\ i + 1 # 1
    BY <1>1, <1>4, <1>6
<1>8. taken => Waits(1) /\ wire[1] = Event(queue[1])
    BY <1>1, <1>2, <1>5 DEF WireInv
<1>9. \A k : Waits(k)' <=> (Waits(k) /\ (taken => k # 1))
    BY <1>2, <1>8 DEF Waits
<1>10. ASSUME NEW k, NEW i \in DOMAIN wire, WaitsBehind(k, i) PROVE taken => k # 1
  <2>1. SUFFICES ASSUME taken, k = 1 PROVE FALSE
      OBVIOUS
  <2>2. i < 1
      BY <1>2, <1>5, <1>10, <2>1 DEF WaitsBehind
  <2> QED BY <1>1, <2>2
<1>11. ASSUME NEW k, NEW i \in DOMAIN wire', WaitsBehind(k, i + 1)
       PROVE  WaitsBehind(k, i)'
  <2>1. Waits(k)'
      BY <1>7, <1>9, <1>10, <1>11 DEF WaitsBehind
  <2>2. ASSUME k = 1, NEW j \in DOMAIN wire', IsEvent(wire'[j]) PROVE i < j
    <3>1. i + 1 < j + 1
        BY <1>7, <1>11, <2>2 DEF WaitsBehind
    <3> QED BY <1>7, <3>1
  <2> QED BY <2>1, <2>2 DEF WaitsBehind, IsEvent
<1>12. \A k : WaitsBehind(k, 1) => Waits(k)'
    BY <1>5, <1>9, <1>10 DEF WaitsBehind
<1>13. \A i \in DOMAIN wire' : wire'[i].kind # "welcome"
    BY <1>1, <1>7 DEF WireInv
<1>14. taken => \A i \in DOMAIN wire' : ~IsEvent(wire'[i])
    BY <1>1, <1>2, <1>5, <1>7 DEF WireInv
<1> QED BY <1>1, <1>2, <1>3, <1>4, <1>5, <1>7, <1>8, <1>9, <1>11, <1>12, <1>13, <1>14

\* The rest of the invariant does not depend on what the client makes of it.
LEMMA ReadKeeps ==
    ASSUME SyncInv, NEW taken \in BOOLEAN, Reads(taken), client' \in Client,
           ClientSync',
           taken => client'.welcome,
           ~client'.welcome => ~client'.map_ready /\ ~head_applied'
    PROVE  SyncInv'
<1>1. /\ TypeInv /\ WireInv /\ RoundsInv /\ MapInv
      /\ LacksInv /\ FallenInv /\ ActorInv /\ EchoInv
    BY DEF SyncInv
<1>2. /\ round_id' = round_id /\ over' = over /\ bricks' = bricks
      /\ announced' = announced /\ session' = session
      /\ brick_echo' = brick_echo /\ respawn_echo' = respawn_echo
      /\ queue' = queue
    BY DEF Reads, roomVars, echoVars
<1>3. /\ session' = "seated" /\ session = "seated"
      /\ wire' \in Seq(Frame) /\ Len(wire') <= WireCap
      /\ \A i \in DOMAIN wire' :
            i \in Nat /\ i + 1 \in DOMAIN wire /\ wire'[i] = wire[i + 1]
      /\ \A k : Waits(k)' <=> (Waits(k) /\ (taken => k # 1))
      /\ \A k : \A i \in DOMAIN wire' :
            WaitsBehind(k, i + 1) => WaitsBehind(k, i)'
      /\ \A i \in DOMAIN wire' : wire'[i].kind # "welcome"
      /\ taken => \A i \in DOMAIN wire' : ~IsEvent(wire'[i])
      /\ taken => Waits(1)
    BY Reading
<1>4. TypeInv'
  <2>1. \A k \in 1 .. Len(wire') : wire'[k] \in Frame
      BY <1>3, ElementOfSeq
  <2>2. head_applied' => queue' # <<>>
    <3>1. CASE taken
      <4>1. 1 \in DOMAIN queue
          BY <1>3, <3>1 DEF Waits
      <4> QED BY <1>2, <4>1, EmptySeq
    <3>2. CASE ~taken
      <4>1. head_applied' = head_applied
          BY <3>2 DEF Reads
      <4>2. head_applied => queue # <<>>
          BY <1>1 DEF TypeInv, TypeOK
      <4> QED BY <1>2, <4>1, <4>2
    <3> QED BY <3>1, <3>2
  <2> QED BY <1>1, <1>2, <1>3, <2>1, <2>2 DEF TypeInv, TypeOK
<1>5. WireInv'
  <2>1. ASSUME NEW i \in DOMAIN wire'
        PROVE  /\ wire'[i].kind \in {"welcome", "event", "brick_full", "brick_delta",
                                     "respawn", "snapshot"}
               /\ IsEvent(wire'[i]) => Waits(1)' /\ wire'[i] = Event(queue'[1])
               /\ wire'[i].kind = "welcome" => i = 1 /\ ~client'.welcome
      BY <1>1, <1>2, <1>3 DEF WireInv
  <2>2. ASSUME NEW i \in DOMAIN wire', NEW j \in DOMAIN wire',
               IsEvent(wire'[i]), IsEvent(wire'[j])
        PROVE  i = j
    <3>1. i + 1 = j + 1
        BY <1>1, <1>3, <2>2 DEF WireInv
    <3> QED BY <1>3, <3>1
  <2> QED BY <1>3, <2>1, <2>2 DEF WireInv, IsEvent
<1>6. RoundsInv'
  <2>1. Pos(round_id') <= Pos(LastRound)
      BY <1>1, <1>2 DEF RoundsInv
  <2>2. \A k \in DOMAIN queue' :
           HasRound(queue'[k]) => EventAt(queue'[k]) <= ServerAt'
      BY <1>1, <1>2 DEF RoundsInv, ServerAt
  <2>3. \A i, j \in DOMAIN queue' :
           i < j /\ HasRound(queue'[i]) /\ HasRound(queue'[j]) =>
              /\ EventAt(queue'[i]) <= EventAt(queue'[j])
              /\ Turns(queue'[j]) => EventAt(queue'[i]) < EventAt(queue'[j])
      BY <1>1, <1>2 DEF RoundsInv
  <2>4. \A i \in DOMAIN wire' :
           wire'[i].kind \in {"brick_full", "brick_delta", "respawn"} =>
              Pos(wire'[i].round) <= Pos(round_id')
      BY <1>1, <1>2, <1>3 DEF RoundsInv
  <2>5. ClientLeads'
      BY DEF ClientSync
  <2> QED BY <1>3, <2>1, <2>2, <2>3, <2>4, <2>5 DEF RoundsInv, ClientLeads
<1>7. MapInv'
    BY <1>1, <1>2 DEF MapInv, ClientSync, ClientMaps
<1>8. LacksInv'
  <2>1. \A f : Lacks(f)' <=> Lacks(f)
      BY <1>2 DEF Lacks
  <2>2. ASSUME NEW k \in DOMAIN queue' PROVE ~Lacks(queue[k])'
      BY <1>1, <1>2 DEF LacksInv, Lacks
  <2>3. ASSUME NEW i \in DOMAIN wire' PROVE ~Lacks(wire[i])'
    <3>1. PICK f : f = wire'[i]
        OBVIOUS
    <3>2. ~Lacks(f)'
        BY <1>1, <1>3, <2>1, <3>1 DEF LacksInv
    <3> QED BY <3>1, <3>2 DEF Lacks
  <2> QED BY <2>2, <2>3 DEF LacksInv, ClientSync, ClientLacks
<1>9. ASSUME NEW e, NEW i \in DOMAIN wire',
             \E k \in DOMAIN queue : WaitsBehind(k, i + 1) /\ queue[k] = e
      PROVE  \E k \in DOMAIN queue' : WaitsBehind(k, i)' /\ queue'[k] = e
    BY <1>2, <1>3, <1>9
<1>10. FallenInv'
  <2>1. SUFFICES ASSUME ~over', NEW b \in Brick \ bricks' PROVE FallIsTold(b)'
      BY DEF FallenInv
  <2>2. FallIsTold(b)
      BY <1>1, <1>2, <2>1 DEF FallenInv
  <2>3. PICK fall : fall = BrickDelta(round_id, b)
      OBVIOUS
  <2>4. \A f : Keeps(f, b)' <=> Keeps(f, b)
      BY <1>2 DEF Keeps
  <2>5. client'.map_ready /\ client'.round = round_id' /\ b \in client'.maze
           => \E k \in DOMAIN queue' : Waits(k)' /\ queue'[k] = fall
      BY <1>2, <2>1, <2>3 DEF ClientSync, ClientFallen
  <2>6. ASSUME NEW j \in DOMAIN queue', NEW f, f = queue'[j], Keeps(f, b)'
        PROVE  \E k \in DOMAIN queue' : j < k /\ queue'[k] = fall
      BY <1>2, <2>2, <2>3, <2>4, <2>6 DEF FallIsTold
  <2>7. ASSUME NEW i \in DOMAIN wire', NEW f, f = wire'[i], Keeps(f, b)'
        PROVE  \E k \in DOMAIN queue' : WaitsBehind(k, i)' /\ queue'[k] = fall
    <3>1. i + 1 \in DOMAIN wire /\ Keeps(wire[i + 1], b)
        BY <1>3, <2>4, <2>7
    <3>2. \E k \in DOMAIN queue : WaitsBehind(k, i + 1) /\ queue[k] = fall
        BY <2>2, <2>3, <3>1 DEF FallIsTold
    <3> QED BY <1>9, <3>2
  <2> QED BY <1>2, <2>3, <2>5, <2>6, <2>7 DEF FallIsTold, Keeps
<1>11. ActorInv'
  <2>1. SUFFICES ASSUME ~over' PROVE ActorInv'
      BY DEF ActorInv
  <2>2. ~over /\ ActorInv
      BY <1>1, <1>2, <2>1
  <2>3. PICK last : last = Respawn(round_id, announced)
      OBVIOUS
  <2>4. \A f : Misleads(f)' <=> Misleads(f)
      BY <1>2 DEF Misleads
  <2>5. client'.welcome /\ client'.round = round_id' /\ client'.authorized
              /\ client'.hidden = announced'
           => \E k \in DOMAIN queue' : Waits(k)' /\ queue'[k] = last
      BY <1>2, <2>1, <2>3 DEF ClientSync, ClientActor
  <2>6. ASSUME NEW j \in DOMAIN queue', NEW f, f = queue'[j], Misleads(f)'
        PROVE  \E k \in DOMAIN queue' : j < k /\ queue'[k] = last
      BY <1>2, <2>2, <2>3, <2>4, <2>6 DEF ActorInv
  <2>7. ASSUME NEW i \in DOMAIN wire', NEW f, f = wire'[i], Misleads(f)'
        PROVE  \E k \in DOMAIN queue' : WaitsBehind(k, i)' /\ queue'[k] = last
    <3>1. i + 1 \in DOMAIN wire /\ Misleads(wire[i + 1])
        BY <1>3, <2>4, <2>7
    <3>2. \E k \in DOMAIN queue : WaitsBehind(k, i + 1) /\ queue[k] = last
        BY <2>2, <2>3, <3>1 DEF ActorInv
    <3> QED BY <1>9, <3>2
  <2> QED BY <1>2, <2>3, <2>5, <2>6, <2>7 DEF ActorInv, Misleads
<1>12. EchoInv'
    BY <1>1, <1>2 DEF EchoInv
<1> QED BY <1>4, <1>5, <1>6, <1>7, <1>8, <1>10, <1>11, <1>12 DEF SyncInv

----------------------------------------------------------------------------
(* The handlers of the client                                              *)

\* What keeps a client as it is but for one announcement or snapshot.
SameView(c, d) ==
    /\ d.welcome = c.welcome /\ d.round = c.round /\ d.phase = c.phase
    /\ d.authorized = c.authorized /\ d.map_ready = c.map_ready

LEMMA ClientIs ==
    ASSUME NEW c \in Client
    PROVE  /\ c.welcome \in BOOLEAN /\ c.round \in RoundId /\ c.phase \in Phase
           /\ c.authorized \in BOOLEAN /\ c.map_ready \in BOOLEAN
           /\ c.snapshot_ready \in BOOLEAN /\ c.maze \in SUBSET Brick
           /\ c.hidden \in BOOLEAN /\ c.map_of \in RoundId
           /\ c.snapshot_of \in RoundId
    BY DEF Client

LEMMA WelcomeDoes ==
    ASSUME NEW c \in Client, NEW f, f.round \in RoundId, f.phase \in Phase,
           NEW d, d = AfterWelcome(c, f)
    PROVE  /\ d \in Client /\ d.welcome = TRUE /\ d.round = f.round
           /\ d.phase = f.phase /\ d.authorized = FALSE /\ d.map_ready = FALSE
    BY DEF Client, AfterWelcome, Shut

LEMMA RoundStartDoes ==
    ASSUME NEW c \in Client, NEW f, f.round \in RoundId, Startable(c, f.round),
           NEW d, d = AfterRoundStart(c, f)
    PROVE  /\ d \in Client /\ d.welcome = c.welcome /\ d.round = f.round
           /\ d.phase = "playing" /\ d.authorized = TRUE /\ d.maze = c.maze
           /\ d.map_ready => f.round = c.round /\ c.map_ready
           /\ d.hidden => f.round = c.round /\ c.authorized /\ c.hidden
<1>1. "playing" \in Phase
    BY DEF Phase
<1>3. CASE f.round # c.round \/ ~c.authorized
  <2>1. d = [c EXCEPT !.map_ready = FALSE, !.snapshot_ready = FALSE, !.hidden = FALSE,
                      !.round = f.round, !.phase = "playing", !.authorized = TRUE]
      BY <1>3 DEF AfterRoundStart, Cleared, Client
  <2>2. d \in Client
      BY <1>1, <2>1 DEF Client
  <2>3. /\ d.welcome = c.welcome /\ d.round = f.round
        /\ d.phase = "playing" /\ d.authorized = TRUE /\ d.maze = c.maze
        /\ d.map_ready = FALSE /\ d.hidden = FALSE
      BY <2>1 DEF Client
  <2> QED BY <1>3, <2>2, <2>3
<1>4. CASE f.round = c.round /\ c.authorized
  <2>1. d = [c EXCEPT !.round = f.round, !.phase = "playing", !.authorized = TRUE]
      BY <1>4 DEF AfterRoundStart, Client
  <2>2. d \in Client
      BY <1>1, <2>1 DEF Client
  <2>3. /\ d.welcome = c.welcome /\ d.round = f.round
        /\ d.phase = "playing" /\ d.authorized = TRUE /\ d.maze = c.maze
        /\ d.map_ready = c.map_ready /\ d.hidden = c.hidden
      BY <2>1 DEF Client
  <2> QED BY <1>4, <2>2, <2>3
<1> QED BY <1>3, <1>4

LEMMA BrickFullDoes ==
    ASSUME NEW reliable \in BOOLEAN, NEW c, NEW f, NEW d,
           c \in Client, f.round \in RoundId, f.maze \in SUBSET Brick,
           d = AfterBrickFull(c, f, reliable)
    PROVE  /\ d \in Client /\ d.welcome = c.welcome /\ d.round = c.round
           /\ d.phase = c.phase
           /\ d.authorized = c.authorized /\ d.hidden = c.hidden
           /\ f.round = c.round =>
                 d.maze = f.maze /\ d.map_ready = (c.map_ready \/ reliable)
           /\ f.round # c.round =>
                 d.maze = c.maze /\ d.map_ready = c.map_ready
<1>1. c.map_ready \/ reliable \in BOOLEAN
    BY DEF Client
<1>2. CASE f.round = c.round
  <2>1. AfterBrickFull(c, f, reliable) =
           [c EXCEPT !.maze = f.maze, !.map_of = f.round,
                     !.map_ready = c.map_ready \/ reliable]
      BY <1>2 DEF AfterBrickFull
  <2> QED BY <1>1, <1>2, <2>1 DEF Client
<1>3. CASE f.round # c.round
    BY <1>3 DEF AfterBrickFull
<1> QED BY <1>2, <1>3

LEMMA BrickDeltaDoes ==
    ASSUME NEW c, NEW f, NEW d,
           c \in Client, d = AfterBrickDelta(c, f)
    PROVE  /\ d \in Client /\ SameView(c, d) /\ d.hidden = c.hidden
           /\ IsPlaying(c, f) => d.maze = c.maze \ {f.brick}
           /\ ~IsPlaying(c, f) => d.maze = c.maze
<1>1. c.maze \ {f.brick} \in SUBSET Brick
    BY DEF Client
<1> QED BY <1>1 DEF Client, AfterBrickDelta, SameView

LEMMA RespawnDoes ==
    ASSUME NEW c, NEW f, NEW d,
           c \in Client, f.final \in BOOLEAN, d = AfterRespawn(c, f)
    PROVE  /\ d \in Client /\ SameView(c, d) /\ d.maze = c.maze
           /\ IsPlaying(c, f) => d.hidden = ~f.final
           /\ ~IsPlaying(c, f) => d.hidden = c.hidden
<1>1. (~f.final) \in BOOLEAN
    BY Zenon
<1> QED BY <1>1 DEF Client, AfterRespawn, SameView

LEMMA SnapshotDoes ==
    ASSUME NEW c, NEW f, NEW d,
           c \in Client, f.round \in RoundId, d = AfterSnapshot(c, f)
    PROVE  /\ d \in Client /\ SameView(c, d) /\ d.maze = c.maze
           /\ d.hidden = c.hidden
    BY DEF Client, AfterSnapshot, SameView

----------------------------------------------------------------------------
(* What waits when a frame has been read                                   *)

LEMMA StillWaits ==
    ASSUME SyncInv, NEW taken \in BOOLEAN, Reads(taken), NEW e,
           \E k \in DOMAIN queue : Waits(k) /\ queue[k] = e,
           taken => queue[1] # e
    PROVE  \E k \in DOMAIN queue' : Waits(k)' /\ queue'[k] = e
<1>1. queue' = queue /\ \A k : Waits(k)' <=> (Waits(k) /\ (taken => k # 1))
    BY Reading DEF Reads
<1> QED BY <1>1

\* The head is due: it does not skip a turn of the round.
LEMMA HeadDue ==
    ASSUME SyncInv, Waits(1), HasRound(queue[1]), NEW v \in Nat, LeadOn(v)
    PROVE  /\ Turns(queue[1]) => EventAt(queue[1]) \in {v, v + 1}
           /\ ~Turns(queue[1]) => EventAt(queue[1]) = v
           /\ EventAt(queue[1]) <= ServerAt
<1>1. /\ TypeInv /\ RoundsInv /\ ServerAt \in Nat
      /\ 1 \in DOMAIN queue /\ EventAt(queue[1]) \in Nat
      /\ \A k \in DOMAIN queue : k \in Nat /\ k >= 1
      /\ \A k \in DOMAIN queue : HasRound(queue[k]) => EventAt(queue[k]) \in Nat
    BY SyncTyped DEF SyncInv, Waits
<1>2. v <= EventAt(queue[1]) /\ EventAt(queue[1]) <= ServerAt
    BY <1>1 DEF LeadOn, RoundsInv
<1>3. ASSUME EventAt(queue[1]) >= v + 1,
             Turns(queue[1]) => EventAt(queue[1]) >= v + 2
      PROVE  FALSE
  <2>1. v + 1 \in v + 1 .. ServerAt
      BY <1>1, <1>2, <1>3
  <2>2. PICK k \in DOMAIN queue :
           Waits(k) /\ Turns(queue[k]) /\ EventAt(queue[k]) = v + 1
      BY <2>1 DEF LeadOn
  <2>3. k # 1
      BY <1>1, <1>3, <2>2
  <2>4. 1 < k /\ HasRound(queue[k])
      BY <1>1, <2>2, <2>3 DEF Turns, HasRound
  <2>5. EventAt(queue[1]) < EventAt(queue[k])
      BY <1>1, <2>2, <2>4 DEF RoundsInv
  <2> QED BY <1>1, <1>3, <2>2, <2>5
<1> QED BY <1>1, <1>2, <1>3

\* An event the client takes in its turn is of the round it plays.
LEMMA HeadIsOfRound ==
    ASSUME SyncInv, NEW taken \in BOOLEAN, Reads(taken), taken,
           HasRound(queue[1]), ~Turns(queue[1])
    PROVE  queue[1].round = client.round /\ client.phase = "playing"
<1>0. FALSE \in BOOLEAN
    BY Zenon
<1>1. client \in Client /\ 1 \in DOMAIN queue /\ queue[1].round \in RoundId
  <2>1. 1 \in DOMAIN queue
      BY Reading DEF Waits
  <2> QED BY <2>1, SyncTyped DEF SyncInv
<1>2. Waits(1) /\ EventAt(queue[1]) = At(queue[1].round, FALSE)
  <2>1. (queue[1].kind = "match_end") = FALSE
      BY DEF Turns
  <2>2. Waits(1)
      BY Reading
  <2> QED BY <2>1, <2>2 DEF EventAt
<1>3. LeadOn(ClientAt) /\ ClientAt \in Nat
    BY SyncClient, SyncTyped DEF ClientSync, ClientLeads, SyncInv, Reads
<1>4. PICK v : v = ClientAt
    OBVIOUS
<1>5. LeadOn(v) /\ v \in Nat
    BY <1>3, <1>4
<1>6. EventAt(queue[1]) = ClientAt
    BY <1>2, <1>4, <1>5, HeadDue
<1>7. PICK b \in BOOLEAN : b = (client.phase = "over")
    BY Zenon
<1>8. At(queue[1].round, FALSE) = At(client.round, b)
    BY <1>2, <1>6, <1>7 DEF ClientAt
<1>9. client.round \in RoundId /\ client.phase \in {"playing", "over"}
    BY <1>1, ClientIs DEF Phase
<1>10. queue[1].round = client.round /\ b = FALSE
  <2>1. PICK r \in RoundId : r = queue[1].round
      BY <1>1
  <2>2. PICK s \in RoundId : s = client.round
      BY <1>9
  <2>3. At(s, b) = At(r, FALSE)
      BY <1>8, <2>1, <2>2
  <2>4. s = r /\ b = FALSE
      BY <1>0, <2>3, AtIs
  <2> QED BY <2>1, <2>2, <2>4
<1> QED BY <1>7, <1>9, <1>10

LEMMA LeadsOn ==
    ASSUME SyncInv, NEW taken \in BOOLEAN, Reads(taken), NEW v \in Nat, LeadOn(v),
           NEW w, w = IF taken /\ HasRound(queue[1]) THEN EventAt(queue[1]) ELSE v
    PROVE  LeadOn(w)'
<1>1. /\ TypeInv /\ RoundsInv /\ ServerAt \in Nat
      /\ \A k \in DOMAIN queue : k \in Nat /\ k >= 1
    BY SyncTyped DEF SyncInv
<1>2. /\ queue' = queue /\ round_id' = round_id /\ over' = over
      /\ \A k : Waits(k)' <=> (Waits(k) /\ (taken => k # 1))
      /\ taken => Waits(1)
    BY Reading DEF Reads, roomVars
<1>3. ServerAt' = ServerAt
    BY <1>2 DEF ServerAt
<1>4. CASE taken /\ HasRound(queue[1])
  <2>1. /\ w = EventAt(queue[1]) /\ w <= ServerAt /\ w \in {v, v + 1}
        /\ 1 \in DOMAIN queue
      BY <1>2, <1>4, HeadDue DEF Waits
  <2>2. ASSUME NEW k \in DOMAIN queue', Waits(k)', HasRound(queue'[k])
        PROVE  w <= EventAt(queue'[k])
    <3>1. 1 < k
        BY <1>1, <1>2, <1>4, <2>2
    <3> QED BY <1>1, <1>2, <1>4, <2>1, <2>2, <3>1 DEF RoundsInv
  <2>3. ASSUME NEW u \in w + 1 .. ServerAt
        PROVE  \E k \in DOMAIN queue' :
                  Waits(k)' /\ Turns(queue'[k]) /\ EventAt(queue'[k]) = u
    <3>1. u \in v + 1 .. ServerAt /\ u # w
        BY <1>1, <2>1, <2>3
    <3>2. PICK k \in DOMAIN queue :
             Waits(k) /\ Turns(queue[k]) /\ EventAt(queue[k]) = u
        BY <3>1 DEF LeadOn
    <3> QED BY <1>2, <2>1, <3>1, <3>2
  <2> QED BY <1>3, <2>1, <2>2, <2>3 DEF LeadOn
<1>5. CASE ~(taken /\ HasRound(queue[1]))
  <2>1. w = v
      BY <1>5
  <2>2. ASSUME NEW u \in v + 1 .. ServerAt
        PROVE  \E k \in DOMAIN queue' :
                  Waits(k)' /\ Turns(queue'[k]) /\ EventAt(queue'[k]) = u
    <3>1. PICK k \in DOMAIN queue :
             Waits(k) /\ Turns(queue[k]) /\ EventAt(queue[k]) = u
        BY <2>2 DEF LeadOn
    <3>2. HasRound(queue[k])
        BY <3>1 DEF Turns, HasRound
    <3> QED BY <1>2, <1>5, <3>1, <3>2
  <2> QED BY <1>2, <1>3, <2>1, <2>2 DEF LeadOn
<1> QED BY <1>4, <1>5

\* The frame that is read: what the event carries, if one is taken.
IsRead(f, taken) == f = IF taken THEN queue[1] ELSE wire[1]

\* What a frame gets wrong is corrected by what still waits when it is read.
LEMMA FrameTold ==
    ASSUME SyncInv, NEW taken \in BOOLEAN, Reads(taken),
           NEW f, IsRead(f, taken)
    PROVE  /\ ~Lacks(f)
           /\ ~over => \A b \in Brick \ bricks : Keeps(f, b) =>
                 \E k \in DOMAIN queue' : Waits(k)' /\ queue'[k] = BrickDelta(round_id, b)
           /\ ~over /\ Misleads(f) =>
                 \E k \in DOMAIN queue' :
                    Waits(k)' /\ queue'[k] = Respawn(round_id, announced)
<1>1. /\ queue' = queue /\ 1 \in DOMAIN wire
      /\ \A k : Waits(k)' <=> (Waits(k) /\ (taken => k # 1))
      /\ \A k : WaitsBehind(k, 1) => Waits(k)'
      /\ taken => Waits(1)
    BY Reading DEF Reads
<1>2. /\ LacksInv /\ FallenInv /\ ActorInv
      /\ \A k \in DOMAIN queue : k \in Nat
    BY SyncTyped DEF SyncInv
<1>3. \A k \in DOMAIN queue : 1 < k => Waits(k) /\ k # 1
    BY <1>2 DEF Waits
<1>4. taken => 1 \in DOMAIN queue
    BY <1>1 DEF Waits
<1>5. ~Lacks(f)
    BY <1>1, <1>2, <1>4 DEF LacksInv, IsRead
<1>6. ASSUME ~over, NEW b \in Brick \ bricks, Keeps(f, b)
      PROVE  \E k \in DOMAIN queue' : Waits(k)' /\ queue'[k] = BrickDelta(round_id, b)
  <2>1. FallIsTold(b)
      BY <1>2, <1>6 DEF FallenInv
  <2>2. CASE taken
    <3>1. PICK k \in DOMAIN queue : 1 < k /\ queue[k] = BrickDelta(round_id, b)
        BY <1>4, <1>6, <2>1, <2>2 DEF FallIsTold, IsRead
    <3> QED BY <1>1, <1>3, <3>1
  <2>3. CASE ~taken
    <3>1. PICK k \in DOMAIN queue :
             WaitsBehind(k, 1) /\ queue[k] = BrickDelta(round_id, b)
        BY <1>1, <1>6, <2>1, <2>3 DEF FallIsTold, IsRead
    <3> QED BY <1>1, <3>1
  <2> QED BY <2>2, <2>3
<1>7. ASSUME ~over, Misleads(f)
      PROVE  \E k \in DOMAIN queue' :
                Waits(k)' /\ queue'[k] = Respawn(round_id, announced)
  <2>1. CASE taken
    <3>1. PICK k \in DOMAIN queue : 1 < k /\ queue[k] = Respawn(round_id, announced)
        BY <1>2, <1>4, <1>7, <2>1 DEF ActorInv, IsRead
    <3> QED BY <1>1, <1>3, <3>1
  <2>2. CASE ~taken
    <3>1. PICK k \in DOMAIN queue :
             WaitsBehind(k, 1) /\ queue[k] = Respawn(round_id, announced)
        BY <1>1, <1>2, <1>7, <2>2 DEF ActorInv, IsRead
    <3> QED BY <1>1, <3>1
  <2> QED BY <2>1, <2>2
<1> QED BY <1>5, <1>6, <1>7

\* A frame that does not turn the round leaves the client's place in it.
LEMMA KeepsPlace ==
    ASSUME SyncInv, NEW taken \in BOOLEAN, Reads(taken),
           taken => ~Turns(queue[1]),
           client'.welcome = client.welcome, client'.round = client.round,
           client'.phase = client.phase, client'.authorized = client.authorized
    PROVE  ClientLeads'
<1> SUFFICES ASSUME client'.welcome PROVE ClientLeads'
    BY DEF ClientLeads
<1>1. ClientLeads /\ ClientAt \in Nat
    BY SyncClient, SyncTyped DEF ClientSync, SyncInv
<1>2. PICK v : v = ClientAt
    OBVIOUS
<1>3. LeadOn(v)
    BY <1>1, <1>2 DEF ClientLeads
<1>4. taken => Waits(1)
    BY Reading
<1>5. v = IF taken /\ HasRound(queue[1]) THEN EventAt(queue[1]) ELSE v
    BY <1>1, <1>2, <1>3, <1>4, HeadDue
<1>6. LeadOn(v)'
    BY <1>1, <1>2, <1>3, <1>5, LeadsOn
<1>7. ClientAt' = v
    BY <1>2 DEF ClientAt
<1>8. LeadOn(ClientAt)'
    BY <1>6, <1>7 DEF LeadOn
<1>9. ASSUME client'.phase = "playing", ~client'.authorized
      PROVE  StartWaits(client.round)'
  <2>1. PICK r : r = client.round
      OBVIOUS
  <2>2. StartWaits(r)
      BY <1>1, <1>9, <2>1 DEF ClientLeads
  <2>3. PICK e : e = RoundStart(r)
      OBVIOUS
  <2>4. \E k \in DOMAIN queue : Waits(k) /\ queue[k] = e
      BY <2>2, <2>3 DEF StartWaits
  <2>5. taken => queue[1] # e
      BY <2>3 DEF Turns, RoundStart
  <2>6. \E k \in DOMAIN queue' : Waits(k)' /\ queue'[k] = e
      BY <2>4, <2>5, StillWaits
  <2> QED BY <2>1, <2>3, <2>6 DEF StartWaits
<1> QED BY <1>8, <1>9 DEF ClientLeads

LEMMA KeepsMap ==
    ASSUME SyncInv, NEW taken \in BOOLEAN, Reads(taken),
           taken => queue[1].kind # "brick_full",
           SameView(client, client')
    PROVE  ClientMaps'
<1> SUFFICES ASSUME client'.welcome, client'.phase = "playing", client'.authorized,
                    ~client'.map_ready
             PROVE  \E k \in DOMAIN queue' :
                       /\ Waits(k)'
                       /\ queue'[k].kind = "brick_full"
                       /\ queue'[k].round = client'.round
    BY DEF ClientMaps
<1>1. PICK k \in DOMAIN queue :
         /\ Waits(k)
         /\ queue[k].kind = "brick_full"
         /\ queue[k].round = client.round
    BY SyncClient DEF ClientSync, ClientMaps, SameView
<1>2. queue' = queue /\ Waits(k)'
    BY <1>1, Reading DEF Reads
<1> QED BY <1>1, <1>2 DEF SameView

\* A map the client had before is the map it has.
LEMMA KeepsMaze ==
    ASSUME SyncInv, NEW taken \in BOOLEAN, Reads(taken),
           taken => queue[1].kind # "brick_delta",
           client'.map_ready => /\ client.map_ready
                                /\ client'.round = client.round
                                /\ client'.maze = client.maze
    PROVE  ClientLacks' /\ ClientFallen'
<1>1. /\ round_id' = round_id /\ over' = over /\ bricks' = bricks
    BY DEF Reads, roomVars
<1>2. ClientLacks /\ ClientFallen
    BY SyncClient DEF ClientSync
<1>3. ClientLacks'
    BY <1>1, <1>2 DEF ClientLacks
<1>4. ASSUME ~over, NEW b \in Brick \ bricks, client'.map_ready,
             client'.round = round_id, b \in client'.maze
      PROVE  \E k \in DOMAIN queue' : Waits(k)' /\ queue'[k] = BrickDelta(round_id, b)
  <2>1. PICK e : e = BrickDelta(round_id, b)
      OBVIOUS
  <2>2. \E k \in DOMAIN queue : Waits(k) /\ queue[k] = e
      BY <1>2, <1>4, <2>1 DEF ClientFallen
  <2>3. taken => queue[1] # e
      BY <2>1 DEF BrickDelta
  <2>4. \E k \in DOMAIN queue' : Waits(k)' /\ queue'[k] = e
      BY <2>2, <2>3, StillWaits
  <2> QED BY <2>1, <2>4
<1>5. ClientFallen'
    BY <1>1, <1>4 DEF ClientFallen
<1> QED BY <1>3, <1>5

LEMMA KeepsActor ==
    ASSUME SyncInv, NEW taken \in BOOLEAN, Reads(taken),
           taken => queue[1].kind # "respawn",
           client'.welcome = client.welcome, client'.round = client.round,
           client'.authorized = client.authorized, client'.hidden = client.hidden
    PROVE  ClientActor'
<1>1. /\ round_id' = round_id /\ over' = over /\ announced' = announced
    BY DEF Reads, roomVars
<1>2. ClientActor
    BY SyncClient DEF ClientSync
<1> SUFFICES ASSUME ~over, client'.welcome, client'.round = round_id,
                    client'.authorized, client'.hidden = announced
             PROVE  \E k \in DOMAIN queue' :
                       Waits(k)' /\ queue'[k] = Respawn(round_id, announced)
    BY <1>1 DEF ClientActor
<1>3. PICK e : e = Respawn(round_id, announced)
    OBVIOUS
<1>4. \E k \in DOMAIN queue : Waits(k) /\ queue[k] = e
    BY <1>2, <1>3 DEF ClientActor
<1>5. taken => queue[1] # e
    BY <1>3 DEF Respawn
<1>6. \E k \in DOMAIN queue' : Waits(k)' /\ queue'[k] = e
    BY <1>4, <1>5, StillWaits
<1> QED BY <1>3, <1>6

----------------------------------------------------------------------------
(* Frame by frame                                                          *)

\* The bounds play no part in what a client does with a frame.
HIDE SyncAssumption

LEMMA ReadNothing ==
    ASSUME SyncInv, NEW taken \in BOOLEAN, Reads(taken), client' = client,
           taken => queue[1].kind = "name"
    PROVE  ClientSync'
<1>1. taken => ~Turns(queue[1])
    BY DEF Turns
<1>2. ClientLeads'
    BY <1>1, KeepsPlace
<1>3. ClientMaps'
    BY KeepsMap DEF SameView
<1>4. ClientLacks' /\ ClientFallen'
    BY KeepsMaze
<1>5. ClientActor'
    BY KeepsActor
<1> QED BY <1>2, <1>3, <1>4, <1>5 DEF ClientSync

LEMMA ReadBrickFull ==
    ASSUME SyncInv, NEW taken \in BOOLEAN, Reads(taken), client.welcome,
           NEW f \in Inner, IsRead(f, taken),
           f.kind = "brick_full", client' = AfterBrickFull(client, f, taken)
    PROVE  client' \in Client /\ client'.welcome /\ ClientSync'
<1>1. client \in Client /\ f.round \in RoundId /\ f.maze \in SUBSET Brick
    BY SyncTyped, InnerIs DEF SyncInv
<1>2. /\ client' \in Client /\ client'.welcome = client.welcome
      /\ client'.round = client.round /\ client'.phase = client.phase
      /\ client'.authorized = client.authorized /\ client'.hidden = client.hidden
      /\ f.round = client.round =>
            client'.maze = f.maze /\ client'.map_ready = (client.map_ready \/ taken)
      /\ f.round # client.round =>
            client'.maze = client.maze /\ client'.map_ready = client.map_ready
  <2>1. /\ client' \in Client /\ client'.welcome = client.welcome
        /\ client'.round = client.round /\ client'.phase = client.phase
        /\ client'.authorized = client.authorized /\ client'.hidden = client.hidden
    <3>1. PICK d : d = client'
        OBVIOUS
    <3>2. d = AfterBrickFull(client, f, taken)
        BY <3>1
    <3>3. /\ d \in Client /\ d.welcome = client.welcome
          /\ d.round = client.round /\ d.phase = client.phase
          /\ d.authorized = client.authorized /\ d.hidden = client.hidden
      <4>1. CASE f.round = client.round
        <5>1. d = [client EXCEPT !.maze = f.maze, !.map_of = f.round,
                                 !.map_ready = client.map_ready \/ taken]
            BY <3>2, <4>1 DEF AfterBrickFull
        <5>2. client.map_ready \/ taken \in BOOLEAN
            BY <1>1 DEF Client
        <5> QED BY <1>1, <5>1, <5>2 DEF Client
      <4>2. CASE f.round # client.round
        <5>1. d = client
            BY <3>2, <4>2 DEF AfterBrickFull
        <5> QED BY <1>1, <5>1
      <4> QED BY <4>1, <4>2
    <3> QED BY <3>1, <3>3
  <2>2. f.round = client.round => client'.maze = f.maze
      BY <1>1, BrickFullDoes
  <2>3. f.round = client.round => client'.map_ready = (client.map_ready \/ taken)
      BY <1>1, BrickFullDoes
  <2>4. f.round # client.round =>
           client'.maze = client.maze /\ client'.map_ready = client.map_ready
      BY <1>1, BrickFullDoes
  <2> QED BY <2>1, <2>2, <2>3, <2>4
<1>3. ClientLeads'
  <2>1. taken => ~Turns(queue[1])
      BY DEF Turns, IsRead
  <2> QED BY <1>2, <2>1, KeepsPlace
<1>4. ClientActor'
    BY <1>2, KeepsActor DEF IsRead
<1>5. /\ round_id' = round_id /\ over' = over /\ bricks' = bricks
    BY DEF Reads, roomVars
<1>6. CASE f.round # client.round
  <2>1. SameView(client, client')
      BY <1>2, <1>6 DEF SameView
  <2>2. ClientMaps'
    <3>1. CASE taken
      <4>1. f.round = client.round
          BY <3>1, HeadIsOfRound DEF HasRound, Turns, IsRead
      <4> QED BY <1>6, <4>1
    <3>2. CASE ~taken
        BY <2>1, <3>2, KeepsMap
    <3> QED BY <3>1, <3>2
  <2>3. ClientLacks' /\ ClientFallen'
    <3>1. taken => queue[1].kind # "brick_delta"
        BY DEF IsRead
    <3> QED BY <1>2, <1>6, <3>1, KeepsMaze
  <2> QED BY <1>2, <1>3, <1>4, <2>2, <2>3 DEF ClientSync
<1>7. CASE f.round = client.round
  <2>1. ClientMaps'
    <3>1. CASE taken
        BY <1>2, <1>7, <3>1 DEF ClientMaps
    <3>2. CASE ~taken
      <4>1. client'.map_ready = client.map_ready
          BY <1>1, <1>2, <1>7, <3>2, ClientIs
      <4> QED BY <1>2, <3>2, <4>1, KeepsMap DEF SameView
    <3> QED BY <3>1, <3>2
  <2>2. ClientLacks'
    <3>1. client'.round = round_id => bricks \subseteq client'.maze
        BY <1>2, <1>7, FrameTold DEF Lacks
    <3> QED BY <1>5, <3>1 DEF ClientLacks
  <2>3. ClientFallen'
    <3>1. ASSUME ~over, NEW b \in Brick \ bricks, client'.round = round_id,
                 b \in client'.maze
          PROVE  \E k \in DOMAIN queue' :
                    Waits(k)' /\ queue'[k] = BrickDelta(round_id, b)
      <4>1. Keeps(f, b)
          BY <1>2, <1>7, <3>1 DEF Keeps
      <4> QED BY <3>1, <4>1, FrameTold
    <3> QED BY <1>5, <3>1 DEF ClientFallen
  <2> QED BY <1>2, <1>3, <1>4, <2>1, <2>2, <2>3 DEF ClientSync
<1> QED BY <1>6, <1>7

LEMMA ReadBrickDelta ==
    ASSUME SyncInv, NEW taken \in BOOLEAN, Reads(taken), client.welcome,
           NEW f \in Inner, IsRead(f, taken),
           f.kind = "brick_delta", client' = AfterBrickDelta(client, f)
    PROVE  client' \in Client /\ client'.welcome /\ ClientSync'
<1>1. /\ client \in Client /\ f.round \in RoundId
      /\ f = BrickDelta(f.round, f.brick) /\ f.brick \in Brick
    BY SyncTyped, InnerIs DEF SyncInv
<1>2. /\ client' \in Client /\ SameView(client, client')
      /\ client'.hidden = client.hidden
      /\ IsPlaying(client, f) => client'.maze = client.maze \ {f.brick}
      /\ ~IsPlaying(client, f) => client'.maze = client.maze
  <2>1. PICK d : d = client'
      OBVIOUS
  <2>2. d = AfterBrickDelta(client, f)
      BY <2>1
  <2>3. /\ d \in Client /\ SameView(client, d) /\ d.hidden = client.hidden
        /\ IsPlaying(client, f) => d.maze = client.maze \ {f.brick}
        /\ ~IsPlaying(client, f) => d.maze = client.maze
      BY <1>1, <2>2, BrickDeltaDoes
  <2> QED BY <2>1, <2>3
<1>3. ClientLeads'
  <2>1. taken => ~Turns(queue[1])
      BY DEF Turns, IsRead
  <2> QED BY <1>2, <2>1, KeepsPlace DEF SameView
<1>4. ClientMaps'
    BY <1>2, KeepsMap DEF IsRead
<1>5. ClientActor'
    BY <1>2, KeepsActor DEF SameView, IsRead
<1>6. /\ round_id' = round_id /\ over' = over /\ bricks' = bricks
    BY DEF Reads, roomVars
<1>7. ClientLacks /\ ClientFallen
    BY SyncClient DEF ClientSync
<1>8. ClientLacks'
  <2>1. ASSUME client'.map_ready, client'.round = round_id
        PROVE  bricks \subseteq client'.maze
    <3>1. bricks \subseteq client.maze
        BY <1>2, <1>7, <2>1 DEF ClientLacks, SameView
    <3>2. f.round = client.round => f.brick \notin bricks
        BY <1>2, <2>1, FrameTold DEF Lacks, SameView
    <3> QED BY <1>2, <3>1, <3>2 DEF IsPlaying
  <2> QED BY <1>6, <2>1 DEF ClientLacks
<1>9. ClientFallen'
  <2>1. ASSUME ~over, NEW b \in Brick \ bricks, client'.map_ready,
               client'.round = round_id, b \in client'.maze
        PROVE  \E k \in DOMAIN queue' :
                  Waits(k)' /\ queue'[k] = BrickDelta(round_id, b)
    <3>1. PICK e : e = BrickDelta(round_id, b)
        OBVIOUS
    <3>2. \E k \in DOMAIN queue : Waits(k) /\ queue[k] = e
        BY <1>2, <1>7, <2>1, <3>1 DEF ClientFallen, SameView
    <3>3. taken => queue[1] # e
      <4>1. SUFFICES ASSUME taken, queue[1] = e PROVE FALSE
          OBVIOUS
      <4>2. f.brick = b /\ f.round = client.round
          BY <1>2, <2>1, <3>1, <4>1 DEF BrickDelta, SameView, IsRead
      <4>3. client.phase = "playing"
          BY <4>1, HeadIsOfRound DEF HasRound, Turns, IsRead
      <4> QED BY <1>2, <2>1, <4>2, <4>3 DEF IsPlaying
    <3>4. \E k \in DOMAIN queue' : Waits(k)' /\ queue'[k] = e
        BY <3>2, <3>3, StillWaits
    <3> QED BY <3>1, <3>4
  <2> QED BY <1>6, <2>1 DEF ClientFallen
<1> QED BY <1>2, <1>3, <1>4, <1>5, <1>8, <1>9 DEF ClientSync, SameView

LEMMA ReadRespawn ==
    ASSUME SyncInv, NEW taken \in BOOLEAN, Reads(taken), client.welcome,
           NEW f \in Inner, IsRead(f, taken),
           f.kind = "respawn", client' = AfterRespawn(client, f)
    PROVE  client' \in Client /\ client'.welcome /\ ClientSync'
<1>1. /\ client \in Client /\ f.round \in RoundId
      /\ f = Respawn(f.round, f.final) /\ f.final \in BOOLEAN
    BY SyncTyped, InnerIs DEF SyncInv
<1>2. /\ client' \in Client /\ SameView(client, client')
      /\ client'.maze = client.maze
      /\ IsPlaying(client, f) => client'.hidden = ~f.final
      /\ ~IsPlaying(client, f) => client'.hidden = client.hidden
    BY <1>1, RespawnDoes
<1>3. ClientLeads'
  <2>1. taken => ~Turns(queue[1])
      BY DEF Turns, IsRead
  <2> QED BY <1>2, <2>1, KeepsPlace DEF SameView
<1>4. ClientMaps'
    BY <1>2, KeepsMap DEF IsRead
<1>5. ClientLacks' /\ ClientFallen'
  <2>1. taken => queue[1].kind # "brick_delta"
      BY DEF IsRead
  <2> QED BY <1>2, <2>1, KeepsMaze DEF SameView
<1>6. /\ round_id' = round_id /\ over' = over /\ announced' = announced
    BY DEF Reads, roomVars
<1>7. ASSUME ~over, client'.welcome, client'.round = round_id,
             client'.authorized, client'.hidden = announced
      PROVE  \E k \in DOMAIN queue' :
                Waits(k)' /\ queue'[k] = Respawn(round_id, announced)
  <2>0. announced \in BOOLEAN
      BY SyncTyped DEF SyncInv
  <2>1. CASE IsPlaying(client, f)
    <3>1. f.final = ~announced /\ f.round = round_id
        BY <1>1, <1>2, <1>7, <2>0, <2>1 DEF IsPlaying, SameView
    <3>2. Misleads(f)
        BY <1>1, <3>1 DEF Misleads
    <3> QED BY <1>7, <3>2, FrameTold
  <2>2. CASE ~IsPlaying(client, f)
    <3>1. PICK e : e = Respawn(round_id, announced)
        OBVIOUS
    <3>2. \E k \in DOMAIN queue : Waits(k) /\ queue[k] = e
        BY <1>2, <1>7, <2>2, <3>1, SyncClient DEF ClientSync, ClientActor, SameView
    <3>3. taken => queue[1] # e
      <4>1. SUFFICES ASSUME taken, queue[1] = e PROVE FALSE
          OBVIOUS
      <4>2. f.round = client.round
          BY <1>2, <1>7, <3>1, <4>1 DEF Respawn, SameView, IsRead
      <4>3. client.phase = "playing"
          BY <4>1, HeadIsOfRound DEF HasRound, Turns, IsRead
      <4> QED BY <2>2, <4>2, <4>3 DEF IsPlaying
    <3>4. \E k \in DOMAIN queue' : Waits(k)' /\ queue'[k] = e
        BY <3>2, <3>3, StillWaits
    <3> QED BY <3>1, <3>4
  <2> QED BY <2>1, <2>2
<1>8. ClientActor'
    BY <1>6, <1>7 DEF ClientActor
<1> QED BY <1>2, <1>3, <1>4, <1>5, <1>8 DEF ClientSync, SameView

\* A start the client takes is its own round's, or the next one's after the results.
LEMMA StartIsDue ==
    ASSUME SyncInv, NEW taken \in BOOLEAN, Reads(taken), taken,
           NEW f \in Inner, IsRead(f, taken), f.kind = "round_start"
    PROVE  /\ EventAt(f) = At(f.round, FALSE)
           /\ \/ f.round = client.round /\ client.phase = "playing"
              \/ Pos(f.round) = Pos(client.round) + 1 /\ client.phase = "over"
<1>1. /\ client \in Client /\ client.welcome /\ client.round \in RoundId
      /\ client.phase \in {"playing", "over"}
      /\ f.round \in RoundId /\ f = RoundStart(f.round)
    BY SyncTyped, InnerIs, ClientIs DEF SyncInv, Reads, Phase
<1>2. Waits(1)
    BY Reading
<1>3. PICK v : v = ClientAt
    OBVIOUS
<1>4. LeadOn(v) /\ v \in Nat
    BY <1>1, <1>3, SyncClient, SyncTyped DEF ClientSync, ClientLeads, SyncInv
<1>5. EventAt(f) = At(f.round, FALSE)
  <2>1. (f.kind = "match_end") = FALSE
      OBVIOUS
  <2> QED BY <2>1 DEF EventAt
<1>6. EventAt(f) \in {v, v + 1}
    BY <1>2, <1>4, HeadDue DEF HasRound, Turns, IsRead
<1>7. \/ f.round = client.round /\ client.phase = "playing"
      \/ Pos(f.round) = Pos(client.round) + 1 /\ client.phase = "over"
  <2>1. PICK b \in BOOLEAN : b = (client.phase = "over")
      BY Zenon
  <2>2. v = At(client.round, b)
      BY <1>3, <2>1 DEF ClientAt
  <2>3. FALSE \in BOOLEAN
      BY Zenon
  <2>4. CASE At(f.round, FALSE) = At(client.round, b)
    <3>1. f.round = client.round /\ FALSE = b
      <4>1. PICK r \in RoundId : r = f.round
          BY <1>1
      <4>2. PICK s \in RoundId : s = client.round
          BY <1>1
      <4>3. At(s, b) = At(r, FALSE)
          BY <2>4, <4>1, <4>2
      <4>4. s = r /\ b = FALSE
          BY <2>3, <4>3, AtIs
      <4> QED BY <4>1, <4>2, <4>4
    <3>2. client.phase # "over"
        BY <2>1, <3>1, Zenon
    <3>3. client.phase = "playing"
        BY <1>1, <3>2, ClientIs DEF Phase
    <3> QED BY <3>1, <3>3
  <2>5. CASE At(f.round, FALSE) = At(client.round, b) + 1
    <3>1. Pos(f.round) = Pos(client.round) + 1 /\ b
      <4>1. PICK r \in RoundId : r = client.round
          BY <1>1
      <4>2. PICK s \in RoundId : s = f.round
          BY <1>1
      <4>3. At(s, FALSE) = At(r, b) + 1
          BY <2>5, <4>1, <4>2
      <4>4. Pos(s) = Pos(r) + 1 /\ b
          BY <2>3, <4>3, AtIs
      <4> QED BY <4>1, <4>2, <4>4
    <3> QED BY <2>1, <3>1
  <2> QED BY <1>5, <1>6, <2>2, <2>4, <2>5
<1> QED BY <1>5, <1>7

LEMMA ReadRoundStart ==
    ASSUME SyncInv, NEW taken \in BOOLEAN, Reads(taken), taken,
           NEW f \in Inner, IsRead(f, taken), f.kind = "round_start",
           client' = AfterRoundStart(client, f)
    PROVE  client' \in Client /\ client'.welcome /\ ClientSync'
<1>1. /\ client \in Client /\ client.welcome /\ client.round \in RoundId
      /\ client.phase \in {"playing", "over"}
      /\ f.round \in RoundId /\ f = RoundStart(f.round)
    BY SyncTyped, InnerIs, ClientIs DEF SyncInv, Reads, Phase
<1>2. /\ Waits(1) /\ 1 \in DOMAIN queue /\ queue' = queue
      /\ \A k : Waits(k)' <=> (Waits(k) /\ (taken => k # 1))
    BY Reading DEF Reads, Waits
<1>3. PICK v : v = ClientAt
    OBVIOUS
<1>4. LeadOn(v) /\ v \in Nat
    BY <1>1, <1>3, SyncClient, SyncTyped DEF ClientSync, ClientLeads, SyncInv
<1>5. /\ EventAt(f) = At(f.round, FALSE)
      /\ \/ f.round = client.round /\ client.phase = "playing"
         \/ Pos(f.round) = Pos(client.round) + 1 /\ client.phase = "over"
    BY StartIsDue
<1>8. Startable(client, f.round)
    BY <1>1, <1>5, NextIsNewer DEF Startable
<1>9. /\ client' \in Client /\ client'.welcome = client.welcome
      /\ client'.round = f.round /\ client'.phase = "playing"
      /\ client'.authorized = TRUE /\ client'.maze = client.maze
      /\ client'.map_ready => f.round = client.round /\ client.map_ready
      /\ client'.hidden =>
            f.round = client.round /\ client.authorized /\ client.hidden
    BY <1>1, <1>8, RoundStartDoes, Zenon
<1>10. ClientLeads'
  <2>1. PICK w : w = EventAt(f)
      OBVIOUS
  <2>2. LeadOn(w)'
      BY <1>4, <2>1, LeadsOn DEF HasRound, IsRead
  <2>3. (client'.phase = "over") = FALSE
      BY <1>9
  <2>4. ClientAt' = w
      BY <1>5, <1>9, <2>1, <2>3 DEF ClientAt
  <2>5. LeadOn(ClientAt)'
      BY <2>2, <2>4 DEF LeadOn
  <2> QED BY <1>9, <2>5 DEF ClientLeads
<1>11. ClientMaps'
  <2>1. PICK j \in DOMAIN queue :
           1 < j /\ queue[j].kind = "brick_full" /\ queue[j].round = f.round
      BY <1>2 DEF SyncInv, MapInv, IsRead
  <2>2. j \in Nat
      BY SyncTyped DEF SyncInv
  <2>3. Waits(j)'
      BY <1>2, <2>1, <2>2 DEF Waits
  <2> QED BY <1>2, <1>9, <2>1, <2>3 DEF ClientMaps
<1>12. ClientLacks' /\ ClientFallen'
  <2>1. taken => queue[1].kind # "brick_delta"
      BY DEF IsRead
  <2>2. client'.map_ready => /\ client.map_ready
                             /\ client'.round = client.round
                             /\ client'.maze = client.maze
      BY <1>9
  <2> QED BY <2>1, <2>2, KeepsMaze
<1>13. ClientActor'
  <2>1. /\ round_id' = round_id /\ over' = over /\ announced' = announced
      BY DEF Reads, roomVars
  <2>2. ASSUME ~over, client'.round = round_id, client'.hidden = announced
        PROVE  \E k \in DOMAIN queue' :
                  Waits(k)' /\ queue'[k] = Respawn(round_id, announced)
    <3>1. CASE ~announced
      <4>1. Misleads(f)
          BY <1>1, <1>9, <2>2, <3>1 DEF Misleads
      <4> QED BY <2>2, <4>1, FrameTold
    <3>2. CASE announced
      <4>0. /\ f.round = client.round /\ client.authorized /\ client.hidden
          BY <1>9, <2>2, <3>2
      <4>1. client.hidden = announced
        <5>1. announced \in BOOLEAN /\ client.hidden \in BOOLEAN
            BY <1>1, ClientIs, SyncTyped DEF SyncInv
        <5> QED BY <3>2, <4>0, <5>1
      <4>2. PICK e : e = Respawn(round_id, announced)
          OBVIOUS
      <4>3. \E k \in DOMAIN queue : Waits(k) /\ queue[k] = e
          BY <1>1, <1>9, <2>2, <4>0, <4>1, <4>2, SyncClient
             DEF ClientSync, ClientActor
      <4>4. taken => queue[1] # e
          BY <4>2 DEF Respawn, IsRead
      <4>5. \E k \in DOMAIN queue' : Waits(k)' /\ queue'[k] = e
          BY <4>3, <4>4, StillWaits
      <4> QED BY <4>2, <4>5
    <3> QED BY <3>1, <3>2
  <2> QED BY <2>1, <2>2 DEF ClientActor
<1> QED BY <1>1, <1>9, <1>10, <1>11, <1>12, <1>13 DEF ClientSync

LEMMA ReadMatchEnd ==
    ASSUME SyncInv, NEW taken \in BOOLEAN, Reads(taken), taken,
           NEW f \in Inner, IsRead(f, taken), f.kind = "match_end",
           client' = AfterMatchEnd(client, f)
    PROVE  client' \in Client /\ client'.welcome /\ ClientSync'
<1>1. /\ client \in Client /\ client.welcome /\ client.round \in RoundId
      /\ client.phase \in {"playing", "over"} /\ f.round \in RoundId
    BY SyncTyped, InnerIs, ClientIs DEF SyncInv, Reads, Phase
<1>2. Waits(1)
    BY Reading
<1>3. PICK v : v = ClientAt
    OBVIOUS
<1>4. LeadOn(v) /\ v \in Nat
    BY <1>1, <1>3, SyncClient, SyncTyped DEF ClientSync, ClientLeads, SyncInv
<1>5. EventAt(f) = At(f.round, TRUE)
  <2>1. (f.kind = "match_end") = TRUE
      OBVIOUS
  <2> QED BY <2>1 DEF EventAt
<1>6. EventAt(f) \in {v, v + 1}
    BY <1>2, <1>4, HeadDue DEF HasRound, Turns, IsRead
<1>7. f.round = client.round
  <2>1. PICK b \in BOOLEAN : b = (client.phase = "over")
      BY Zenon
  <2>2. v = At(client.round, b)
      BY <1>3, <2>1 DEF ClientAt
  <2>3. TRUE \in BOOLEAN
      BY Zenon
  <2>4. CASE At(f.round, TRUE) = At(client.round, b)
      BY <1>1, <2>3, <2>4, AtIs
  <2>5. CASE At(f.round, TRUE) = At(client.round, b) + 1
      BY <1>1, <2>3, <2>5, AtIs
  <2> QED BY <1>5, <1>6, <2>2, <2>4, <2>5
<1>8. /\ client' \in Client /\ client'.welcome = client.welcome
      /\ client'.round = client.round /\ client'.phase = "over"
      /\ client'.authorized = client.authorized
      /\ client'.map_ready = client.map_ready
      /\ client'.maze = client.maze /\ client'.hidden = client.hidden
  <2>1. PICK d : d = client'
      OBVIOUS
  <2>2. d = AfterMatchEnd(client, f)
      BY <2>1
  <2>3. /\ d \in Client /\ d.welcome = client.welcome
        /\ d.round = client.round /\ d.phase = "over"
        /\ d.authorized = client.authorized /\ d.map_ready = client.map_ready
        /\ d.maze = client.maze /\ d.hidden = client.hidden
    <3>1. d = [client EXCEPT !.phase = "over"]
        BY <1>7, <2>2 DEF AfterMatchEnd
    <3>2. "over" \in Phase
        BY DEF Phase
    <3> QED BY <1>1, <3>1, <3>2 DEF Client
  <2> QED BY <2>1, <2>3
<1>9. ClientLeads'
  <2>1. PICK w : w = EventAt(f)
      OBVIOUS
  <2>2. LeadOn(w)'
      BY <1>4, <2>1, LeadsOn DEF HasRound, IsRead
  <2>3. (client'.phase = "over") = TRUE
      BY <1>8
  <2>4. ClientAt' = w
      BY <1>5, <1>7, <1>8, <2>1, <2>3 DEF ClientAt
  <2>5. LeadOn(ClientAt)'
      BY <2>2, <2>4 DEF LeadOn
  <2> QED BY <1>8, <2>5 DEF ClientLeads
<1>10. ClientMaps'
    BY <1>8 DEF ClientMaps
<1>11. ClientLacks' /\ ClientFallen'
  <2>1. taken => queue[1].kind # "brick_delta"
      BY DEF IsRead
  <2> QED BY <1>8, <2>1, KeepsMaze
<1>12. ClientActor'
  <2>1. taken => queue[1].kind # "respawn"
      BY DEF IsRead
  <2> QED BY <1>8, <2>1, KeepsActor
<1> QED BY <1>1, <1>8, <1>9, <1>10, <1>11, <1>12 DEF ClientSync

LEMMA ReadSnapshot ==
    ASSUME SyncInv, NEW taken \in BOOLEAN, Reads(taken), ~taken, client.welcome,
           NEW f, f.round \in RoundId, client' = AfterSnapshot(client, f)
    PROVE  client' \in Client /\ client'.welcome /\ ClientSync'
<1>1. client \in Client
    BY SyncTyped DEF SyncInv
<1>2. /\ client' \in Client /\ SameView(client, client')
      /\ client'.maze = client.maze /\ client'.hidden = client.hidden
    BY <1>1, SnapshotDoes, Zenon
<1>3. ClientLeads'
    BY <1>2, KeepsPlace DEF SameView
<1>4. ClientMaps'
    BY <1>2, KeepsMap DEF IsRead
<1>5. ClientLacks' /\ ClientFallen'
    BY <1>2, KeepsMaze DEF SameView
<1>6. ClientActor'
    BY <1>2, KeepsActor DEF SameView, IsRead
<1> QED BY <1>2, <1>3, <1>4, <1>5, <1>6 DEF ClientSync, SameView

LEMMA ReadWelcome ==
    ASSUME SyncInv, NEW taken \in BOOLEAN, Reads(taken), ~taken,
           NEW f \in Frame, IsRead(f, taken), f.kind = "welcome",
           client' = AfterWelcome(client, f)
    PROVE  client' \in Client /\ client'.welcome /\ ClientSync'
<1>1. client \in Client /\ f.round \in RoundId /\ f.phase \in Phase
    BY SyncTyped, FrameIs DEF SyncInv
<1>2. /\ client' \in Client /\ client'.welcome = TRUE /\ client'.round = f.round
      /\ client'.phase = f.phase /\ client'.authorized = FALSE
      /\ client'.map_ready = FALSE
    BY <1>1, WelcomeDoes, Zenon
<1>3. PICK v : v = At(f.round, f.phase = "over")
    OBVIOUS
<1>4. /\ LeadOn(v)
      /\ f.phase = "playing" => StartWaits(f.round)
    BY <1>3, Reading DEF SyncInv, RoundsInv, IsRead
<1>5. v \in Nat
  <2>1. PICK b \in BOOLEAN : b = (f.phase = "over")
      BY Zenon
  <2> QED BY <1>1, <1>3, <2>1, AtIs
<1>6. LeadOn(v)'
    BY <1>4, <1>5, LeadsOn
<1>7. ClientAt' = v
    BY <1>2, <1>3 DEF ClientAt
<1>8. LeadOn(ClientAt)'
    BY <1>6, <1>7 DEF LeadOn
<1>9. ASSUME f.phase = "playing" PROVE StartWaits(client.round)'
  <2>1. PICK e : e = RoundStart(f.round)
      OBVIOUS
  <2>2. \E k \in DOMAIN queue : Waits(k) /\ queue[k] = e
      BY <1>4, <1>9, <2>1 DEF StartWaits
  <2>3. \E k \in DOMAIN queue' : Waits(k)' /\ queue'[k] = e
      BY <2>2, StillWaits
  <2> QED BY <1>2, <2>1, <2>3 DEF StartWaits
<1>10. ClientLeads'
    BY <1>2, <1>8, <1>9 DEF ClientLeads
<1>11. ClientMaps' /\ ClientLacks' /\ ClientFallen' /\ ClientActor'
    BY <1>2 DEF ClientMaps, ClientLacks, ClientFallen, ClientActor
<1> QED BY <1>2, <1>10, <1>11 DEF ClientSync

----------------------------------------------------------------------------
(* The steps of the client, and the whole                                  *)

LEMMA ReadDirect ==
    ASSUME SyncInv, NEW taken \in BOOLEAN, Reads(taken), ~taken,
           NEW f \in Frame, IsRead(f, taken), ~IsEvent(f),
           client' = AfterFrame(client, f, taken)
    PROVE  /\ client' \in Client /\ ClientSync'
           /\ client'.welcome \/ client' = client
<1>1. /\ f.kind \in {"welcome", "brick_full", "brick_delta", "respawn", "snapshot"}
      /\ f.kind \notin {"welcome", "snapshot"} => f \in Inner
      /\ f.kind = "snapshot" => f.round \in RoundId
  <2>1. f.kind \in {"welcome", "event", "brick_full", "brick_delta", "respawn",
                    "snapshot"}
      BY Reading DEF SyncInv, WireInv, IsRead
  <2> QED BY <2>1, FrameIs DEF IsEvent
<1>2. client \in Client
    BY SyncTyped DEF SyncInv
<1>3. CASE f.kind = "welcome"
  <2>1. client' = AfterWelcome(client, f)
      BY <1>3 DEF AfterFrame
  <2> QED BY <1>3, <2>1, ReadWelcome
<1>4. CASE f.kind # "welcome" /\ ~client.welcome
  <2>1. client' = client
      BY <1>4 DEF AfterFrame
  <2> QED BY <1>2, <2>1, ReadNothing
<1>5. CASE client.welcome /\ f.kind = "brick_full"
  <2>1. client' = AfterBrickFull(client, f, taken)
      BY <1>5 DEF AfterFrame
  <2> QED BY <1>1, <1>5, <2>1, ReadBrickFull
<1>6. CASE client.welcome /\ f.kind = "brick_delta"
  <2>1. client' = AfterBrickDelta(client, f)
      BY <1>6 DEF AfterFrame
  <2> QED BY <1>1, <1>6, <2>1, ReadBrickDelta
<1>7. CASE client.welcome /\ f.kind = "respawn"
  <2>1. client' = AfterRespawn(client, f)
      BY <1>7 DEF AfterFrame
  <2> QED BY <1>1, <1>7, <2>1, ReadRespawn
<1>8. CASE client.welcome /\ f.kind = "snapshot"
  <2>1. client' = AfterSnapshot(client, f)
      BY <1>8 DEF AfterFrame
  <2> QED BY <1>1, <1>8, <2>1, ReadSnapshot
<1> QED BY <1>1, <1>3, <1>4, <1>5, <1>6, <1>7, <1>8

LEMMA ReadEvent ==
    ASSUME SyncInv, NEW taken \in BOOLEAN, Reads(taken), taken,
           NEW f \in Inner, IsRead(f, taken), client' = AfterFrame(client, f, taken)
    PROVE  client' \in Client /\ client'.welcome /\ ClientSync'
<1>1. /\ f.kind \in {"round_start", "match_end", "brick_full", "brick_delta",
                     "respawn", "name"}
      /\ client \in Client /\ client.welcome
    BY InnerIs, SyncTyped DEF SyncInv, Reads
<1>2. CASE f.kind = "round_start"
  <2>1. client' = AfterRoundStart(client, f)
      BY <1>1, <1>2 DEF AfterFrame
  <2> QED BY <1>2, <2>1, ReadRoundStart
<1>3. CASE f.kind = "match_end"
  <2>1. client' = AfterMatchEnd(client, f)
      BY <1>1, <1>3 DEF AfterFrame
  <2> QED BY <1>3, <2>1, ReadMatchEnd
<1>4. CASE f.kind = "brick_full"
  <2>1. client' = AfterBrickFull(client, f, taken)
      BY <1>1, <1>4 DEF AfterFrame
  <2> QED BY <1>1, <1>4, <2>1, ReadBrickFull
<1>5. CASE f.kind = "brick_delta"
  <2>1. client' = AfterBrickDelta(client, f)
      BY <1>1, <1>5 DEF AfterFrame
  <2> QED BY <1>1, <1>5, <2>1, ReadBrickDelta
<1>6. CASE f.kind = "respawn"
  <2>1. client' = AfterRespawn(client, f)
      BY <1>1, <1>6 DEF AfterFrame
  <2> QED BY <1>1, <1>6, <2>1, ReadRespawn
<1>7. CASE f.kind = "name"
  <2>1. client' = client
      BY <1>1, <1>7 DEF AfterFrame
  <2> QED BY <1>1, <1>7, <2>1, ReadNothing DEF IsRead
<1> QED BY <1>1, <1>2, <1>3, <1>4, <1>5, <1>6, <1>7

LEMMA StepReceive ==
    ASSUME SyncInv, Receive
    PROVE  SyncInv'
<1>1. /\ wire # <<>> /\ wire' = Tail(wire)
      /\ UNCHANGED <<session, roomVars, echoVars, queue>>
    BY DEF Receive
<1>2. PICK f : f = Head(wire)
    OBVIOUS
<1>3. /\ TypeInv /\ WireInv /\ wire \in Seq(Frame) /\ client \in Client
      /\ ~client.welcome => ~client.map_ready /\ ~head_applied
    BY SyncTyped DEF SyncInv, WireInv
<1>4. f = wire[1] /\ f \in Frame /\ 1 \in DOMAIN wire
    BY <1>1, <1>2, <1>3, HeadTailProperties, EmptySeq, ElementOfSeq, LenProperties
<1>5. TRUE \in BOOLEAN /\ FALSE \in BOOLEAN
    BY Zenon
<1>6. CASE ~IsEvent(f) /\ client' = AfterFrame(client, f, FALSE)
           /\ UNCHANGED head_applied
  <2>1. Reads(FALSE)
      BY <1>1, <1>6 DEF Reads
  <2>2. /\ client' \in Client /\ ClientSync'
        /\ client'.welcome \/ client' = client
      BY <1>4, <1>5, <1>6, <2>1, ReadDirect DEF IsRead
  <2>3. ~client'.welcome => ~client'.map_ready /\ ~head_applied'
      BY <1>3, <1>6, <2>2
  <2> QED BY <1>5, <2>1, <2>2, <2>3, ReadKeeps
<1>7. CASE IsEvent(f) /\ TakesEvents(client) /\ head_applied' = TRUE
           /\ client' = AfterFrame(client, f.inner, TRUE)
  <2>1. Reads(TRUE)
      BY <1>1, <1>4, <1>7 DEF Reads, TakesEvents
  <2>2. f.inner = queue[1] /\ f.inner \in Inner
    <3>1. f.inner \in Inner /\ f = Event(f.inner)
        BY <1>4, <1>7, FrameIs DEF IsEvent
    <3>2. f = Event(queue[1])
        BY <1>4, <1>5, <2>1, Reading
    <3> QED BY <3>1, <3>2 DEF Event
  <2>3. client' \in Client /\ client'.welcome /\ ClientSync'
      BY <1>5, <1>7, <2>1, <2>2, ReadEvent DEF IsRead
  <2> QED BY <1>5, <2>1, <2>3, ReadKeeps
<1>8. CASE IsEvent(f) /\ ~TakesEvents(client) /\ UNCHANGED <<client, head_applied>>
  <2>1. Reads(FALSE) /\ client' = client /\ head_applied' = head_applied
      BY <1>1, <1>8 DEF Reads
  <2>2. ClientSync'
      BY <1>5, <2>1, ReadNothing
  <2> QED BY <1>3, <1>5, <2>1, <2>2, ReadKeeps
<1> QED BY <1>2, <1>6, <1>7, <1>8 DEF Receive

LEMMA StepNothing ==
    ASSUME SyncInv, UNCHANGED vars
    PROVE  SyncInv'
<1> USE DEF vars, roomVars, echoVars, streamVars
<1>1. /\ TypeInv' /\ WireInv' /\ MapInv'
    BY DEF SyncInv, TypeInv, TypeOK, WireInv, MapInv, Waits
<1>2. RoundsInv'
    BY DEF SyncInv, RoundsInv, LeadOn, StartWaits, Waits, ServerAt, ClientAt
<1>3. LacksInv' /\ EchoInv'
    BY DEF SyncInv, LacksInv, Lacks, EchoInv
<1>4. FallenInv'
    BY DEF SyncInv, FallenInv, FallIsTold, Keeps, Waits, WaitsBehind
<1>5. ActorInv'
    BY DEF SyncInv, ActorInv, Misleads, Waits, WaitsBehind
<1> QED BY <1>1, <1>2, <1>3, <1>4, <1>5 DEF SyncInv

LEMMA InitSync ==
    ASSUME Init
    PROVE  SyncInv
<1>1. /\ session = "joining" /\ round_id = RoundMod - 1 /\ over \in BOOLEAN
      /\ bricks \in SUBSET Brick /\ announced = FALSE
      /\ brick_echo \in [Brick -> 0 .. BrickRepeats]
      /\ \A b \in Brick : brick_echo[b] > 0 => ~over /\ b \notin bricks
      /\ respawn_echo = RespawnEcho(0, round_id, FALSE)
      /\ queue = <<>> /\ head_applied = FALSE /\ wire = <<>> /\ client = NewClient
    BY DEF Init
<1>2. round_id \in RoundId /\ Pos(round_id) = 0 /\ LastRound \in RoundId
    BY <1>1, FramesAssumption, SyncAssumption DEF RoundId, Pos
<1>3. DOMAIN queue = {} /\ DOMAIN wire = {} /\ Len(queue) = 0 /\ Len(wire) = 0
    BY <1>1
<1>4. /\ client \in Client /\ ~client.welcome /\ ~client.map_ready
  <2>1. "over" \in Phase /\ 0 \in RoundId /\ FALSE \in BOOLEAN /\ {} \in SUBSET Brick
      BY FramesAssumption DEF Phase, RoundId
  <2> QED BY <1>1, <2>1 DEF NewClient, Client
<1>5. TypeInv
  <2>1. announced \in BOOLEAN /\ head_applied \in BOOLEAN /\ bricks \subseteq Brick
      BY <1>1
  <2>2. respawn_echo \in {RespawnEcho(n, r, up) :
                            n \in 0 .. RespawnRepeats, r \in RoundId, up \in BOOLEAN}
    <3>1. 0 \in 0 .. RespawnRepeats
        BY SyncAssumption
    <3>2. FALSE \in BOOLEAN
        BY Zenon
    <3>3. \E n \in 0 .. RespawnRepeats, r \in RoundId, up \in BOOLEAN :
             respawn_echo = RespawnEcho(n, r, up)
        BY <1>1, <1>2, <3>1, <3>2, Zenon
    <3> QED BY <3>3
  <2>3. queue \in Seq(Inner) /\ wire \in Seq(Frame)
      BY <1>1, EmptySeq
  <2>4. \A k \in 1 .. Len(queue) : queue[k] \in Inner
      BY <1>3
  <2>5. \A k \in 1 .. Len(wire) : wire[k] \in Frame
      BY <1>3
  <2>6. Len(queue) <= QueueMax /\ Len(wire) <= WireCap
      BY <1>3, SyncAssumption
  <2>7. head_applied => queue # <<>>
      BY <1>1
  <2>8. session \in {"joining", "seated", "closed"}
      BY <1>1
  <2>10. /\ over \in BOOLEAN
         /\ brick_echo \in [Brick -> 0 .. BrickRepeats]
      BY <1>1
  <2>9. TypeOK
      BY <1>2, <1>4, <2>1, <2>2, <2>4, <2>5, <2>6, <2>7, <2>8, <2>10 DEF TypeOK
  <2> QED BY <2>3, <2>9 DEF TypeInv
<1>6. WireInv
    BY <1>1, <1>3, <1>4 DEF WireInv
<1>7. RoundsInv
  <2>1. Pos(round_id) <= Pos(LastRound)
      BY <1>2, PosIs DEF Pos
  <2> QED BY <1>3, <1>4, <2>1 DEF RoundsInv
<1>8. MapInv
    BY <1>3, <1>4 DEF MapInv
<1>9. LacksInv
    BY <1>3, <1>4 DEF LacksInv
<1>10. FallenInv
    BY <1>3, <1>4 DEF FallenInv, FallIsTold
<1>11. ActorInv
    BY <1>3, <1>4 DEF ActorInv
<1>12. EchoInv
  <2>1. respawn_echo.left = 0
      BY <1>1 DEF RespawnEcho
  <2>2. ~(respawn_echo.left > 0)
      BY <2>1
  <2> QED BY <1>1, <2>2, Zenon DEF EchoInv
<1> QED BY <1>5, <1>6, <1>7, <1>8, <1>9, <1>10, <1>11, <1>12 DEF SyncInv

LEMMA SyncStep ==
    ASSUME SyncInv, [Next]_vars
    PROVE  SyncInv'
<1>1. CASE Hello
    BY <1>1, StepHello
<1>2. CASE Tick
    BY <1>2, StepTick
<1>3. CASE ResetRound
    BY <1>3, StepResetRound
<1>4. CASE \E b \in Brick : BrickRequest(b)
    BY <1>4, StepBrickRequest
<1>5. CASE RespawnRequest
    BY <1>5, StepRespawnRequest
<1>6. CASE RotateName
    BY <1>6, StepRotateName
<1>7. CASE Resync
    BY <1>7, StepResync
<1>8. CASE Resend
    BY <1>8, StepResend
<1>9. CASE Ack
    BY <1>9, StepAck
<1>10. CASE Drop
    BY <1>10, StepDrop
<1>11. CASE Receive
    BY <1>11, StepReceive
<1>12. CASE Closed
    BY <1>12, StepNothing DEF Closed
<1>13. CASE UNCHANGED vars
    BY <1>13, StepNothing
<1> QED
    BY <1>1, <1>2, <1>3, <1>4, <1>5, <1>6, <1>7, <1>8, <1>9, <1>10, <1>11, <1>12, <1>13
       DEF Next

LEMMA QuietIsEqual ==
    ASSUME SyncInv, client.welcome, queue = <<>>, wire = <<>>
    PROVE  /\ client.round = round_id
           /\ client.phase = "over" <=> over
           /\ ~over => /\ client.authorized /\ client.map_ready
                       /\ client.maze = bricks
                       /\ client.hidden = ~announced
<1>1. DOMAIN queue = {}
    OBVIOUS
<1>2. /\ ClientLeads /\ ClientMaps /\ ClientLacks /\ ClientFallen /\ ClientActor
      /\ client \in Client /\ round_id \in RoundId /\ over \in BOOLEAN
      /\ bricks \in SUBSET Brick /\ announced \in BOOLEAN
      /\ ServerAt \in Nat /\ ClientAt \in Nat
    BY SyncClient, SyncTyped DEF SyncInv, ClientSync
<1>3. /\ client.round \in RoundId /\ client.phase \in {"playing", "over"}
      /\ client.maze \in SUBSET Brick /\ client.hidden \in BOOLEAN
    BY <1>2, ClientIs DEF Phase
<1>4. ClientAt = ServerAt
  <2>1. PICK v : v = ClientAt
      OBVIOUS
  <2>2. v \in Nat /\ LeadOn(v)
      BY <1>2, <2>1 DEF ClientLeads
  <2>3. v <= ServerAt /\ v + 1 .. ServerAt = {}
      BY <1>1, <2>2 DEF LeadOn
  <2>4. v = ServerAt
      BY <1>2, <2>2, <2>3
  <2> QED BY <2>1, <2>4
<1>5. client.round = round_id /\ (client.phase = "over" <=> over)
  <2>1. PICK b \in BOOLEAN : b = (client.phase = "over")
      BY Zenon
  <2>2. PICK r \in RoundId : r = client.round
      BY <1>3
  <2>3. At(r, b) = At(round_id, over)
      BY <1>4, <2>1, <2>2 DEF ClientAt, ServerAt
  <2>4. r = round_id /\ b = over
      BY <1>2, <2>3, AtIs
  <2>5. client.round = round_id
      BY <2>2, <2>4
  <2>6. client.phase = "over" <=> over
    <3>1. b <=> over
        BY <2>4
    <3> QED BY <2>1, <3>1, Zenon
  <2> QED BY <2>5, <2>6
<1>6. ASSUME ~over
      PROVE  /\ client.authorized /\ client.map_ready
             /\ client.maze = bricks
             /\ client.hidden = ~announced
  <2>1. client.phase = "playing"
      BY <1>3, <1>5, <1>6
  <2>2. client.authorized
      BY <1>1, <1>2, <2>1 DEF ClientLeads, StartWaits
  <2>3. client.map_ready
      BY <1>1, <1>2, <2>1, <2>2 DEF ClientMaps
  <2>4. bricks \subseteq client.maze
      BY <1>2, <1>5, <2>3 DEF ClientLacks
  <2>5. \A b \in Brick \ bricks : b \notin client.maze
      BY <1>1, <1>2, <1>5, <1>6, <2>3 DEF ClientFallen
  <2>6. client.maze = bricks
      BY <1>3, <2>4, <2>5
  <2>7. client.hidden # announced
      BY <1>1, <1>2, <1>5, <1>6, <2>2 DEF ClientActor
  <2>8. client.hidden = ~announced
    <3>1. PICK a \in BOOLEAN, h \in BOOLEAN : a = announced /\ h = client.hidden
        BY <1>2, <1>3
    <3>2. h # a
        BY <2>7, <3>1
    <3>3. h = ~a
        BY <3>2
    <3> QED BY <3>1, <3>3
  <2> QED BY <2>2, <2>3, <2>6, <2>8
<1> QED BY <1>5, <1>6

\* Only a start makes a phase "playing" again.
LEMMA PhaseStays ==
    ASSUME NEW c \in Client, NEW f, NEW reliable, c.welcome,
           f.kind \notin {"welcome", "round_start"},
           c.phase = "over"
    PROVE  AfterFrame(c, f, reliable).phase = "over"
<1> DEFINE d == AfterFrame(c, f, reliable)
<1>1. d \in {c, AfterMatchEnd(c, f), AfterBrickFull(c, f, reliable),
             AfterBrickDelta(c, f), AfterRespawn(c, f), AfterSnapshot(c, f)}
    BY DEF AfterFrame
<1>2. AfterMatchEnd(c, f).phase = "over"
    BY DEF AfterMatchEnd, Client
<1>3. AfterBrickFull(c, f, reliable).phase = "over"
    BY DEF AfterBrickFull, Client
<1>4. AfterBrickDelta(c, f).phase = "over" /\ AfterRespawn(c, f).phase = "over"
    BY DEF AfterBrickDelta, AfterRespawn, Client
<1>5. AfterSnapshot(c, f).phase = "over"
    BY DEF AfterSnapshot, Client
<1> HIDE DEF d
<1>6. d.phase = "over"
    BY <1>1, <1>2, <1>3, <1>4, <1>5
<1> QED BY <1>6 DEF d

\* A client that sees results plays again only in the next round.
LEMMA ReceiveTurns ==
    ASSUME SyncInv, Receive, client.welcome, client.phase = "over",
           client'.phase = "playing"
    PROVE  IsNewer(client'.round, client.round)
<1>1. /\ wire # <<>> /\ wire' = Tail(wire)
      /\ UNCHANGED <<session, roomVars, echoVars, queue>>
    BY DEF Receive
<1>2. PICK f : f = Head(wire)
    OBVIOUS
<1>3. TypeInv /\ WireInv /\ wire \in Seq(Frame) /\ client \in Client
    BY SyncTyped DEF SyncInv
<1>4. f = wire[1] /\ f \in Frame /\ 1 \in DOMAIN wire
    BY <1>1, <1>2, <1>3, HeadTailProperties, EmptySeq, ElementOfSeq, LenProperties
<1>5. TRUE \in BOOLEAN
    BY Zenon
<1>6. client' # client
    OBVIOUS
<1>7. ASSUME client' = AfterFrame(client, f, FALSE), ~IsEvent(f)
      PROVE  FALSE
  <2>1. f.kind \in {"brick_full", "brick_delta", "respawn", "snapshot"}
      BY <1>3, <1>4, <1>7 DEF WireInv, IsEvent
  <2>2. client'.phase = "over"
      BY <1>3, <1>7, <2>1, PhaseStays
  <2> QED BY <2>2
<1>8. /\ IsEvent(f) /\ head_applied' = TRUE
      /\ client' = AfterFrame(client, f.inner, TRUE)
    BY <1>2, <1>6, <1>7 DEF Receive
<1>9. Reads(TRUE)
    BY <1>1, <1>4, <1>8 DEF Reads
<1>10. f.inner = queue[1] /\ f.inner \in Inner
  <2>1. f.inner \in Inner /\ f = Event(f.inner)
      BY <1>4, <1>8, FrameIs DEF IsEvent
  <2>2. f = Event(queue[1])
      BY <1>4, <1>5, <1>9, Reading
  <2> QED BY <2>1, <2>2 DEF Event
<1>11. PICK e \in Inner : e = f.inner
    BY <1>10
<1>12. e.kind = "round_start"
  <2>1. e.kind # "welcome"
      BY InnerIs
  <2>2. client' = AfterFrame(client, e, TRUE)
      BY <1>8, <1>11
  <2>3. SUFFICES ASSUME e.kind # "round_start" PROVE FALSE
      OBVIOUS
  <2>4. client'.phase = "over"
      BY <1>3, <2>1, <2>2, <2>3, PhaseStays
  <2> QED BY <2>4
<1>13. Pos(e.round) = Pos(client.round) + 1
  <2>1. IsRead(e, TRUE)
      BY <1>10, <1>11 DEF IsRead
  <2>2. \/ e.round = client.round /\ client.phase = "playing"
        \/ Pos(e.round) = Pos(client.round) + 1 /\ client.phase = "over"
      BY <1>5, <1>9, <1>12, <2>1, StartIsDue
  <2> QED BY <2>2
<1>14. e.round \in RoundId /\ client.round \in RoundId
    BY <1>3, <1>12, InnerIs, ClientIs
<1>15. IsNewer(e.round, client.round)
    BY <1>13, <1>14, NextIsNewer
<1>16. client'.round = e.round
  <2>1. client' = AfterRoundStart(client, e)
      BY <1>8, <1>11, <1>12 DEF AfterFrame
  <2>2. Startable(client, e.round)
      BY <1>15 DEF Startable
  <2> QED BY <1>3, <1>14, <2>1, <2>2, RoundStartDoes, Zenon
<1> QED BY <1>15, <1>16

----------------------------------------------------------------------------
(* What a room sends in every behaviour                                    *)

\* Queue, wire and client fit together in every state: what the client lacks,
\* or has wrong, of round, map, bricks and its own actor is told by an event
\* that it has still to apply (the order of the sends in send_round_state,
\* step_shots, enter_round_over and reset_round, and the barrier of
\* handle_packet).
THEOREM SyncInvariance == Spec => []SyncInv
<1>1. Init => SyncInv
    BY InitSync
<1>2. SyncInv /\ [Next]_vars => SyncInv'
    BY SyncStep
<1> QED BY <1>1, <1>2, PTL DEF Spec

\* No echo, late delta or map of another round takes a brick from a client in
\* the server's round that still stands there (queue_brick_echo and
\* flush_brick_echo, enter_round_over and reset_round against handle_packet).
THEOREM MazeCorrect == Spec => []MazeNeverLacks
<1>1. SyncInv => MazeNeverLacks
    BY DEF SyncInv, LacksInv, MazeNeverLacks
<1> QED BY <1>1, SyncInvariance, PTL

\* When the stream is quiet the client agrees with the server, whatever was
\* lost, echoed or overtaken on the way (reliable_q of the server, the
\* handlers of handle_packet).
THEOREM QuietCorrect == Spec => []QuietMeansEqual
<1>1. SyncInv => QuietMeansEqual
    BY QuietIsEqual DEF QuietMeansEqual
<1> QED BY <1>1, SyncInvariance, PTL

\* The results of a round stay until a newer round starts (the round_is_newer
\* guards of handle_packet and the order in which the server tells rounds).
THEOREM ResultsCorrect == Spec => ResultsStay
<1>1. SyncInv /\ [Next]_vars =>
         [client.welcome /\ client.phase = "over" /\ client'.phase = "playing"
            => IsNewer(client'.round, client.round)]_vars
  <2> SUFFICES ASSUME SyncInv, [Next]_vars,
                      client.welcome, client.phase = "over",
                      client'.phase = "playing"
               PROVE  IsNewer(client'.round, client.round)
      OBVIOUS
  <2>1. CASE UNCHANGED client
      BY <2>1
  <2>2. CASE client' = NewClient
      BY <2>2 DEF NewClient
  <2>3. CASE Receive
      BY <2>3, ReceiveTurns
  <2> QED BY <2>1, <2>2, <2>3, ClientStep
<1> QED BY <1>1, SyncInvariance, PTL DEF Spec, ResultsStay
=============================================================================
