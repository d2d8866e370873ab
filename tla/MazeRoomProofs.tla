--------------------------- MODULE MazeRoomProofs ---------------------------
(***************************************************************************)
(* What holds of a room for every number of seats and zombies, every maze, *)
(* kill limit and input.  The invariants are stacked: each section adds    *)
(* one to those proved before it.                                          *)
(***************************************************************************)
EXTENDS MazeRoom, TLAPS, FiniteSetTheorems, WellFoundedInduction

USE SeatAssumption, BoardAssumption, RoomAssumption

----------------------------------------------------------------------------
(* The operators of Seats and Board                                        *)

\* The lowest slot of a nonempty set of slots is one of them.
LEMMA MinOfSlots ==
    ASSUME NEW S, S \subseteq Slot, S # {}
    PROVE  Min(S) \in S /\ \A x \in S : Min(S) <= x
<1> DEFINE R == {ss \in Nat \X Nat : ss[1] < ss[2]}
<1>1. OpToRel(<, Nat) = R
    BY Zenon DEF OpToRel
<1>2. IsWellFoundedOn(R, Nat)
    BY <1>1, NatLessThanWellFounded, Zenon
<1>3. S \subseteq Nat
    BY DEF Slot
<1>4. \E n \in S : \A m \in S : <<m, n>> \notin R
  <2> HIDE DEF R
  <2> QED BY <1>2, <1>3, WFMin, Zenon
<1>5. PICK n \in S : \A m \in S : <<m, n>> \notin R
    BY <1>4
<1>6. ASSUME NEW m \in S PROVE n <= m
  <2>1. m \in Nat /\ n \in Nat
      BY <1>3
  <2>2. ~(m < n)
      BY <2>1, <1>5
  <2> QED BY <2>1, <2>2
<1> QED BY <1>6 DEF Min

\* An allocated slot is a slot.
LEMMA AllocIsSlot ==
    ASSUME NEW c, NEW i \in AllocClientSlot(c)
    PROVE  i \in Slot
<1> DEFINE humanSeats == Slot \ ZombieMask(c)
           free == {k \in humanSeats : c[k] = "free"}
           replaceable == {k \in humanSeats : c[k] = "pending"}
           anyFree == {k \in Slot : c[k] = "free"}
<1>1. free # {} => Min(free) \in Slot
    BY MinOfSlots
<1>2. replaceable # {} => Min(replaceable) \in Slot
    BY MinOfSlots
<1>3. anyFree # {} => Min(anyFree) \in Slot
    BY MinOfSlots
<1> QED BY <1>1, <1>2, <1>3, Zenon DEF AllocClientSlot

LEMMA SeatsAreSlots ==
    ASSUME NEW c
    PROVE  /\ Humans(c) \subseteq Slot
           /\ ZombieMask(c) \subseteq Slot
           /\ Seated(c) \subseteq Slot
    BY DEF Humans, ZombieMask, Seated

\* A spawn is a cell of the grid with neither brick nor actor.
LEMMA SpawnIsFree ==
    ASSUME NEW b, NEW a, NEW c \in SpawnCells(b, a)
    PROVE  c \in Cell /\ c \notin b /\ c \notin a
    BY Zenon DEF SpawnCells, FreeCells

\* Nothing is added to the maze by a hit.
LEMMA BrokenShrinks ==
    ASSUME NEW b, NEW c
    PROVE  /\ Broken(b, c) \subseteq b
           /\ Broken(b, c) \cap OuterWall = b \cap OuterWall
    BY DEF Broken

----------------------------------------------------------------------------
(* Types                                                                   *)

\* The shots a tick has still to move are in flight: StepShot reads them.
ShotsToStep == phase = "shots" => \A i \in todo : shot[i] # NoShot

TypeInv == TypeOK /\ ShotsToStep

LEMMA InitType == Init => TypeInv
<1> SUFFICES ASSUME Init PROVE TypeInv
    OBVIOUS
<1>1. 1 % RoundIds \in 0 .. RoundIds - 1
    OBVIOUS
<1>2. hist \subseteq Slot
    BY SeatsAreSlots DEF Init
<1>3. score \in [Slot -> 0 .. KillLimit]
    BY DEF Init
<1>4. cell \in [Slot -> Cell]
    BY DEF Init
<1>5. shot \in [Slot -> Shot \cup {NoShot}]
    BY DEF Init, NoShots
<1>6. conn \in [Slot -> Connection] /\ dead \in [Slot -> BOOLEAN]
      /\ shown \in [Slot -> {"hidden", "visible"}]
    BY DEF Init, Connection
<1>7. TypeOK
    BY <1>1, <1>2, <1>3, <1>4, <1>5, <1>6 DEF Init, TypeOK
<1> QED BY <1>7 DEF Init, TypeInv, ShotsToStep

\* What the reset barrier leaves behind has the right type.
LEMMA ResetRoundType ==
    ASSUME TypeInv, NEW c, NEW st \in {"playing", "dormant"},
           ResetRound(c, st)
    PROVE  /\ round_state' \in {"playing", "over", "dormant"}
           /\ round_id' \in 0 .. RoundIds - 1
           /\ result' \in Result \cup {NoResult}
           /\ hist' \subseteq Slot
           /\ occupied' \subseteq Slot
           /\ cell' \in [Slot -> Cell]
           /\ dead' \in [Slot -> BOOLEAN]
           /\ shown' \in [Slot -> {"hidden", "visible"}]
           /\ bricks' \subseteq Layout
           /\ score' \in [Slot -> 0 .. KillLimit]
           /\ shot' \in [Slot -> Shot \cup {NoShot}]
<1>1. round_id' \in 0 .. RoundIds - 1
    BY DEF ResetRound, NextRoundId, TypeInv, TypeOK
<1>2. hist' \subseteq Slot /\ occupied' \subseteq Slot
    BY SeatsAreSlots DEF ResetRound
<1>3. cell' \in [Slot -> Cell]
    BY DEF ResetRound, TypeInv, TypeOK
<1>4. shot' \in [Slot -> Shot \cup {NoShot}]
    BY DEF ResetRound, NoShots
<1>5. score' \in [Slot -> 0 .. KillLimit]
    BY DEF ResetRound, FreshScores
<1>6. bricks' \subseteq Layout
    BY DEF ResetRound, FreshBricks
<1>7. dead' \in [Slot -> BOOLEAN] /\ shown' \in [Slot -> {"hidden", "visible"}]
    BY DEF ResetRound
<1>8. result' = NoResult /\ round_state' = st
    BY DEF ResetRound
<1> QED BY <1>1, <1>2, <1>3, <1>4, <1>5, <1>6, <1>7, <1>8

LEMMA ResetSlotType ==
    ASSUME TypeInv, NEW i \in Slot, ResetSlotGameplay(i)
    PROVE  /\ score' \in [Slot -> 0 .. KillLimit]
           /\ shot' \in [Slot -> Shot \cup {NoShot}]
    BY DEF ResetSlotGameplay, TypeInv, TypeOK

LEMMA ConnChangeType ==
    ASSUME TypeInv, NEW i \in Slot, NEW k \in Connection
    PROVE  [conn EXCEPT ![i] = k] \in [Slot -> Connection]
    BY DEF TypeInv, TypeOK

\* Outside a tick there is nothing to step.
LEMMA IdleKeepsShotsToStep ==
    ASSUME phase = "idle", UNCHANGED tickVars
    PROVE  ShotsToStep'
    BY DEF ShotsToStep, tickVars

LEMMA AcceptType == TypeInv /\ Accept => TypeInv'
<1> SUFFICES ASSUME TypeInv, Accept PROVE TypeInv'
    OBVIOUS
<1>1. PICK i \in AllocClientSlot(conn) :
          conn' = [conn EXCEPT ![i] = "pending"] /\ ResetSlotGameplay(i)
    BY DEF Accept
<1>2. i \in Slot
    BY AllocIsSlot
<1>3. conn' \in [Slot -> Connection]
    BY <1>1, <1>2, ConnChangeType DEF Connection
<1>4. ShotsToStep'
    BY IdleKeepsShotsToStep DEF Accept
<1> QED BY <1>1, <1>2, <1>3, <1>4, ResetSlotType
        DEF Accept, TypeInv, TypeOK, roundVars, actorVars, tickVars

LEMMA HelloType ==
    ASSUME TypeInv, NEW i \in Slot, Hello(i)
    PROVE  TypeInv'
<1>1. conn' \in [Slot -> Connection] /\ grace' \in BOOLEAN
    BY ConnChangeType DEF Hello, CancelGrace, Connection
<1>2. ShotsToStep'
    BY IdleKeepsShotsToStep DEF Hello
<1> DEFINE c == [conn EXCEPT ![i] = "human"]
<1>3. CASE WakeDormantRoom(c) /\ shown' = JoinAnnounced(i)
  <2>1. hist' \subseteq Slot /\ occupied' \subseteq Slot
      BY <1>3, SeatsAreSlots DEF WakeDormantRoom
  <2>2. cell' \in [Slot -> Cell]
      BY <1>3 DEF WakeDormantRoom, TypeInv, TypeOK
  <2>3. /\ dead' \in [Slot -> BOOLEAN]
        /\ score' \in [Slot -> 0 .. KillLimit]
        /\ shot' \in [Slot -> Shot \cup {NoShot}]
      BY <1>3 DEF WakeDormantRoom, TypeInv, TypeOK
  <2> QED BY <1>1, <1>2, <1>3, <2>1, <2>2, <2>3
          DEF WakeDormantRoom, JoinAnnounced, Hello, TypeInv, TypeOK, tickVars
<1>4. CASE /\ ActivateJoiningClient(i, TakesOver(i))
           /\ UNCHANGED <<roundVars, bricks, score, shot>>
  <2>1. cell' \in [Slot -> Cell]
      BY <1>4, SpawnIsFree DEF ActivateJoiningClient, TypeInv, TypeOK
  <2> QED BY <1>1, <1>2, <1>4, <2>1
          DEF Hello, ActivateJoiningClient, WithJoiner, JoinAnnounced, TypeInv,
              TypeOK, roundVars, tickVars
<1>5. CASE UNCHANGED <<roundVars, actorVars, bricks, score, shot>>
    BY <1>1, <1>2, <1>5
    DEF Hello, TypeInv, TypeOK, roundVars, actorVars, tickVars
<1> QED BY <1>3, <1>4, <1>5 DEF Hello

LEMMA LeaveType ==
    ASSUME TypeInv, NEW i \in Slot, Leave(i)
    PROVE  TypeInv'
<1> DEFINE c == [conn EXCEPT ![i] = "free"]
<1>1. conn' \in [Slot -> Connection]
    BY ConnChangeType DEF Leave, Connection
<1>2. ShotsToStep'
    BY IdleKeepsShotsToStep DEF Leave
<1>3. CASE ResetRound(c, "dormant") /\ grace' = FALSE
  <2> HIDE DEF c
  <2> QED BY <1>1, <1>2, <1>3, ResetRoundType DEF Leave, TypeInv, TypeOK, tickVars
<1>4. CASE /\ ResetSlotGameplay(i)
           /\ UNCHANGED <<grace, roundVars, actorVars, bricks>>
    BY <1>1, <1>2, <1>4, ResetSlotType
    DEF Leave, TypeInv, TypeOK, roundVars, actorVars, tickVars
<1> QED BY <1>3, <1>4 DEF Leave

LEMMA DropType ==
    ASSUME TypeInv, NEW i \in Slot, Drop(i)
    PROVE  TypeInv'
<1> DEFINE c == [conn EXCEPT ![i] = "free"]
<1>1. conn' \in [Slot -> Connection]
    BY ConnChangeType DEF Drop, Connection
<1>2. ShotsToStep'
    BY IdleKeepsShotsToStep DEF Drop
<1>3. CASE BeginNoHumanGrace(c, i)
  <2>1. grace' \in BOOLEAN
      BY <1>3 DEF BeginNoHumanGrace
  <2>2. CASE ResetRound(c, "playing")
    <3> HIDE DEF c
    <3> QED BY <1>1, <1>2, <2>1, <2>2, ResetRoundType
            DEF Drop, TypeInv, TypeOK, tickVars
  <2>3. CASE /\ score' = [score EXCEPT ![i] = 0]
             /\ shot' = [ShotsOfEmptyRoom EXCEPT ![i] = NoShot]
             /\ UNCHANGED <<roundVars, actorVars, bricks>>
    <3>1. shot' \in [Slot -> Shot \cup {NoShot}]
        BY <2>3 DEF ShotsOfEmptyRoom, NoShots
    <3> QED BY <1>1, <1>2, <2>1, <2>3, <3>1
            DEF Drop, TypeInv, TypeOK, roundVars, actorVars, tickVars
  <2> QED BY <1>3, <2>2, <2>3 DEF BeginNoHumanGrace
<1>4. CASE /\ ResetSlotGameplay(i)
           /\ UNCHANGED <<grace, roundVars, actorVars, bricks>>
    BY <1>1, <1>2, <1>4, ResetSlotType
    DEF Drop, TypeInv, TypeOK, roundVars, actorVars, tickVars
<1> QED BY <1>3, <1>4 DEF Drop

LEMMA TimersType ==
    ASSUME TypeInv, GraceExpire \/ IntermissionExpire
    PROVE  TypeInv'
<1>1. ShotsToStep'
    BY IdleKeepsShotsToStep DEF GraceExpire, IntermissionExpire
<1>2. CASE GraceExpire
    BY <1>1, <1>2, ResetRoundType
    DEF GraceExpire, TypeInv, TypeOK, tickVars
<1>3. CASE IntermissionExpire
    BY <1>1, <1>3, ResetRoundType
    DEF IntermissionExpire, TypeInv, TypeOK, sessionVars, tickVars
<1> QED BY <1>2, <1>3

LEMMA RequestsType ==
    ASSUME TypeInv, NEW i \in Slot, RespawnRequest(i) \/ BrickRequest(i)
    PROVE  TypeInv'
<1>1. ShotsToStep'
    BY IdleKeepsShotsToStep DEF RespawnRequest, BrickRequest
<1>2. CASE RespawnRequest(i)
  <2>1. cell' \in [Slot -> Cell]
      BY <1>2, SpawnIsFree DEF RespawnRequest, TypeInv, TypeOK
  <2> QED BY <1>1, <1>2, <2>1
          DEF RespawnRequest, TypeInv, TypeOK, sessionVars, roundVars, tickVars
<1>3. CASE BrickRequest(i)
  <2>1. bricks' \subseteq Layout
      BY <1>3, BrokenShrinks DEF BrickRequest, TypeInv, TypeOK
  <2> QED BY <1>1, <1>3, <2>1
          DEF BrickRequest, TypeInv, TypeOK, sessionVars, roundVars, actorVars,
              tickVars
<1> QED BY <1>2, <1>3


LEMMA TickBeginType ==
    ASSUME TypeInv, NEW due \in SUBSET Slot, TickBegin(due)
    PROVE  TypeInv'
<1>1. occupied' \subseteq Slot /\ todo' \subseteq Slot
    BY SeatsAreSlots DEF TickBegin
<1>2. cell' \in [Slot -> Cell]
    BY DEF TickBegin, TypeInv, TypeOK
<1>3. /\ dead' \in [Slot -> BOOLEAN]
      /\ shown' \in [Slot -> {"hidden", "visible"}]
    BY DEF TickBegin, TypeInv, TypeOK
<1>4. phase' = "act" /\ moved' = {}
    BY DEF TickBegin
<1> QED BY <1>1, <1>2, <1>3, <1>4
        DEF TickBegin, TypeInv, TypeOK, ShotsToStep, sessionVars, roundVars

\* A hit, by its owner's turn in either half of the tick.
LEMMA HitType ==
    ASSUME TypeInv, NEW i \in Slot, NEW p \in Slot, Hit(i, p)
    PROVE  /\ round_state' \in {"playing", "over", "dormant"}
           /\ round_id' \in 0 .. RoundIds - 1
           /\ result' \in Result \cup {NoResult}
           /\ hist' \subseteq Slot
           /\ dead' \in [Slot -> BOOLEAN]
           /\ shown' \in [Slot -> {"hidden", "visible"}]
           /\ score' \in [Slot -> 0 .. KillLimit]
           /\ shot' \in [Slot -> Shot \cup {NoShot}]
           /\ phase' \in {"idle", "act", "shots"}
           /\ todo' \subseteq Slot
           /\ moved' \subseteq Slot
           /\ ShotsToStep'
<1> DEFINE scores == [score EXCEPT ![i] = Awarded(@)]
<1>1. scores \in [Slot -> 0 .. KillLimit]
    BY DEF Awarded, TypeInv, TypeOK
<1>2. CASE EnterRoundOver(i, scores)
  <2>1. FrozenResult(i, scores) \in Result
      BY <1>1, SeatsAreSlots DEF FrozenResult, Result, TypeInv, TypeOK
  <2> HIDE DEF scores
  <2>2. shot' \in [Slot -> Shot \cup {NoShot}]
      BY <1>2 DEF EnterRoundOver, NoShots
  <2>3. hist' \subseteq Slot
      BY <1>2, SeatsAreSlots DEF EnterRoundOver, TypeInv, TypeOK
  <2> QED BY <1>1, <1>2, <2>1, <2>2, <2>3
          DEF EnterRoundOver, TypeInv, TypeOK, ShotsToStep
<1>3. CASE /\ score' = scores
           /\ dead' = [dead EXCEPT ![p] = TRUE]
           /\ shown' = [shown EXCEPT ![p] = "hidden"]
           /\ shot' = [shot EXCEPT ![i] = NoShot]
           /\ todo' = todo \ {i}
           /\ UNCHANGED <<roundVars, phase, moved>>
  <2> HIDE DEF scores
  <2>1. ShotsToStep'
      BY <1>3 DEF TypeInv, TypeOK, ShotsToStep
  <2> QED BY <1>1, <1>3, <2>1 DEF TypeInv, TypeOK, roundVars
<1> QED BY <1>2, <1>3 DEF Hit

\* The actor whose turn it is, and what it may ask for.
LEMMA ActingIsSlot ==
    ASSUME TypeInv, Acting # {}
    PROVE  Min(Acting) \in Slot /\ Min(Acting) \in todo /\ ~dead[Min(Acting)]
<1>1. Acting \subseteq Slot /\ Acting \subseteq todo
    BY DEF Acting, TypeInv, TypeOK
<1>2. Min(Acting) \in Acting
    BY <1>1, MinOfSlots
<1> QED BY <1>1, <1>2 DEF Acting

LEMMA InputIsStick ==
    ASSUME NEW i, NEW joy \in Inputs(i)
    PROVE  joy \in Stick \X BOOLEAN
<1>1. Still \in Stick /\ Dir \subseteq Stick
    BY DEF Stick
<1>2. ZombieInputs(i) \subseteq Stick \X BOOLEAN
    BY <1>1 DEF ZombieInputs
<1>3. <<Still, FALSE>> \in Stick \X BOOLEAN
    BY <1>1
<1>4. Joy \subseteq Stick \X BOOLEAN
    OBVIOUS
<1>5. Inputs(i) \subseteq Stick \X BOOLEAN
    BY <1>2, <1>3, <1>4, Zenon DEF Inputs
<1> QED BY <1>5

LEMMA FireType ==
    ASSUME TypeInv, phase = "act", NEW i \in Slot, NEW d \in Dir, Fire(i, d),
           UNCHANGED <<sessionVars, occupied, cell>>
    PROVE  TypeInv'
<1> DEFINE target == Ahead(cell[i], d)
           hit == {p \in Slot \ {i} : OnBoard(p) /\ cell[p] = target}
<1>1. CASE hit # {} /\ Hit(i, Min(hit)) /\ UNCHANGED bricks
  <2>1. Min(hit) \in Slot
      BY <1>1, MinOfSlots
  <2> HIDE DEF hit
  <2> QED BY <1>1, <2>1, HitType DEF TypeInv, TypeOK, sessionVars
<1>2. CASE /\ ~IsBrick(bricks, target)
           /\ shot' = [shot EXCEPT ![i] = [at |-> target, dir |-> d]]
           /\ UNCHANGED <<bricks, roundVars, score, dead, shown, phase, moved>>
           /\ todo' = todo \ {i}
  <2>1. target \in Cell
      BY <1>2 DEF IsBrick
  <2>2. [at |-> target, dir |-> d] \in Shot
      BY <2>1 DEF Shot
  <2>3. shot' \in [Slot -> Shot \cup {NoShot}]
      BY <1>2, <2>2 DEF TypeInv, TypeOK
  <2> HIDE DEF target
  <2> QED BY <1>2, <2>3
          DEF TypeInv, TypeOK, ShotsToStep, sessionVars, roundVars
<1>3. CASE /\ bricks' = Broken(bricks, target) \/ UNCHANGED bricks
           /\ UNCHANGED <<shot, roundVars, score, dead, shown, phase, moved>>
           /\ todo' = todo \ {i}
  <2>1. bricks' \subseteq Layout
      BY <1>3, BrokenShrinks DEF TypeInv, TypeOK
  <2> QED BY <1>3, <2>1
          DEF TypeInv, TypeOK, ShotsToStep, sessionVars, roundVars
<1> QED BY <1>1, <1>2, <1>3 DEF Fire

LEMMA MoveType ==
    ASSUME TypeInv, phase = "act", NEW i \in Slot, NEW stick \in Stick,
           Move(i, stick), UNCHANGED <<sessionVars, occupied>>
    PROVE  TypeInv'
<1>1. CanStep(i, stick) => Ahead(cell[i], stick) \in Cell
    BY DEF CanStep, Blocked, IsBrick
<1>2. cell' \in [Slot -> Cell] /\ moved' \subseteq Slot
    BY <1>1 DEF Move, TypeInv, TypeOK
<1> QED BY <1>2 DEF Move, TypeInv, TypeOK, ShotsToStep, sessionVars, roundVars

LEMMA ActType == TypeInv /\ Act => TypeInv'
<1> SUFFICES ASSUME TypeInv, Act PROVE TypeInv'
    OBVIOUS
<1> DEFINE i == Min(Acting)
<1>1. i \in Slot /\ phase = "act"
    BY ActingIsSlot DEF Act
<1>2. PICK joy \in Inputs(i) :
          \/ /\ joy[2] /\ joy[1] # Still
             /\ Fire(i, joy[1])
             /\ UNCHANGED cell
          \/ ~(joy[2] /\ joy[1] # Still) /\ Move(i, joy[1])
    BY DEF Act
<1> HIDE DEF i
<1>3. joy[1] \in Stick
    BY InputIsStick
<1>4. CASE joy[1] # Still /\ Fire(i, joy[1]) /\ UNCHANGED cell
    BY <1>1, <1>3, <1>4, FireType DEF Act, Stick
<1>5. CASE Move(i, joy[1])
    BY <1>1, <1>3, <1>5, MoveType DEF Act
<1> QED BY <1>2, <1>4, <1>5

LEMMA StepShotType == TypeInv /\ StepShot => TypeInv'
<1> SUFFICES ASSUME TypeInv, StepShot PROVE TypeInv'
    OBVIOUS
<1> DEFINE i == Min(todo)
           next == Ahead(shot[i].at, shot[i].dir)
           victims == Victims(i, shot[i], next)
<1>1. i \in Slot /\ i \in todo
    BY MinOfSlots DEF StepShot, TypeInv, TypeOK
<1>2. shot[i] \in Shot
    BY <1>1 DEF StepShot, TypeInv, TypeOK, ShotsToStep
<1>3. CASE victims # {} /\ Hit(i, Min(victims)) /\ UNCHANGED bricks
  <2>1. Min(victims) \in Slot
      BY <1>3, MinOfSlots DEF Victims
  <2> HIDE DEF i, victims
  <2> QED BY <1>1, <1>3, <2>1, HitType
          DEF StepShot, TypeInv, TypeOK, sessionVars
<1>4. CASE /\ IsBrick(bricks, next)
           /\ bricks' = Broken(bricks, next)
           /\ shot' = [shot EXCEPT ![i] = NoShot]
           /\ todo' = todo \ {i}
           /\ UNCHANGED <<roundVars, score, dead, shown, phase, moved>>
  <2> HIDE DEF i, next
  <2>1. bricks' \subseteq Layout
      BY <1>4, BrokenShrinks DEF TypeInv, TypeOK
  <2> QED BY <1>1, <1>4, <2>1
          DEF StepShot, TypeInv, TypeOK, ShotsToStep, sessionVars, roundVars
<1>5. CASE /\ ~IsBrick(bricks, next)
           /\ shot' = [shot EXCEPT ![i].at = next]
           /\ UNCHANGED bricks
           /\ todo' = todo \ {i}
           /\ UNCHANGED <<roundVars, score, dead, shown, phase, moved>>
  <2>1. next \in Cell
      BY <1>5 DEF IsBrick
  <2> HIDE DEF next, i
  <2>2. shot' \in [Slot -> Shot \cup {NoShot}]
      BY <1>1, <1>2, <1>5, <2>1 DEF TypeInv, TypeOK, Shot
  <2>3. ShotsToStep'
      BY <1>1, <1>5 DEF TypeInv, TypeOK, ShotsToStep
  <2> QED BY <1>5, <2>2, <2>3
          DEF StepShot, TypeInv, TypeOK, sessionVars, roundVars
<1> QED BY <1>3, <1>4, <1>5 DEF StepShot

LEMMA TickRestType == TypeInv /\ (BeginShots \/ TickEnd) => TypeInv'
<1> SUFFICES ASSUME TypeInv, BeginShots \/ TickEnd PROVE TypeInv'
    OBVIOUS
<1>1. CASE BeginShots
    BY <1>1
    DEF BeginShots, TypeInv, TypeOK, ShotsToStep, sessionVars, roundVars,
        actorVars
<1>2. CASE TickEnd
    BY <1>2, SeatsAreSlots
    DEF TickEnd, RememberZombies, TypeInv, TypeOK, ShotsToStep, sessionVars,
        actorVars
<1> QED BY <1>1, <1>2

LEMMA StepType == TypeInv /\ [Next]_vars => TypeInv'
<1> SUFFICES ASSUME TypeInv, [Next]_vars PROVE TypeInv'
    OBVIOUS
<1>1. CASE Accept
    BY <1>1, AcceptType
<1>2. ASSUME NEW i \in Slot, Hello(i) \/ Leave(i) \/ Drop(i)
      PROVE  TypeInv'
    BY <1>2, HelloType, LeaveType, DropType
<1>3. CASE GraceExpire \/ IntermissionExpire
    BY <1>3, TimersType
<1>4. ASSUME NEW i \in Slot, RespawnRequest(i) \/ BrickRequest(i)
      PROVE  TypeInv'
    BY <1>4, RequestsType
<1>5. ASSUME NEW due \in SUBSET Slot, TickBegin(due)
      PROVE  TypeInv'
    BY <1>5, TickBeginType
<1>6. CASE TickStep
    BY <1>6, ActType, StepShotType, TickRestType DEF TickStep
<1>7. CASE UNCHANGED vars
    BY <1>7
    DEF vars, sessionVars, roundVars, actorVars, tickVars, TypeInv, TypeOK,
        ShotsToStep
<1> QED BY <1>1, <1>2, <1>3, <1>4, <1>5, <1>6, <1>7 DEF Next

\* The types together with the fact that every shot the tick has still to
\* step is in flight: step_shots' loop reads shots[i] only where it is active.
THEOREM TypeInvariance == Spec => []TypeInv
<1> QED BY InitType, StepType, PTL DEF Spec

\* Every variable of a room keeps its type.
THEOREM TypeCorrect == Spec => []TypeOK
<1>1. TypeInv => TypeOK
    BY DEF TypeInv
<1> QED BY <1>1, TypeInvariance, PTL

----------------------------------------------------------------------------
(* Sessions, rounds and combat                                             *)

\* A tick runs in a playing round only, over the seats it computed first.
TickOnlyPlaying ==
    phase # "idle" => round_state = "playing" /\ occupied = Seated(conn)

ActorsHaveSeats == phase = "act" => todo \subseteq occupied

\* None of the first four is inductive alone: the grace countdown relies on
\* zombies being unable to score, which relies on who may act and shoot.
SafeInv ==
    /\ GraceOwnsEmptyRoom
    /\ HumanOnBoard
    /\ KillLimitEndsRound
    /\ ShotsNeedAudience
    /\ DormantIsClean
    /\ TickOnlyPlaying
    /\ ActorsHaveSeats

LEMMA HumansAfter ==
    ASSUME conn \in [Slot -> Connection], NEW i \in Slot, NEW k
    PROVE  /\ k # "human" =>
                 Humans([conn EXCEPT ![i] = k]) = Humans(conn) \ {i}
           /\ k = "human" =>
                 Humans([conn EXCEPT ![i] = k]) = Humans(conn) \cup {i}
    BY DEF Humans

\* Accepting never takes a seat from a human.
LEMMA AllocIsNotHuman ==
    ASSUME NEW i \in AllocClientSlot(conn)
    PROVE  conn[i] # "human"
<1> DEFINE humanSeats == Slot \ ZombieMask(conn)
           free == {k \in humanSeats : conn[k] = "free"}
           replaceable == {k \in humanSeats : conn[k] = "pending"}
           anyFree == {k \in Slot : conn[k] = "free"}
<1>1. free # {} => conn[Min(free)] = "free"
    BY MinOfSlots
<1>2. replaceable # {} => conn[Min(replaceable)] = "pending"
    BY MinOfSlots
<1>3. anyFree # {} => conn[Min(anyFree)] = "free"
    BY MinOfSlots
<1>4. \/ free # {} /\ i = Min(free)
      \/ replaceable # {} /\ i = Min(replaceable)
      \/ anyFree # {} /\ i = Min(anyFree)
    BY Zenon DEF AllocClientSlot
<1> QED BY <1>1, <1>2, <1>3, <1>4

LEMMA InitSafe == Init => SafeInv
<1> SUFFICES ASSUME Init PROVE SafeInv
    OBVIOUS
<1>1. Humans(conn) = {}
    BY DEF Init, Humans
<1>2. shot = NoShots /\ \A i \in Slot : shot[i] = NoShot
    BY DEF Init, NoShots
<1>3. \A i \in Slot : score[i] = 0 /\ ~dead[i]
    BY DEF Init
<1> QED BY <1>1, <1>2, <1>3
        DEF Init, SafeInv, GraceOwnsEmptyRoom, HumanOnBoard, KillLimitEndsRound,
            ShotsNeedAudience, DormantIsClean, TickOnlyPlaying, ActorsHaveSeats

\* The reset barrier re-establishes everything but the grace clause.
LEMMA ResetRoundSafe ==
    ASSUME NEW st \in {"playing", "dormant"}, ResetRound(conn', st),
           phase = "idle", UNCHANGED tickVars
    PROVE  /\ HumanOnBoard'
           /\ KillLimitEndsRound'
           /\ ShotsNeedAudience'
           /\ DormantIsClean'
           /\ TickOnlyPlaying'
           /\ ActorsHaveSeats'
           /\ round_state' = st
<1>1. /\ round_state' = st
      /\ result' = NoResult
      /\ bricks' = Layout
      /\ shot' = NoShots
      /\ \A i \in Slot : score'[i] = 0 /\ ~dead'[i] /\ shot'[i] = NoShot
      /\ occupied' = IF st = "dormant" THEN {} ELSE Seated(conn')
    BY DEF ResetRound, FreshBricks, FreshScores, NoShots
<1>2. phase' = "idle"
    BY DEF tickVars
<1> QED BY <1>1, <1>2
        DEF HumanOnBoard, Seated, KillLimitEndsRound, ShotsNeedAudience,
            DormantIsClean, NoShots, TickOnlyPlaying, ActorsHaveSeats

LEMMA AcceptSafe == TypeInv /\ SafeInv /\ Accept => SafeInv'
<1> SUFFICES ASSUME TypeInv, SafeInv, Accept PROVE SafeInv'
    OBVIOUS
<1>1. PICK i \in AllocClientSlot(conn) :
          conn' = [conn EXCEPT ![i] = "pending"] /\ ResetSlotGameplay(i)
    BY DEF Accept
<1>2. i \in Slot /\ conn[i] # "human"
    BY AllocIsSlot, AllocIsNotHuman
<1>3. Humans(conn') = Humans(conn)
    BY <1>1, <1>2, HumansAfter DEF TypeInv, TypeOK, Humans
<1>4. \A k \in Slot : /\ score'[k] \in {0, score[k]}
                       /\ shot'[k] \in {NoShot, shot[k]}
    BY <1>1, <1>2 DEF ResetSlotGameplay, TypeInv, TypeOK
<1>5. shot = NoShots => shot' = NoShots
    BY <1>1, <1>2 DEF ResetSlotGameplay, NoShots
<1>6. phase' = "idle" /\ UNCHANGED <<grace, roundVars, actorVars, bricks>>
    BY DEF Accept, tickVars
<1>7. KillLimitEndsRound'
    BY <1>4, <1>6 DEF SafeInv, KillLimitEndsRound, roundVars
<1> QED BY <1>3, <1>4, <1>5, <1>6, <1>7
        DEF SafeInv, GraceOwnsEmptyRoom, HumanOnBoard, ShotsNeedAudience,
            DormantIsClean, TickOnlyPlaying, ActorsHaveSeats, roundVars,
            actorVars

LEMMA HelloSafe ==
    ASSUME TypeInv, SafeInv, NEW i \in Slot, Hello(i)
    PROVE  SafeInv'
<1> DEFINE c == [conn EXCEPT ![i] = "human"]
<1>1. Humans(conn') = Humans(conn) \cup {i}
    BY HumansAfter DEF Hello, TypeInv, TypeOK
<1>2. phase' = "idle" /\ grace' = FALSE /\ conn' = c
    BY DEF Hello, tickVars, CancelGrace
<1>3. CASE round_state = "dormant" /\ WakeDormantRoom(c)
  <2>1. /\ round_state' = "playing"
        /\ occupied' = Seated(c)
        /\ result' = result
        /\ \A k \in Slot : score'[k] \in {0, score[k]}
      BY <1>3 DEF WakeDormantRoom, TypeInv, TypeOK
  <2>2. Humans(conn') \subseteq occupied'
      BY <1>2, <2>1 DEF Seated
  <2>3. KillLimitEndsRound'
      BY <1>3, <2>1 DEF SafeInv, DormantIsClean, KillLimitEndsRound
  <2>4. ShotsNeedAudience'
      BY <1>1, <2>1 DEF ShotsNeedAudience
  <2> QED BY <1>1, <1>2, <2>1, <2>2, <2>3, <2>4
          DEF SafeInv, GraceOwnsEmptyRoom, HumanOnBoard, DormantIsClean,
              TickOnlyPlaying, ActorsHaveSeats
<1>4. CASE /\ round_state = "playing"
           /\ ActivateJoiningClient(i, TakesOver(i))
           /\ UNCHANGED <<roundVars, bricks, score, shot>>
    BY <1>1, <1>2, <1>4
    DEF ActivateJoiningClient, WithJoiner, SafeInv, GraceOwnsEmptyRoom,
        HumanOnBoard, KillLimitEndsRound, ShotsNeedAudience, DormantIsClean,
        TickOnlyPlaying, ActorsHaveSeats, roundVars
<1>5. CASE /\ round_state = "over"
           /\ UNCHANGED <<roundVars, actorVars, bricks, score, shot>>
    BY <1>1, <1>2, <1>5
    DEF SafeInv, GraceOwnsEmptyRoom, HumanOnBoard, KillLimitEndsRound,
        ShotsNeedAudience, DormantIsClean, TickOnlyPlaying, ActorsHaveSeats,
        roundVars, actorVars
<1> QED BY <1>3, <1>4, <1>5 DEF Hello

\* A seat emptied while humans remain, or one that was never a human's.
LEMMA ReleaseSafe ==
    ASSUME TypeInv, SafeInv, NEW i \in Slot, phase = "idle",
           conn' = [conn EXCEPT ![i] = "free"], ResetSlotGameplay(i),
           Humans(conn') # {} \/ Humans(conn') = Humans(conn),
           UNCHANGED <<grace, roundVars, actorVars, bricks, tickVars>>
    PROVE  SafeInv'
<1>1. Humans(conn') = Humans(conn) \ {i}
    BY HumansAfter DEF TypeInv, TypeOK
<1>2. \A k \in Slot : /\ score'[k] \in {0, score[k]}
                       /\ shot'[k] \in {NoShot, shot[k]}
    BY DEF ResetSlotGameplay, TypeInv, TypeOK
<1>3. shot = NoShots => shot' = NoShots
    BY DEF ResetSlotGameplay, NoShots
<1>4. phase' = "idle"
    BY DEF tickVars
<1>5. KillLimitEndsRound'
    BY <1>2 DEF SafeInv, KillLimitEndsRound, roundVars
<1> QED BY <1>1, <1>2, <1>3, <1>4, <1>5
        DEF SafeInv, GraceOwnsEmptyRoom, HumanOnBoard, ShotsNeedAudience,
            DormantIsClean, TickOnlyPlaying, ActorsHaveSeats, roundVars,
            actorVars

LEMMA LeaveSafe ==
    ASSUME TypeInv, SafeInv, NEW i \in Slot, Leave(i)
    PROVE  SafeInv'
<1>1. phase = "idle" /\ conn' = [conn EXCEPT ![i] = "free"] /\ UNCHANGED tickVars
    BY DEF Leave
<1>2. CASE /\ Humans(conn') = {}
           /\ ResetRound(conn', "dormant")
           /\ grace' = FALSE
    BY <1>1, <1>2, ResetRoundSafe DEF SafeInv, GraceOwnsEmptyRoom
<1>3. CASE /\ Humans(conn') # {}
           /\ ResetSlotGameplay(i)
           /\ UNCHANGED <<grace, roundVars, actorVars, bricks>>
    BY <1>1, <1>3, ReleaseSafe
<1> QED BY <1>1, <1>2, <1>3, Zenon DEF Leave

LEMMA DropSafe ==
    ASSUME TypeInv, SafeInv, NEW i \in Slot, Drop(i)
    PROVE  SafeInv'
<1> DEFINE lostLast == conn[i] = "human" /\ Humans(conn') = {}
           starts == lostLast /\ ~grace /\ round_state # "dormant"
<1>1. phase = "idle" /\ conn' = [conn EXCEPT ![i] = "free"] /\ UNCHANGED tickVars
    BY DEF Drop
<1>2. Humans(conn') = Humans(conn) \ {i}
    BY <1>1, HumansAfter DEF TypeInv, TypeOK
<1>3. conn[i] # "human" => Humans(conn') = Humans(conn)
    BY <1>2 DEF Humans
<1>4. conn[i] = "human" => ~grace /\ round_state # "dormant"
    BY DEF Humans, SafeInv, GraceOwnsEmptyRoom
<1>5. CASE starts /\ BeginNoHumanGrace(conn', i)
  <2>1. CASE ResetRound(conn', "playing")
      BY <1>1, <1>5, <2>1, ResetRoundSafe
      DEF BeginNoHumanGrace, SafeInv, GraceOwnsEmptyRoom
  <2>2. CASE /\ round_state # "over"
             /\ score' = [score EXCEPT ![i] = 0]
             /\ shot' = [ShotsOfEmptyRoom EXCEPT ![i] = NoShot]
             /\ UNCHANGED <<roundVars, actorVars, bricks>>
    <3>1. \A k \in Slot : score'[k] \in {0, score[k]} /\ shot'[k] = NoShot
        BY <2>2 DEF ShotsOfEmptyRoom, NoShots, TypeInv, TypeOK
    <3>2. round_state = "playing" /\ grace' = TRUE
        BY <1>5, <2>2 DEF BeginNoHumanGrace, TypeInv, TypeOK
    <3>3. KillLimitEndsRound'
        BY <2>2, <3>1, <3>2 DEF SafeInv, KillLimitEndsRound, roundVars
    <3> QED BY <1>1, <1>5, <2>2, <3>1, <3>2, <3>3
            DEF SafeInv, GraceOwnsEmptyRoom, HumanOnBoard, ShotsNeedAudience,
                DormantIsClean, TickOnlyPlaying, ActorsHaveSeats, roundVars,
                actorVars, tickVars
  <2> QED BY <1>5, <2>1, <2>2 DEF BeginNoHumanGrace
<1>6. CASE /\ ~starts
           /\ ResetSlotGameplay(i)
           /\ UNCHANGED <<grace, roundVars, actorVars, bricks>>
    BY <1>1, <1>3, <1>4, <1>6, ReleaseSafe
<1> QED BY <1>1, <1>5, <1>6, Zenon DEF Drop

LEMMA TimersSafe ==
    ASSUME TypeInv, SafeInv, GraceExpire \/ IntermissionExpire
    PROVE  SafeInv'
<1>1. CASE GraceExpire
    BY <1>1, ResetRoundSafe
    DEF GraceExpire, GraceMayExpire, SafeInv, GraceOwnsEmptyRoom
<1>2. CASE IntermissionExpire
    BY <1>2, ResetRoundSafe
    DEF IntermissionExpire, ResultsMayEnd, SafeInv, GraceOwnsEmptyRoom,
        sessionVars
<1> QED BY <1>1, <1>2

LEMMA RequestsSafe ==
    ASSUME TypeInv, SafeInv, NEW i \in Slot,
           RespawnRequest(i) \/ BrickRequest(i)
    PROVE  SafeInv'
<1>1. /\ round_state = "playing"
      /\ phase = "idle"
      /\ UNCHANGED <<sessionVars, roundVars, occupied, score, shot, tickVars>>
    BY DEF RespawnRequest, BrickRequest, actorVars
<1> QED BY <1>1
        DEF SafeInv, GraceOwnsEmptyRoom, HumanOnBoard, KillLimitEndsRound,
            ShotsNeedAudience, DormantIsClean, TickOnlyPlaying,
            ActorsHaveSeats, sessionVars, roundVars, tickVars

LEMMA TickBeginSafe ==
    ASSUME TypeInv, SafeInv, NEW due \in SUBSET Slot, TickBegin(due)
    PROVE  SafeInv'
<1>1. /\ phase' = "act"
      /\ round_state = "playing"
      /\ occupied' = Seated(conn)
      /\ todo' = Seated(conn)
      /\ UNCHANGED <<sessionVars, roundVars, bricks, score, shot>>
    BY DEF TickBegin
<1>2. Humans(conn) \subseteq Seated(conn)
    BY DEF Seated
<1> QED BY <1>1, <1>2
        DEF SafeInv, GraceOwnsEmptyRoom, HumanOnBoard, KillLimitEndsRound,
            ShotsNeedAudience, DormantIsClean, TickOnlyPlaying,
            ActorsHaveSeats, sessionVars, roundVars

\* In a room without humans every actor is a zombie, and a zombie without a
\* quarry only shoots at bricks.
LEMMA FireNeedsHumans ==
    ASSUME TypeInv, SafeInv, phase = "act", NEW i \in todo,
           NEW joy \in Inputs(i), joy[2], joy[1] # Still,
           Humans(conn) = {}
    PROVE  IsBrick(bricks, Ahead(cell[i], joy[1]))
<1>1. i \in ZombieMask(conn)
    BY DEF SafeInv, ActorsHaveSeats, TickOnlyPlaying, Seated
<1>2. joy \in ZombieInputs(i)
    BY <1>1, Zenon DEF Inputs
<1>3. Ahead(cell[i], joy[1]) \in bricks
    BY <1>2 DEF ZombieInputs
<1> QED BY <1>3 DEF IsBrick

\* A hit while a human attends: the kill limit and the frozen result.
LEMMA HitSafe ==
    ASSUME TypeInv, SafeInv, NEW i \in Slot, NEW p \in Slot, Hit(i, p),
           phase # "idle", Humans(conn) # {},
           UNCHANGED <<sessionVars, occupied>>
    PROVE  SafeInv'
<1> DEFINE scores == [score EXCEPT ![i] = Awarded(@)]
<1>1. /\ round_state = "playing"
      /\ ~grace
      /\ \A k \in Slot : score[k] < KillLimit
      /\ result = NoResult
    BY DEF SafeInv, TickOnlyPlaying, GraceOwnsEmptyRoom, KillLimitEndsRound
<1>2. conn' = conn /\ grace' = grace /\ Humans(conn') = Humans(conn)
    BY DEF sessionVars
<1>3. \A k \in Slot \ {i} : scores[k] < KillLimit
    BY <1>1 DEF TypeInv, TypeOK
<1>4. scores[i] \in 0 .. KillLimit
    BY DEF Awarded, TypeInv, TypeOK
<1>5. CASE WinsRound(scores[i]) /\ EnterRoundOver(i, scores)
  <2>1. scores[i] = KillLimit
      BY <1>4, <1>5 DEF WinsRound
  <2>2. FrozenResult(i, scores) \in Result
    <3>1. scores \in [Slot -> 0 .. KillLimit]
        BY <1>4 DEF TypeInv, TypeOK
    <3> HIDE DEF scores
    <3> QED BY <3>1, SeatsAreSlots DEF FrozenResult, Result, TypeInv, TypeOK
  <2> HIDE DEF scores
  <2>3. result' # NoResult
      BY <1>5, <2>2 DEF EnterRoundOver
  <2>4. result'.winner = i /\ result'.scores = scores
      BY <1>5 DEF EnterRoundOver, FrozenResult
  <2>5. round_state' = "over" /\ phase' = "idle" /\ shot' = NoShots
      BY <1>5 DEF EnterRoundOver
  <2>6. KillLimitEndsRound'
      BY <1>3, <2>1, <2>3, <2>4, <2>5 DEF KillLimitEndsRound
  <2>7. \A k \in Slot : shot'[k] = NoShot
      BY <2>5 DEF NoShots
  <2> QED BY <1>1, <1>2, <2>5, <2>6, <2>7
          DEF SafeInv, GraceOwnsEmptyRoom, HumanOnBoard, ShotsNeedAudience,
              DormantIsClean, TickOnlyPlaying, ActorsHaveSeats
<1>6. CASE /\ ~WinsRound(scores[i])
           /\ score' = scores
           /\ shot' = [shot EXCEPT ![i] = NoShot]
           /\ todo' = todo \ {i}
           /\ UNCHANGED <<roundVars, phase, moved>>
  <2>1. \A k \in Slot : score'[k] < KillLimit
      BY <1>3, <1>4, <1>6 DEF WinsRound
  <2> HIDE DEF scores
  <2>2. round_state' = "playing" /\ result' = NoResult
      BY <1>1, <1>6 DEF roundVars
  <2> QED BY <1>1, <1>2, <1>6, <2>1, <2>2
          DEF SafeInv, GraceOwnsEmptyRoom, HumanOnBoard, KillLimitEndsRound,
              ShotsNeedAudience, DormantIsClean, TickOnlyPlaying,
              ActorsHaveSeats
<1> QED BY <1>5, <1>6 DEF Hit

\* A turn that neither scores nor launches a shot without an audience.
LEMMA QuietTurnSafe ==
    ASSUME TypeInv, SafeInv, phase # "idle",
           \A k \in Slot : shot'[k] = NoShot \/ shot[k] # NoShot
                                \/ Humans(conn) # {},
           todo' \subseteq todo,
           UNCHANGED <<sessionVars, roundVars, occupied, score, phase>>
    PROVE  SafeInv'
<1>1. round_state = "playing"
    BY DEF SafeInv, TickOnlyPlaying
<1> QED BY <1>1
        DEF SafeInv, GraceOwnsEmptyRoom, HumanOnBoard, KillLimitEndsRound,
            ShotsNeedAudience, DormantIsClean, TickOnlyPlaying,
            ActorsHaveSeats, sessionVars, roundVars

LEMMA FireSafe ==
    ASSUME TypeInv, SafeInv, phase = "act", NEW i \in Slot, i \in todo,
           NEW joy \in Inputs(i), joy[2], joy[1] # Still, Fire(i, joy[1]),
           UNCHANGED <<sessionVars, occupied>>
    PROVE  SafeInv'
<1> DEFINE target == Ahead(cell[i], joy[1])
           hit == {p \in Slot \ {i} : OnBoard(p) /\ cell[p] = target}
<1>1. Humans(conn) # {} \/ IsBrick(bricks, target)
    BY FireNeedsHumans
<1>2. CASE ~IsBrick(bricks, target) /\ hit # {} /\ Hit(i, Min(hit))
  <2>1. Min(hit) \in Slot
      BY <1>2, MinOfSlots
  <2> HIDE DEF hit
  <2> QED BY <1>1, <1>2, <2>1, HitSafe
<1>3. CASE /\ todo' = todo \ {i}
           /\ \/ UNCHANGED shot
              \/ /\ ~IsBrick(bricks, target)
                 /\ shot' = [shot EXCEPT ![i] = [at |-> target, dir |-> joy[1]]]
           /\ UNCHANGED <<roundVars, score, dead, shown, phase, moved>>
  <2> HIDE DEF target
  <2>1. \A k \in Slot : shot'[k] = NoShot \/ shot[k] # NoShot
                            \/ Humans(conn) # {}
      BY <1>1, <1>3
  <2> QED BY <1>3, <2>1, QuietTurnSafe
<1> QED BY <1>2, <1>3 DEF Fire

LEMMA ActSafe == TypeInv /\ SafeInv /\ Act => SafeInv'
<1> SUFFICES ASSUME TypeInv, SafeInv, Act PROVE SafeInv'
    OBVIOUS
<1> DEFINE i == Min(Acting)
<1>1. i \in Slot /\ i \in todo /\ phase = "act"
    BY ActingIsSlot DEF Act
<1>2. PICK joy \in Inputs(i) :
          \/ /\ joy[2] /\ joy[1] # Still
             /\ Fire(i, joy[1])
             /\ UNCHANGED cell
          \/ ~(joy[2] /\ joy[1] # Still) /\ Move(i, joy[1])
    BY DEF Act
<1>3. UNCHANGED <<sessionVars, occupied>>
    BY DEF Act
<1> HIDE DEF i
<1>4. CASE joy[2] /\ joy[1] # Still /\ Fire(i, joy[1])
    BY <1>1, <1>3, <1>4, FireSafe
<1>5. CASE Move(i, joy[1])
    BY <1>1, <1>3, <1>5, QuietTurnSafe DEF Move
<1> QED BY <1>2, <1>4, <1>5

LEMMA StepShotSafe == TypeInv /\ SafeInv /\ StepShot => SafeInv'
<1> SUFFICES ASSUME TypeInv, SafeInv, StepShot PROVE SafeInv'
    OBVIOUS
<1> DEFINE i == Min(todo)
           next == Ahead(shot[i].at, shot[i].dir)
           victims == Victims(i, shot[i], next)
<1>1. i \in Slot /\ i \in todo /\ phase = "shots"
    BY MinOfSlots DEF StepShot, TypeInv, TypeOK
<1>2. shot[i] # NoShot /\ Humans(conn) # {}
    BY <1>1 DEF TypeInv, ShotsToStep, SafeInv, ShotsNeedAudience
<1>3. UNCHANGED <<sessionVars, occupied>>
    BY DEF StepShot
<1>4. CASE victims # {} /\ Hit(i, Min(victims))
  <2>1. Min(victims) \in Slot
      BY <1>4, MinOfSlots DEF Victims
  <2> HIDE DEF i, victims
  <2> QED BY <1>1, <1>2, <1>3, <1>4, <2>1, HitSafe
<1>5. CASE /\ todo' = todo \ {i}
           /\ UNCHANGED <<roundVars, score, dead, shown, phase, moved>>
  <2> HIDE DEF i
  <2> QED BY <1>1, <1>2, <1>3, <1>5, QuietTurnSafe
<1> QED BY <1>4, <1>5 DEF StepShot

LEMMA TickRestSafe ==
    ASSUME TypeInv, SafeInv, BeginShots \/ TickEnd
    PROVE  SafeInv'
<1>1. CASE BeginShots
    BY <1>1
    DEF BeginShots, SafeInv, GraceOwnsEmptyRoom, HumanOnBoard,
        KillLimitEndsRound, ShotsNeedAudience, DormantIsClean,
        TickOnlyPlaying, ActorsHaveSeats, sessionVars, roundVars, actorVars
<1>2. CASE TickEnd
    BY <1>2
    DEF TickEnd, SafeInv, GraceOwnsEmptyRoom, HumanOnBoard,
        KillLimitEndsRound, ShotsNeedAudience, DormantIsClean,
        TickOnlyPlaying, ActorsHaveSeats, sessionVars, actorVars
<1> QED BY <1>1, <1>2

LEMMA StepSafe == TypeInv /\ SafeInv /\ [Next]_vars => SafeInv'
<1> SUFFICES ASSUME TypeInv, SafeInv, [Next]_vars PROVE SafeInv'
    OBVIOUS
<1>1. CASE Accept
    BY <1>1, AcceptSafe
<1>2. ASSUME NEW i \in Slot, Hello(i) \/ Leave(i) \/ Drop(i)
      PROVE  SafeInv'
    BY <1>2, HelloSafe, LeaveSafe, DropSafe
<1>3. CASE GraceExpire \/ IntermissionExpire
    BY <1>3, TimersSafe
<1>4. ASSUME NEW i \in Slot, RespawnRequest(i) \/ BrickRequest(i)
      PROVE  SafeInv'
    BY <1>4, RequestsSafe
<1>5. ASSUME NEW due \in SUBSET Slot, TickBegin(due)
      PROVE  SafeInv'
    BY <1>5, TickBeginSafe
<1>6. CASE TickStep
    BY <1>6, ActSafe, StepShotSafe, TickRestSafe DEF TickStep
<1>7. CASE UNCHANGED vars
    BY <1>7
    DEF vars, sessionVars, roundVars, actorVars, tickVars, SafeInv,
        GraceOwnsEmptyRoom, HumanOnBoard, KillLimitEndsRound,
        ShotsNeedAudience, DormantIsClean, TickOnlyPlaying, ActorsHaveSeats
<1> QED BY <1>1, <1>2, <1>3, <1>4, <1>5, <1>6, <1>7 DEF Next

\* The session, round and combat invariants together are inductive.
THEOREM SafeInvariance == Spec => []SafeInv
<1> QED BY TypeInvariance, InitSafe, StepSafe, PTL DEF Spec

\* The countdown of an empty room: it runs exactly while the room is awake
\* without humans, and a sleeping room has neither humans nor a countdown.
THEOREM GraceCorrect == Spec => []GraceOwnsEmptyRoom
<1>1. SafeInv => GraceOwnsEmptyRoom
    BY DEF SafeInv
<1> QED BY <1>1, SafeInvariance, PTL

\* Every human of a playing round is on the board's mask.
THEOREM HumansTakePart == Spec => []HumanOnBoard
<1>1. SafeInv => HumanOnBoard
    BY DEF SafeInv
<1> QED BY <1>1, SafeInvariance, PTL

\* The kill limit ends the round, with one winner at exactly the limit.
THEOREM KillLimitCorrect == Spec => []KillLimitEndsRound
<1>1. SafeInv => KillLimitEndsRound
    BY DEF SafeInv
<1> QED BY <1>1, SafeInvariance, PTL

\* No shot is in flight in a room without humans or between rounds: zombies
\* alone never score, so an empty room can never end a round.
THEOREM ShotsCorrect == Spec => []ShotsNeedAudience
<1>1. SafeInv => ShotsNeedAudience
    BY DEF SafeInv
<1> QED BY <1>1, SafeInvariance, PTL

\* A room that sleeps is a complete clean baseline.
THEOREM DormantCorrect == Spec => []DormantIsClean
<1>1. SafeInv => DormantIsClean
    BY DEF SafeInv
<1> QED BY <1>1, SafeInvariance, PTL

----------------------------------------------------------------------------
(* Announcements, shots and labels                                         *)

\* Whoever has a shot in flight can be labelled if that shot wins the round: a
\* human, or a zombie that is remembered, or will be when the tick ends.
ShootersAreLabelled ==
    \A i \in Slot : shot[i] # NoShot =>
        \/ conn[i] = "human"
        \/ i \in hist
        \/ phase # "idle" /\ i \in ZombieMask(conn)

CombatInv ==
    /\ HiddenMeansDead
    /\ ShotsDoNotSwap
    /\ WinnerIsLabelled
    /\ ShootersAreLabelled

\* A step backwards undoes a step ahead.
LEMMA AheadIsInjective ==
    ASSUME NEW a \in Cell, NEW b \in Cell, NEW d \in Dir, Ahead(a, d) = Ahead(b, d)
    PROVE  a = b
<1>1. /\ a[1] \in Int /\ a[2] \in Int /\ b[1] \in Int /\ b[2] \in Int
      /\ a = <<a[1], a[2]>> /\ b = <<b[1], b[2]>>
    BY DEF Cell
<1>2. a[1] = b[1] /\ a[2] = b[2]
    BY <1>1 DEF Ahead, Dir
<1> QED BY <1>1, <1>2

LEMMA InitCombat == Init => CombatInv
    BY DEF Init, CombatInv, HiddenMeansDead, ShotsDoNotSwap, WinnerIsLabelled,
           ShootersAreLabelled, NoShots

\* The reset barrier shows everybody, and nothing flies.
LEMMA ResetRoundCombat ==
    ASSUME NEW c, NEW st \in {"playing", "dormant"}, ResetRound(c, st),
           phase = "idle", UNCHANGED tickVars
    PROVE  CombatInv'
<1>1. \A i \in Slot : shot'[i] = NoShot /\ shown'[i] = "visible"
    BY DEF ResetRound, NoShots
<1>2. round_state' # "over" /\ phase' = "idle"
    BY DEF ResetRound, tickVars
<1> QED BY <1>1, <1>2
        DEF CombatInv, HiddenMeansDead, ShotsDoNotSwap, WinnerIsLabelled,
            ShootersAreLabelled

\* Between ticks: a seat changes hands, nobody fires and no human loses a shot
\* without losing the seat.
LEMMA SessionCombat ==
    ASSUME CombatInv, phase = "idle", UNCHANGED <<roundVars, tickVars>>,
           HiddenMeansDead',
           \A i \in Slot : shot'[i] # NoShot =>
               /\ shot[i] # NoShot
               /\ conn[i] = "human" => conn'[i] = "human"
    PROVE  CombatInv'
<1>1. phase' = "idle" /\ hist' = hist /\ round_state' = round_state
      /\ result' = result
    BY DEF roundVars, tickVars
<1> QED BY <1>1
        DEF CombatInv, ShotsDoNotSwap, WinnerIsLabelled, ShootersAreLabelled

LEMMA AcceptCombat == TypeInv /\ CombatInv /\ Accept => CombatInv'
<1> SUFFICES ASSUME TypeInv, CombatInv, Accept PROVE CombatInv'
    OBVIOUS
<1>1. PICK i \in AllocClientSlot(conn) :
          conn' = [conn EXCEPT ![i] = "pending"] /\ ResetSlotGameplay(i)
    BY DEF Accept
<1>2. i \in Slot
    BY AllocIsSlot
<1>3. \A k \in Slot : shot'[k] # NoShot => shot[k] # NoShot /\ conn'[k] = conn[k]
    BY <1>1, <1>2 DEF ResetSlotGameplay, TypeInv, TypeOK
<1>4. HiddenMeansDead'
    BY DEF Accept, actorVars, CombatInv, HiddenMeansDead
<1> QED BY <1>3, <1>4, SessionCombat DEF Accept

LEMMA HelloCombat ==
    ASSUME TypeInv, SafeInv, CombatInv, NEW i \in Slot, Hello(i)
    PROVE  CombatInv'
<1> DEFINE c == [conn EXCEPT ![i] = "human"]
<1>1. phase = "idle" /\ phase' = "idle" /\ conn' = c /\ UNCHANGED tickVars
    BY DEF Hello, tickVars
<1>2. \A k \in Slot : conn[k] = "human" => conn'[k] = "human"
    BY <1>1 DEF TypeInv, TypeOK
<1>3. CASE round_state = "dormant" /\ WakeDormantRoom(c) /\ shown' = JoinAnnounced(i)
  <2>1. \A k \in Slot : shot[k] = NoShot /\ ~dead[k]
      BY <1>3 DEF SafeInv, DormantIsClean, NoShots
  <2>2. \A k \in Slot : shot'[k] = NoShot
      BY <1>3, <2>1 DEF WakeDormantRoom
  <2>3. HiddenMeansDead'
      BY <1>3, <2>1
      DEF WakeDormantRoom, JoinAnnounced, CombatInv, HiddenMeansDead, TypeInv,
          TypeOK
  <2>4. round_state' = "playing"
      BY <1>3 DEF WakeDormantRoom
  <2> QED BY <1>1, <2>2, <2>3, <2>4
          DEF CombatInv, ShotsDoNotSwap, WinnerIsLabelled, ShootersAreLabelled
<1>4. CASE /\ ActivateJoiningClient(i, TakesOver(i))
           /\ UNCHANGED <<roundVars, bricks, score, shot>>
  <2>1. HiddenMeansDead'
      BY <1>4
      DEF ActivateJoiningClient, JoinAnnounced, CombatInv, HiddenMeansDead,
          TypeInv, TypeOK
  <2> QED BY <1>1, <1>2, <1>4, <2>1, SessionCombat
<1>5. CASE UNCHANGED <<roundVars, actorVars, bricks, score, shot>>
  <2>1. HiddenMeansDead'
      BY <1>5 DEF actorVars, CombatInv, HiddenMeansDead
  <2> QED BY <1>1, <1>2, <1>5, <2>1, SessionCombat
<1> QED BY <1>3, <1>4, <1>5 DEF Hello

\* A seat is given up, and its shot with it.
LEMMA ReleaseCombat ==
    ASSUME TypeInv, CombatInv, NEW i \in Slot, phase = "idle",
           conn' = [conn EXCEPT ![i] = "free"], ResetSlotGameplay(i),
           UNCHANGED <<roundVars, actorVars, tickVars>>
    PROVE  CombatInv'
<1>1. \A k \in Slot : shot'[k] # NoShot => shot[k] # NoShot /\ conn'[k] = conn[k]
    BY DEF ResetSlotGameplay, TypeInv, TypeOK
<1>2. HiddenMeansDead'
    BY DEF actorVars, CombatInv, HiddenMeansDead
<1> QED BY <1>1, <1>2, SessionCombat

LEMMA LeaveCombat ==
    ASSUME TypeInv, CombatInv, NEW i \in Slot, Leave(i)
    PROVE  CombatInv'
<1> DEFINE c == [conn EXCEPT ![i] = "free"]
<1>1. phase = "idle" /\ conn' = c /\ UNCHANGED tickVars
    BY DEF Leave
<1>2. CASE ResetRound(c, "dormant")
  <2> HIDE DEF c
  <2> QED BY <1>1, <1>2, ResetRoundCombat
<1>3. CASE /\ ResetSlotGameplay(i)
           /\ UNCHANGED <<grace, roundVars, actorVars, bricks>>
    BY <1>1, <1>3, ReleaseCombat
<1> QED BY <1>2, <1>3 DEF Leave

LEMMA DropCombat ==
    ASSUME TypeInv, CombatInv, NEW i \in Slot, Drop(i)
    PROVE  CombatInv'
<1> DEFINE c == [conn EXCEPT ![i] = "free"]
<1>1. phase = "idle" /\ conn' = c /\ UNCHANGED tickVars
    BY DEF Drop
<1>2. CASE ResetRound(c, "playing")
  <2> HIDE DEF c
  <2> QED BY <1>1, <1>2, ResetRoundCombat
<1>3. CASE /\ shot' = [ShotsOfEmptyRoom EXCEPT ![i] = NoShot]
           /\ UNCHANGED <<roundVars, actorVars, bricks>>
  <2>1. \A k \in Slot : shot'[k] = NoShot
      BY <1>3 DEF ShotsOfEmptyRoom, NoShots
  <2>2. HiddenMeansDead'
      BY <1>3 DEF actorVars, CombatInv, HiddenMeansDead
  <2> QED BY <1>1, <1>3, <2>1, <2>2, SessionCombat
<1>4. CASE /\ ResetSlotGameplay(i)
           /\ UNCHANGED <<grace, roundVars, actorVars, bricks>>
    BY <1>1, <1>4, ReleaseCombat
<1> QED BY <1>2, <1>3, <1>4 DEF Drop, BeginNoHumanGrace

LEMMA TimersCombat ==
    ASSUME CombatInv, GraceExpire \/ IntermissionExpire
    PROVE  CombatInv'
    BY ResetRoundCombat DEF GraceExpire, IntermissionExpire

LEMMA RequestsCombat ==
    ASSUME TypeInv, CombatInv, NEW i \in Slot, RespawnRequest(i) \/ BrickRequest(i)
    PROVE  CombatInv'
<1>1. phase = "idle" /\ UNCHANGED <<sessionVars, roundVars, dead, shot, tickVars>>
    BY DEF RespawnRequest, BrickRequest, actorVars
<1>2. HiddenMeansDead'
    BY DEF RespawnRequest, BrickRequest, actorVars, CombatInv, HiddenMeansDead,
           TypeInv, TypeOK
<1> QED BY <1>1, <1>2, SessionCombat DEF sessionVars

LEMMA TickBeginCombat ==
    ASSUME CombatInv, NEW due \in SUBSET Slot, TickBegin(due)
    PROVE  CombatInv'
<1>1. /\ phase' = "act"
      /\ round_state = "playing"
      /\ UNCHANGED <<sessionVars, roundVars, shot>>
      /\ phase = "idle"
    BY DEF TickBegin
<1>2. HiddenMeansDead'
    BY DEF TickBegin, CombatInv, HiddenMeansDead
<1> QED BY <1>1, <1>2
        DEF CombatInv, ShotsDoNotSwap, WinnerIsLabelled, ShootersAreLabelled,
            sessionVars, roundVars


\* A hit by a slot that can be labelled.
LEMMA HitCombat ==
    ASSUME TypeInv, SafeInv, CombatInv, NEW i \in Slot, NEW p \in Slot, Hit(i, p),
           phase # "idle", i \in occupied \/ shot[i] # NoShot,
           UNCHANGED <<sessionVars, occupied, cell>>
    PROVE  CombatInv'
<1> DEFINE scores == [score EXCEPT ![i] = Awarded(@)]
<1>1. i \in occupied \ ZombieMask(conn) \/ i \in hist \cup ZombieMask(conn)
  <2>1. occupied = Humans(conn) \cup ZombieMask(conn)
      BY DEF SafeInv, TickOnlyPlaying, Seated
  <2>2. conn[i] = "human" => i \in occupied /\ i \notin ZombieMask(conn)
      BY <2>1 DEF Humans, ZombieMask
  <2>3. shot[i] # NoShot => conn[i] = "human" \/ i \in hist \cup ZombieMask(conn)
      BY DEF CombatInv, ShootersAreLabelled
  <2> QED BY <2>1, <2>2, <2>3 DEF Humans
<1>2. CASE EnterRoundOver(i, scores)
  <2> HIDE DEF scores
  <2>1. /\ result'.winner = i
        /\ result'.active = occupied
        /\ result'.zombies = ZombieMask(conn)
        /\ result'.historical = hist \cup ZombieMask(conn)
      BY <1>2 DEF EnterRoundOver, FrozenResult
  <2>2. /\ phase' = "idle"
        /\ UNCHANGED <<dead, shown>>
        /\ \A k \in Slot : shot'[k] = NoShot
      BY <1>2 DEF EnterRoundOver, NoShots
  <2> QED BY <1>1, <2>1, <2>2
          DEF CombatInv, HiddenMeansDead, ShotsDoNotSwap, WinnerIsLabelled,
              ShootersAreLabelled
<1>3. CASE /\ dead' = [dead EXCEPT ![p] = TRUE]
           /\ shown' = [shown EXCEPT ![p] = "hidden"]
           /\ shot' = [shot EXCEPT ![i] = NoShot]
           /\ todo' = todo \ {i}
           /\ UNCHANGED <<roundVars, phase, moved>>
  <2>1. HiddenMeansDead'
      BY <1>3 DEF CombatInv, HiddenMeansDead, TypeInv, TypeOK
  <2>2. \A k \in Slot : shot'[k] # NoShot => k # i /\ shot'[k] = shot[k]
      BY <1>3 DEF TypeInv, TypeOK
  <2>3. \A k \in Slot : OnBoard(k)' => OnBoard(k)
      BY <1>3 DEF OnBoard, TypeInv, TypeOK
  <2>4. ShotsDoNotSwap'
      BY <1>3, <2>2, <2>3 DEF CombatInv, ShotsDoNotSwap, TypeInv, TypeOK
  <2> QED BY <1>3, <2>1, <2>2, <2>4
          DEF SafeInv, TickOnlyPlaying, CombatInv, WinnerIsLabelled,
              ShootersAreLabelled, roundVars, sessionVars
<1> QED BY <1>2, <1>3 DEF Hit

\* A turn in which nobody is hit or revived; a new shot is a seat's.
LEMMA QuietTurnCombat ==
    ASSUME TypeInv, SafeInv, CombatInv, phase # "idle", ShotsDoNotSwap',
           \A k \in Slot : shot'[k] # NoShot => shot[k] # NoShot \/ k \in occupied,
           UNCHANGED <<sessionVars, roundVars, occupied, dead, shown, phase>>
    PROVE  CombatInv'
<1>1. \A k \in occupied : conn[k] = "human" \/ k \in ZombieMask(conn)
    BY DEF SafeInv, TickOnlyPlaying, Seated, Humans
<1> QED BY <1>1
        DEF CombatInv, HiddenMeansDead, WinnerIsLabelled, ShootersAreLabelled,
            sessionVars, roundVars

LEMMA FireCombat ==
    ASSUME TypeInv, SafeInv, CombatInv, phase = "act", NEW i \in Slot, i \in todo,
           NEW d, Fire(i, d), UNCHANGED <<sessionVars, occupied, cell>>
    PROVE  CombatInv'
<1> DEFINE target == Ahead(cell[i], d)
           hit == {p \in Slot \ {i} : OnBoard(p) /\ cell[p] = target}
<1>1. i \in occupied
    BY DEF SafeInv, ActorsHaveSeats
<1>2. CASE hit # {} /\ Hit(i, Min(hit))
  <2>1. Min(hit) \in Slot
      BY <1>2, MinOfSlots
  <2> HIDE DEF hit
  <2> QED BY <1>1, <1>2, <2>1, HitCombat
<1>3. CASE /\ UNCHANGED shot \/ shot' = [shot EXCEPT ![i] = [at |-> target, dir |-> d]]
           /\ UNCHANGED <<roundVars, score, dead, shown, phase, moved>>
  <2>1. \A k \in Slot : shot'[k] # NoShot => shot[k] # NoShot \/ k \in occupied
      BY <1>1, <1>3 DEF TypeInv, TypeOK
  <2>2. ShotsDoNotSwap'
      BY <1>3 DEF ShotsDoNotSwap
  <2> HIDE DEF target
  <2> QED BY <1>3, <2>1, <2>2, QuietTurnCombat
<1> QED BY <1>2, <1>3 DEF Fire

LEMMA ActCombat == TypeInv /\ SafeInv /\ CombatInv /\ Act => CombatInv'
<1> SUFFICES ASSUME TypeInv, SafeInv, CombatInv, Act PROVE CombatInv'
    OBVIOUS
<1> DEFINE i == Min(Acting)
<1>1. i \in Slot /\ i \in todo /\ phase = "act"
    BY ActingIsSlot DEF Act
<1>2. PICK joy \in Inputs(i) :
          \/ /\ joy[2] /\ joy[1] # Still
             /\ Fire(i, joy[1])
             /\ UNCHANGED cell
          \/ ~(joy[2] /\ joy[1] # Still) /\ Move(i, joy[1])
    BY DEF Act
<1>3. UNCHANGED <<sessionVars, occupied>>
    BY DEF Act
<1> HIDE DEF i
<1>4. CASE Fire(i, joy[1]) /\ UNCHANGED cell
    BY <1>1, <1>3, <1>4, FireCombat
<1>5. CASE Move(i, joy[1])
  <2>1. ShotsDoNotSwap'
      BY <1>1, <1>5 DEF Move, ShotsDoNotSwap
  <2> QED BY <1>1, <1>3, <1>5, <2>1, QuietTurnCombat DEF Move
<1> QED BY <1>2, <1>4, <1>5

\* A shot that advances leaves nobody behind who moved onto its old cell.
LEMMA SweptTest ==
    ASSUME TypeInv, NEW i \in Slot, shot[i] \in Shot,
           NEW next \in Cell, next = Ahead(shot[i].at, shot[i].dir),
           Victims(i, shot[i], next) = {},
           NEW p \in moved \ {i}, OnBoard(p)
    PROVE  next # cell[p] /\ next # Ahead(cell[p], shot[i].dir)
<1>1. p \in Slot \ {i} /\ cell[p] \in Cell
    BY DEF TypeInv, TypeOK
<1>2. cell[p] # next /\ cell[p] # shot[i].at
    BY <1>1 DEF Victims
<1>3. shot[i].at \in Cell /\ shot[i].dir \in Dir
    BY DEF Shot
<1> QED BY <1>1, <1>2, <1>3, AheadIsInjective

LEMMA StepShotCombat == TypeInv /\ SafeInv /\ CombatInv /\ StepShot => CombatInv'
<1> SUFFICES ASSUME TypeInv, SafeInv, CombatInv, StepShot PROVE CombatInv'
    OBVIOUS
<1> DEFINE i == Min(todo)
           next == Ahead(shot[i].at, shot[i].dir)
           victims == Victims(i, shot[i], next)
<1>1. i \in Slot /\ i \in todo /\ phase = "shots"
    BY MinOfSlots DEF StepShot, TypeInv, TypeOK
<1>2. shot[i] \in Shot /\ shot[i] # NoShot
    BY <1>1 DEF TypeInv, TypeOK, ShotsToStep
<1>3. UNCHANGED <<sessionVars, occupied, cell>>
    BY DEF StepShot
<1>4. CASE victims # {} /\ Hit(i, Min(victims))
  <2>1. Min(victims) \in Slot
      BY <1>4, MinOfSlots DEF Victims
  <2> HIDE DEF i, victims
  <2> QED BY <1>1, <1>2, <1>3, <1>4, <2>1, HitCombat
<1>5. CASE /\ \/ shot' = [shot EXCEPT ![i] = NoShot]
              \/ /\ next \in Cell /\ victims = {}
                 /\ shot' = [shot EXCEPT ![i].at = next]
           /\ todo' = todo \ {i}
           /\ UNCHANGED <<roundVars, score, dead, shown, phase, moved>>
  <2>1. \A k \in Slot \ {i} : shot'[k] = shot[k]
      BY <1>5 DEF TypeInv, TypeOK
  <2>2. \A k \in Slot : OnBoard(k)' <=> OnBoard(k)
      BY <1>3, <1>5 DEF OnBoard
  <2>3. shot'[i] # NoShot =>
            /\ next \in Cell /\ victims = {}
            /\ shot'[i].at = next /\ shot'[i].dir = shot[i].dir
      BY <1>1, <1>2, <1>5 DEF TypeInv, TypeOK, Shot
  <2>4. shot'[i] # NoShot => \A p \in moved \ {i} : OnBoard(p) =>
            shot'[i].at \notin {cell[p], Ahead(cell[p], shot'[i].dir)}
      BY <1>1, <1>2, <2>3, SweptTest
  <2> HIDE DEF i, next, victims
  <2>5. ShotsDoNotSwap'
      BY <1>1, <1>3, <1>5, <2>1, <2>2, <2>4 DEF CombatInv, ShotsDoNotSwap,
         TypeInv, TypeOK
  <2> QED BY <1>1, <1>2, <1>3, <1>5, <2>1, <2>5, QuietTurnCombat
<1>6. next \notin Cell => IsBrick(bricks, next)
    BY DEF IsBrick
<1> QED BY <1>4, <1>5, <1>6 DEF StepShot, IsBrick

LEMMA TickRestCombat ==
    ASSUME TypeInv, SafeInv, CombatInv, BeginShots \/ TickEnd
    PROVE  CombatInv'
<1>1. CASE BeginShots
  <2>1. ShotsDoNotSwap'
      BY <1>1 DEF BeginShots, ShotsDoNotSwap
  <2> QED BY <1>1, <2>1
          DEF BeginShots, CombatInv, HiddenMeansDead, WinnerIsLabelled,
              ShootersAreLabelled, sessionVars, roundVars, actorVars
<1>2. CASE TickEnd
    BY <1>2
    DEF TickEnd, RememberZombies, SafeInv, TickOnlyPlaying, CombatInv,
        HiddenMeansDead, ShotsDoNotSwap, WinnerIsLabelled, ShootersAreLabelled,
        sessionVars, actorVars
<1> QED BY <1>1, <1>2

LEMMA StepCombat == TypeInv /\ SafeInv /\ CombatInv /\ [Next]_vars => CombatInv'
<1> SUFFICES ASSUME TypeInv, SafeInv, CombatInv, [Next]_vars PROVE CombatInv'
    OBVIOUS
<1>1. CASE Accept
    BY <1>1, AcceptCombat
<1>2. ASSUME NEW i \in Slot, Hello(i) \/ Leave(i) \/ Drop(i)
      PROVE  CombatInv'
    BY <1>2, HelloCombat, LeaveCombat, DropCombat
<1>3. CASE GraceExpire \/ IntermissionExpire
    BY <1>3, TimersCombat
<1>4. ASSUME NEW i \in Slot, RespawnRequest(i) \/ BrickRequest(i)
      PROVE  CombatInv'
    BY <1>4, RequestsCombat
<1>5. ASSUME NEW due \in SUBSET Slot, TickBegin(due)
      PROVE  CombatInv'
    BY <1>5, TickBeginCombat
<1>6. CASE TickStep
    BY <1>6, ActCombat, StepShotCombat, TickRestCombat DEF TickStep
<1>7. CASE UNCHANGED vars
    BY <1>7
    DEF vars, sessionVars, roundVars, actorVars, tickVars, CombatInv,
        HiddenMeansDead, ShotsDoNotSwap, WinnerIsLabelled, ShootersAreLabelled,
        OnBoard
<1> QED BY <1>1, <1>2, <1>3, <1>4, <1>5, <1>6, <1>7 DEF Next

\* Announcements, shots and labels, by one induction over the sessions.
THEOREM CombatInvariance == Spec => []CombatInv
<1> QED BY TypeInvariance, SafeInvariance, InitCombat, StepCombat, PTL DEF Spec

\* Whomever the clients were told to hide is waiting for a respawn: no join,
\* reset, wake-up or tick revives an actor without telling them.
THEOREM HiddenCorrect == Spec => []HiddenMeansDead
<1>1. CombatInv => HiddenMeansDead
    BY DEF CombatInv
<1> QED BY <1>1, CombatInvariance, PTL

\* A shot and an actor never exchange cells unnoticed, for any number of shots
\* and actors in one tick.
THEOREM SweepCorrect == Spec => []ShotsDoNotSwap
<1>1. CombatInv => ShotsDoNotSwap
    BY DEF CombatInv
<1> QED BY <1>1, CombatInvariance, PTL

\* The winner of a frozen result is a human that the result lists, or a slot that
\* a zombie held at some moment of the round, whichever seats the zombies were
\* moved to since it fired.  Such a slot's row may be blank (freeze_match_result).
THEOREM LabelsCorrect == Spec => []WinnerIsLabelled
<1>1. CombatInv => WinnerIsLabelled
    BY DEF CombatInv
<1> QED BY <1>1, CombatInvariance, PTL

----------------------------------------------------------------------------
(* Placement                                                               *)

\* The AI fills every seat it may, or none: the two settings in which a seat
\* never returns to an actor that left the board.
Backfilled == Zombies \in {0, MAX_PLAYERS - 1}

\* Whom the next tick would put on the board is on it already.
SeatsAreOccupied == round_state = "playing" => Seated(conn) \subseteq occupied

PlaceInv == SeatsAreOccupied /\ Placement

\* With these settings the zombies' seats never move.
LEMMA ZombiesStay ==
    ASSUME Backfilled, NEW c
    PROVE  ZombieMask(c) = IF Zombies = 0 THEN {}
                           ELSE {i \in Slot \ {0} : c[i] # "human"}
<1> DEFINE before(i) == {j \in 1 .. i - 1 : c[j] # "human"}
<1>1. ASSUME NEW i \in Slot \ {0}
      PROVE  Cardinality(before(i)) \in 0 .. i - 1
  <2>1. i \in Nat /\ i > 0
      BY DEF Slot
  <2>2. IsFiniteSet(1 .. i - 1) /\ Cardinality(1 .. i - 1) = i - 1
      BY <2>1, FS_Interval
  <2>3. /\ IsFiniteSet(before(i))
        /\ Cardinality(before(i)) <= Cardinality(1 .. i - 1)
      BY <2>2, FS_Subset
  <2>4. Cardinality(before(i)) \in Nat
      BY <2>3, FS_CardinalityType
  <2> QED BY <2>1, <2>2, <2>3, <2>4
<1>2. ASSUME NEW i \in Slot \ {0}
      PROVE  Cardinality(before(i)) < Zombies <=> Zombies # 0
  <2>1. i \in 1 .. MAX_PLAYERS - 1
      BY DEF Slot
  <2> HIDE DEF before
  <2> QED BY <1>1, <2>1 DEF Backfilled
<1> QED BY <1>2 DEF ZombieMask

LEMMA SeatsBackfilled ==
    ASSUME Backfilled, NEW c
    PROVE  Seated(c) = Humans(c) \cup (IF Zombies = 0 THEN {} ELSE Slot \ {0})
    BY ZombiesStay DEF Seated, Humans

\* Legal placements are free cells, all different among the visible slots.
LEMMA PlacedApart ==
    ASSUME NEW due, due \subseteq Slot, NEW visible, NEW actors, NEW b, NEW place,
           LegalPlacement(place, due, visible, actors, b)
    PROVE  /\ \A i \in due : place[i] \notin b /\ place[i] \notin actors
           /\ \A i, j \in due \cap visible : i # j => place[i] # place[j]
<1>1. ASSUME NEW i \in due, NEW j \in due \cap visible, j < i
      PROVE  place[i] # place[j]
  <2> DEFINE held == actors \cup {place[k] : k \in {l \in due \cap visible : l < i}}
  <2>1. place[i] \in SpawnCells(b, held)
      BY DEF LegalPlacement
  <2>2. place[i] \notin held
      BY <2>1, SpawnIsFree
  <2>3. place[j] \in held
      BY <1>1
  <2> QED BY <2>2, <2>3
<1>2. \A i \in due : place[i] \notin b /\ place[i] \notin actors
  <2> SUFFICES ASSUME NEW i \in due PROVE place[i] \notin b /\ place[i] \notin actors
      OBVIOUS
  <2> DEFINE held == actors \cup {place[k] : k \in {l \in due \cap visible : l < i}}
  <2>1. place[i] \in SpawnCells(b, held)
      BY DEF LegalPlacement
  <2> QED BY <2>1, SpawnIsFree
<1>3. \A i, j \in due : i # j => i < j \/ j < i
    BY DEF Slot
<1> QED BY <1>1, <1>2, <1>3

LEMMA InitPlace == Init => PlaceInv
    BY DEF Init, PlaceInv, SeatsAreOccupied, Placement

\* The reset barrier places everybody who plays anew, or takes all away.
LEMMA ResetRoundPlace ==
    ASSUME TypeInv, NEW st \in {"playing", "dormant"}, ResetRound(conn', st)
    PROVE  PlaceInv'
<1> DEFINE seats == Seated(conn')
<1>1. PICK place \in [seats -> Cell \ Layout] :
          /\ LegalPlacement(place, seats, seats, {}, Layout)
          /\ cell' = [i \in Slot |-> IF i \in seats THEN place[i] ELSE cell[i]]
    BY DEF ResetRound
<1>2. /\ bricks' = Layout
      /\ occupied' = IF st = "dormant" THEN {} ELSE seats
      /\ round_state' = st
    BY DEF ResetRound, FreshBricks
<1>3. seats \subseteq Slot
    BY SeatsAreSlots
<1> HIDE DEF seats
<1>4. /\ \A i \in seats : place[i] \notin Layout
      /\ \A i, j \in seats : i # j => place[i] # place[j]
    BY <1>1, <1>3, PlacedApart
<1>5. Placement'
    BY <1>1, <1>2, <1>3, <1>4 DEF Placement
<1> QED BY <1>2, <1>5 DEF PlaceInv, SeatsAreOccupied, seats

\* Nobody moves, nobody appears, and the maze only opens.
LEMMA BoardKept ==
    ASSUME Placement, cell' = cell, occupied' \subseteq occupied,
           bricks' \subseteq bricks, \A i \in occupied' : dead[i] => dead'[i]
    PROVE  Placement'
    BY DEF Placement

\* One actor moves to, or appears on, a cell that is free of bricks and actors.
LEMMA OnePlaced ==
    ASSUME TypeInv, Placement, NEW i \in Slot, NEW c, c \notin bricks,
           \A j \in Slot \ {i} : OnBoard(j) => cell[j] # c,
           cell' = [cell EXCEPT ![i] = c],
           occupied' \subseteq occupied \cup {i}, bricks' = bricks,
           \A j \in Slot \ {i} : dead'[j] = dead[j]
    PROVE  Placement'
<1>1. \A j \in Slot \ {i} : j \in occupied' /\ ~dead'[j] => OnBoard(j)
    BY DEF OnBoard
<1>2. cell'[i] = c /\ \A j \in Slot \ {i} : cell'[j] = cell[j]
    BY DEF TypeInv, TypeOK
<1>3. occupied' \subseteq Slot
    BY DEF TypeInv, TypeOK
<1> QED BY <1>1, <1>2, <1>3 DEF Placement, OnBoard

\* A seat is accepted or given up while it stays on the board's mask.
LEMMA SessionPlace ==
    ASSUME Backfilled, TypeInv, PlaceInv, Humans(conn') \subseteq Humans(conn),
           UNCHANGED <<roundVars, actorVars, bricks>>
    PROVE  PlaceInv'
<1>1. Seated(conn') \subseteq Seated(conn)
    BY SeatsBackfilled
<1>2. Placement'
    BY BoardKept DEF PlaceInv, actorVars
<1> QED BY <1>1, <1>2 DEF PlaceInv, SeatsAreOccupied, roundVars, actorVars

LEMMA AcceptPlace ==
    ASSUME Backfilled, TypeInv, PlaceInv, Accept
    PROVE  PlaceInv'
<1>1. PICK i \in AllocClientSlot(conn) :
          conn' = [conn EXCEPT ![i] = "pending"] /\ ResetSlotGameplay(i)
    BY DEF Accept
<1>2. i \in Slot
    BY AllocIsSlot
<1>3. conn \in [Slot -> Connection]
    BY DEF TypeInv, TypeOK
<1>4. Humans([conn EXCEPT ![i] = "pending"]) = Humans(conn) \ {i}
    BY <1>2, <1>3, HumansAfter
<1>5. Humans(conn') \subseteq Humans(conn)
    BY <1>1, <1>4
<1> QED BY <1>5, SessionPlace DEF Accept

LEMMA WakePlace ==
    ASSUME WakeDormantRoom(conn')
    PROVE  PlaceInv'
<1> DEFINE seats == Seated(conn')
<1>1. PICK place \in [seats -> Cell \ bricks] :
          /\ LegalPlacement(place, seats, seats, {}, bricks)
          /\ cell' = [i \in Slot |-> IF i \in seats THEN place[i] ELSE cell[i]]
    BY DEF WakeDormantRoom
<1>2. bricks' = bricks /\ occupied' = seats
    BY DEF WakeDormantRoom
<1>3. seats \subseteq Slot
    BY SeatsAreSlots
<1> HIDE DEF seats
<1>4. /\ \A i \in seats : place[i] \notin bricks
      /\ \A i, j \in seats : i # j => place[i] # place[j]
    BY <1>1, <1>3, PlacedApart
<1>5. Placement'
    BY <1>1, <1>2, <1>3, <1>4 DEF Placement
<1> QED BY <1>2, <1>5 DEF PlaceInv, SeatsAreOccupied, seats

LEMMA HelloPlace ==
    ASSUME Backfilled, TypeInv, PlaceInv, NEW i \in Slot, Hello(i)
    PROVE  PlaceInv'
<1>1. conn' = [conn EXCEPT ![i] = "human"]
    BY DEF Hello
<1>2. Humans(conn') = Humans(conn) \cup {i}
    BY <1>1, HumansAfter DEF TypeInv, TypeOK
<1>3. Seated(conn') \subseteq Seated(conn) \cup {i}
    BY <1>2, SeatsBackfilled
<1>4. CASE WakeDormantRoom([conn EXCEPT ![i] = "human"])
    BY <1>1, <1>4, WakePlace
<1>5. CASE /\ ActivateJoiningClient(i, TakesOver(i))
           /\ UNCHANGED <<roundVars, bricks, score, shot>>
  <2>1. SeatsAreOccupied'
      BY <1>3, <1>5
      DEF ActivateJoiningClient, WithJoiner, PlaceInv, SeatsAreOccupied, roundVars
  <2>2. PICK c : /\ c \in IF TakesOver(i) THEN {cell[i]}
                          ELSE SpawnCells(bricks, ActorCells)
                 /\ cell' = [cell EXCEPT ![i] = c]
      BY <1>5 DEF ActivateJoiningClient
  <2>3. \A j \in Slot \ {i} : dead'[j] = dead[j]
      BY <1>5 DEF ActivateJoiningClient, TypeInv, TypeOK
  <2>4. /\ c \notin bricks
        /\ \A j \in Slot \ {i} : OnBoard(j) => cell[j] # c
    <3>1. CASE TakesOver(i)
        BY <2>2, <3>1 DEF TakesOver, OnBoard, PlaceInv, Placement
    <3>2. CASE ~TakesOver(i)
        BY <2>2, <3>2, SpawnIsFree DEF ActorCells
    <3> QED BY <3>1, <3>2
  <2>5. Placement'
      BY <1>5, <2>2, <2>3, <2>4, OnePlaced
      DEF ActivateJoiningClient, WithJoiner, PlaceInv
  <2> QED BY <2>1, <2>5 DEF PlaceInv
<1>6. CASE /\ round_state = "over"
           /\ UNCHANGED <<roundVars, actorVars, bricks, score, shot>>
  <2>1. Placement'
      BY <1>6, BoardKept DEF PlaceInv, actorVars
  <2> QED BY <1>6, <2>1 DEF PlaceInv, SeatsAreOccupied, roundVars
<1> QED BY <1>4, <1>5, <1>6 DEF Hello

LEMMA LeaveDropPlace ==
    ASSUME Backfilled, TypeInv, PlaceInv, NEW i \in Slot, Leave(i) \/ Drop(i)
    PROVE  PlaceInv'
<1>1. conn' = [conn EXCEPT ![i] = "free"]
    BY DEF Leave, Drop
<1>2. conn \in [Slot -> Connection]
    BY DEF TypeInv, TypeOK
<1>3. Humans([conn EXCEPT ![i] = "free"]) = Humans(conn) \ {i}
    BY <1>2, HumansAfter
<1>4. Humans(conn') \subseteq Humans(conn)
    BY <1>1, <1>3
<1>5. CASE ResetRound(conn', "dormant") \/ ResetRound(conn', "playing")
    BY <1>5, ResetRoundPlace
<1>6. CASE UNCHANGED <<roundVars, actorVars, bricks>>
    BY <1>4, <1>6, SessionPlace
<1> QED BY <1>1, <1>5, <1>6, Zenon DEF Leave, Drop, BeginNoHumanGrace

LEMMA TimersPlace ==
    ASSUME TypeInv, GraceExpire \/ IntermissionExpire
    PROVE  PlaceInv'
<1>1. conn' = conn
    BY DEF GraceExpire, IntermissionExpire, sessionVars
<1>2. ResetRound(conn', "dormant") \/ ResetRound(conn', "playing")
    BY <1>1 DEF GraceExpire, IntermissionExpire
<1> QED BY <1>2, ResetRoundPlace

LEMMA RequestsPlace ==
    ASSUME TypeInv, PlaceInv, NEW i \in Slot, RespawnRequest(i) \/ BrickRequest(i)
    PROVE  PlaceInv'
<1>1. UNCHANGED <<conn, round_state, occupied, dead>>
    BY DEF RespawnRequest, BrickRequest, sessionVars, roundVars, actorVars
<1>2. CASE RespawnRequest(i)
  <2>1. PICK c \in SpawnCells(bricks, ActorCells) : cell' = [cell EXCEPT ![i] = c]
      BY <1>2 DEF RespawnRequest
  <2>2. c \notin bricks /\ \A j \in Slot \ {i} : OnBoard(j) => cell[j] # c
      BY SpawnIsFree DEF ActorCells
  <2> QED BY <1>1, <1>2, <2>1, <2>2, OnePlaced
          DEF RespawnRequest, PlaceInv, SeatsAreOccupied
<1>3. CASE BrickRequest(i)
  <2>1. bricks' \subseteq bricks
      BY <1>3, BrokenShrinks DEF BrickRequest
  <2> QED BY <1>1, <1>3, <2>1, BoardKept
          DEF BrickRequest, PlaceInv, SeatsAreOccupied, actorVars
<1> QED BY <1>2, <1>3

\* The respawns that are due keep clear of the living and of one another.
LEMMA TickBeginPlace ==
    ASSUME TypeInv, PlaceInv, NEW due \in SUBSET Slot, TickBegin(due)
    PROVE  PlaceInv'
<1> DEFINE seats == Seated(conn)
           others == {cell[j] : j \in {k \in seats : ~dead[k]}}
<1>1. PICK place \in [due -> Cell \ bricks] :
          /\ LegalPlacement(place, due, seats, others, bricks)
          /\ cell' = [i \in Slot |-> IF i \in due THEN place[i] ELSE cell[i]]
    BY DEF TickBegin
<1>2. /\ occupied' = seats
      /\ round_state = "playing" /\ UNCHANGED <<conn, round_state, bricks>>
      /\ \A i \in Slot : dead'[i] = (dead[i] /\ i \notin due)
      /\ \A i \in due : dead[i]
    BY DEF TickBegin, MayRespawn, sessionVars, roundVars
<1>3. seats \subseteq occupied /\ seats \subseteq Slot
    BY <1>2, SeatsAreSlots DEF PlaceInv, SeatsAreOccupied
<1>4. /\ \A i \in due : place[i] \notin bricks /\ place[i] \notin others
      /\ \A i, j \in due \cap seats : i # j => place[i] # place[j]
    BY <1>1, PlacedApart
<1>5. \A i \in seats : ~dead[i] => cell[i] \in others
    OBVIOUS
<1> HIDE DEF others
<1>6. ASSUME NEW i \in seats, ~dead'[i]
      PROVE  /\ i \in due \/ ~dead[i]
             /\ cell'[i] = IF i \in due THEN place[i] ELSE cell[i]
             /\ cell'[i] \notin bricks
    BY <1>1, <1>2, <1>3, <1>4, <1>6 DEF PlaceInv, Placement
<1>7. ASSUME NEW i \in seats, NEW j \in seats \ {i}, ~dead'[i], ~dead'[j]
      PROVE  cell'[i] # cell'[j]
  <2>1. CASE i \in due /\ j \in due
      BY <1>4, <1>6, <1>7, <2>1
  <2>2. CASE i \in due /\ j \notin due
      BY <1>4, <1>5, <1>6, <1>7, <2>2
  <2>3. CASE i \notin due /\ j \in due
      BY <1>4, <1>5, <1>6, <1>7, <2>3
  <2>4. CASE i \notin due /\ j \notin due
      BY <1>3, <1>6, <1>7, <2>4 DEF PlaceInv, Placement
  <2> QED BY <2>1, <2>2, <2>3, <2>4
<1>8. Placement'
    BY <1>2, <1>6, <1>7 DEF Placement
<1> QED BY <1>2, <1>8 DEF PlaceInv, SeatsAreOccupied

LEMMA HitPlace ==
    ASSUME TypeInv, PlaceInv, NEW i \in Slot, NEW p \in Slot, Hit(i, p),
           UNCHANGED <<sessionVars, occupied, cell, bricks>>
    PROVE  PlaceInv'
<1>1. \A k \in Slot : dead[k] => dead'[k]
    BY DEF Hit, EnterRoundOver, TypeInv, TypeOK
<1>2. occupied \subseteq Slot
    BY DEF TypeInv, TypeOK
<1>3. Placement'
    BY <1>1, <1>2, BoardKept DEF PlaceInv
<1>4. round_state' = round_state \/ round_state' = "over"
    BY DEF Hit, EnterRoundOver, roundVars
<1> QED BY <1>3, <1>4 DEF PlaceInv, SeatsAreOccupied, sessionVars

LEMMA FirePlace ==
    ASSUME TypeInv, PlaceInv, NEW i \in Slot, NEW d, Fire(i, d),
           UNCHANGED <<sessionVars, occupied, cell>>
    PROVE  PlaceInv'
<1> DEFINE target == Ahead(cell[i], d)
           hit == {p \in Slot \ {i} : OnBoard(p) /\ cell[p] = target}
<1>1. CASE hit # {} /\ Hit(i, Min(hit)) /\ UNCHANGED bricks
  <2>1. Min(hit) \in Slot
      BY <1>1, MinOfSlots
  <2> HIDE DEF hit
  <2> QED BY <1>1, <2>1, HitPlace
<1>2. CASE /\ bricks' = Broken(bricks, target) \/ UNCHANGED bricks
           /\ UNCHANGED <<roundVars, score, dead, shown, phase, moved>>
  <2>1. bricks' \subseteq bricks
      BY <1>2, BrokenShrinks
  <2> QED BY <1>2, <2>1, BoardKept
          DEF PlaceInv, SeatsAreOccupied, sessionVars, roundVars
<1> QED BY <1>1, <1>2 DEF Fire

LEMMA MovePlace ==
    ASSUME TypeInv, PlaceInv, NEW i \in Slot, NEW stick, Move(i, stick),
           UNCHANGED <<sessionVars, occupied>>
    PROVE  PlaceInv'
<1>1. SeatsAreOccupied'
    BY DEF Move, PlaceInv, SeatsAreOccupied, sessionVars, roundVars
<1>2. CASE CanStep(i, stick) /\ cell' = [cell EXCEPT ![i] = Ahead(cell[i], stick)]
  <2> DEFINE c == Ahead(cell[i], stick)
  <2>1. c \notin bricks /\ \A j \in Slot \ {i} : OnBoard(j) => cell[j] # c
      BY <1>2 DEF CanStep, Blocked, IsBrick
  <2> HIDE DEF c
  <2>2. cell' = [cell EXCEPT ![i] = c]
      BY <1>2 DEF c
  <2>3. UNCHANGED <<occupied, dead, bricks>>
      BY DEF Move
  <2>4. Placement'
      BY <2>1, <2>2, <2>3, OnePlaced DEF PlaceInv
  <2> QED BY <1>1, <2>4 DEF PlaceInv
<1>3. CASE UNCHANGED cell
  <2>1. UNCHANGED <<occupied, dead, bricks>>
      BY DEF Move
  <2>2. Placement'
      BY <1>3, <2>1, BoardKept DEF PlaceInv
  <2> QED BY <1>1, <2>2 DEF PlaceInv
<1> QED BY <1>2, <1>3 DEF Move

LEMMA ActPlace == TypeInv /\ PlaceInv /\ Act => PlaceInv'
<1> SUFFICES ASSUME TypeInv, PlaceInv, Act PROVE PlaceInv'
    OBVIOUS
<1> DEFINE i == Min(Acting)
<1>1. i \in Slot
    BY ActingIsSlot DEF Act
<1>2. PICK joy \in Inputs(i) :
          \/ /\ joy[2] /\ joy[1] # Still
             /\ Fire(i, joy[1])
             /\ UNCHANGED cell
          \/ ~(joy[2] /\ joy[1] # Still) /\ Move(i, joy[1])
    BY DEF Act
<1>3. UNCHANGED <<sessionVars, occupied>>
    BY DEF Act
<1> HIDE DEF i
<1> QED BY <1>1, <1>2, <1>3, FirePlace, MovePlace

LEMMA StepShotPlace == TypeInv /\ PlaceInv /\ StepShot => PlaceInv'
<1> SUFFICES ASSUME TypeInv, PlaceInv, StepShot PROVE PlaceInv'
    OBVIOUS
<1> DEFINE i == Min(todo)
           next == Ahead(shot[i].at, shot[i].dir)
           victims == Victims(i, shot[i], next)
<1>1. i \in Slot
    BY MinOfSlots DEF StepShot, TypeInv, TypeOK
<1>2. UNCHANGED <<sessionVars, occupied, cell>>
    BY DEF StepShot
<1>3. CASE victims # {} /\ Hit(i, Min(victims)) /\ UNCHANGED bricks
  <2>1. Min(victims) \in Slot
      BY <1>3, MinOfSlots DEF Victims
  <2> HIDE DEF i, victims
  <2> QED BY <1>1, <1>2, <1>3, <2>1, HitPlace
<1>4. CASE /\ bricks' = Broken(bricks, next) \/ UNCHANGED bricks
           /\ UNCHANGED <<roundVars, score, dead, shown, phase, moved>>
  <2>1. bricks' \subseteq bricks
      BY <1>4, BrokenShrinks
  <2> QED BY <1>2, <1>4, <2>1, BoardKept
          DEF PlaceInv, SeatsAreOccupied, sessionVars, roundVars
<1> QED BY <1>3, <1>4 DEF StepShot

LEMMA StepPlace ==
    ASSUME Backfilled
    PROVE  TypeInv /\ PlaceInv /\ [Next]_vars => PlaceInv'
<1> SUFFICES ASSUME TypeInv, PlaceInv, [Next]_vars PROVE PlaceInv'
    OBVIOUS
<1>1. CASE Accept
    BY <1>1, AcceptPlace
<1>2. ASSUME NEW i \in Slot, Hello(i) \/ Leave(i) \/ Drop(i)
      PROVE  PlaceInv'
    BY <1>2, HelloPlace, LeaveDropPlace
<1>3. CASE GraceExpire \/ IntermissionExpire
    BY <1>3, TimersPlace
<1>4. ASSUME NEW i \in Slot, RespawnRequest(i) \/ BrickRequest(i)
      PROVE  PlaceInv'
    BY <1>4, RequestsPlace
<1>5. ASSUME NEW due \in SUBSET Slot, TickBegin(due)
      PROVE  PlaceInv'
    BY <1>5, TickBeginPlace
<1>6. CASE Act \/ StepShot
    BY <1>6, ActPlace, StepShotPlace
<1>7. CASE BeginShots \/ TickEnd \/ UNCHANGED vars
  <2>1. UNCHANGED <<conn, round_state, occupied, cell, dead, bricks>>
      BY <1>7 DEF BeginShots, TickEnd, vars, sessionVars, roundVars, actorVars
  <2> QED BY <2>1 DEF PlaceInv, SeatsAreOccupied, Placement
<1> QED BY <1>1, <1>2, <1>3, <1>4, <1>5, <1>6, <1>7 DEF Next, TickStep

\* Where the AI fills every seat it may, or none, actors on the board never
\* share a cell and never stand in a brick, however sessions, respawns, moves
\* and rounds interleave.  (Run "overlap" shows the setting in between.)
THEOREM PlacementCorrect ==
    ASSUME Backfilled
    PROVE  Spec => []Placement
<1>1. PlaceInv => Placement
    BY DEF PlaceInv
<1> QED BY <1>1, TypeInvariance, InitPlace, StepPlace, PTL DEF Spec

=============================================================================
