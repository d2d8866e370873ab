------------------------- MODULE ConnectionsProofs -------------------------
(***************************************************************************)
(* Descriptors are neither leaked nor closed twice, and a new connection   *)
(* finds a clean seat, for every number of seats, entries and descriptors, *)
(* whatever the deadlines are and whatever is sent to whom.                *)
(***************************************************************************)
EXTENDS Connections, TLAPS, WellFoundedInduction

USE SeatAssumption, ConnectionsAssumption

----------------------------------------------------------------------------
(* Choosing a slot                                                         *)

\* The least of some naturals is one of them, and least.
LEMMA LeastIsOne ==
    ASSUME NEW S, S \subseteq Nat, S # {}
    PROVE  Min(S) \in S /\ \A m \in S : Min(S) <= m
<1> DEFINE R == {ss \in Nat \X Nat : ss[1] < ss[2]}
<1>1. OpToRel(<, Nat) = R
    BY Zenon DEF OpToRel
<1>2. IsWellFoundedOn(R, Nat)
    BY <1>1, NatLessThanWellFounded, Zenon
<1>3. \E n \in S : \A m \in S : <<m, n>> \notin R
  <2> HIDE DEF R
  <2> QED BY <1>2, WFMin, Zenon
<1>4. PICK n \in S : \A m \in S : <<m, n>> \notin R
    BY <1>3
<1>5. ASSUME NEW m \in S PROVE n <= m
  <2>1. m \in Nat /\ n \in Nat
      OBVIOUS
  <2>2. ~(m < n)
      BY <2>1, <1>4
  <2> QED BY <2>1, <2>2
<1> QED BY <1>5 DEF Min

\* accept finds a slot that is free or whose connection is still pending.
LEMMA AllocIsNotHuman ==
    ASSUME NEW i \in AllocClientSlot(States)
    PROVE  i \in Slot /\ ~Human(i)
<1> DEFINE conn == States
           humanSeats == Slot \ ZombieMask(conn)
           free == {k \in humanSeats : conn[k] = "free"}
           replaceable == {k \in humanSeats : conn[k] = "pending"}
           anyFree == {k \in Slot : conn[k] = "free"}
<1>1. Slot \subseteq Nat
    BY DEF Slot
<1>2. \/ free # {} /\ i = Min(free)
      \/ replaceable # {} /\ i = Min(replaceable)
      \/ anyFree # {} /\ i = Min(anyFree)
    BY Zenon DEF AllocClientSlot
<1>3. i \in Slot /\ conn[i] # "human"
  <2>1. CASE free # {} /\ i = Min(free)
      BY <2>1, <1>1, LeastIsOne
  <2>2. CASE replaceable # {} /\ i = Min(replaceable)
      BY <2>2, <1>1, LeastIsOne
  <2>3. CASE anyFree # {} /\ i = Min(anyFree)
      BY <2>3, <1>1, LeastIsOne
  <2> QED BY <1>2, <2>1, <2>2, <2>3
<1>4. Human(i) => conn[i] = "human"
    BY <1>3 DEF States, Human, Pending
<1> QED BY <1>3, <1>4

----------------------------------------------------------------------------
(* The inductive invariant                                                 *)

\* Types of what the argument is about.
Descriptors ==
    /\ client_fd \in [Slot -> Fd \cup {NoFd}]
    /\ departing_fd \in [Exit -> Fd \cup {NoFd}]
    /\ opened \subseteq Fd

\* What poll recorded names an entry and a descriptor.
Recorded ==
    /\ \A ref \in clientRefs : ref.slot \in Slot /\ ref.fd # NoFd
    /\ \A ref \in exitRefs : ref.exit \in Exit /\ ref.fd # NoFd

FdInv == Descriptors /\ OwnersAreExact /\ Recorded

\* Giving entries up and closing their descriptors, in whatever number.
LEMMA LettingGo ==
    ASSUME Descriptors, OwnersAreExact,
           NEW slots \in SUBSET Slot, NEW exits \in SUBSET Exit,
           client_fd' = [i \in Slot |-> IF i \in slots THEN NoFd ELSE client_fd[i]],
           departing_fd' = [k \in Exit |-> IF k \in exits THEN NoFd ELSE departing_fd[k]],
           opened' = opened \ ({client_fd[i] : i \in slots}
                               \cup {departing_fd[k] : k \in exits})
    PROVE  Descriptors' /\ OwnersAreExact'
<1> USE DEF Descriptors
<1>1. Descriptors'
    OBVIOUS
<1>2. ASSUME NEW f \in Owned' \ {NoFd} PROVE f \in opened'
  <2>1. CASE \E i \in Slot : f = client_fd'[i]
    <3>1. PICK i \in Slot : f = client_fd'[i]
        BY <2>1
    <3>2. i \notin slots /\ f = client_fd[i] /\ f \in opened
        BY <3>1, <1>2 DEF OwnersAreExact, Owned
    <3> QED BY <3>2, <1>2 DEF OwnersAreExact
  <2>2. CASE \E k \in Exit : f = departing_fd'[k]
    <3>1. PICK k \in Exit : f = departing_fd'[k]
        BY <2>2
    <3>2. k \notin exits /\ f = departing_fd[k] /\ f \in opened
        BY <3>1, <1>2 DEF OwnersAreExact, Owned
    <3> QED BY <3>2, <1>2 DEF OwnersAreExact
  <2> QED BY <1>2, <2>1, <2>2 DEF Owned
<1>3. ASSUME NEW f \in opened' PROVE f \in Owned' \ {NoFd}
  <2>1. f \in Owned /\ f # NoFd
      BY <1>3 DEF OwnersAreExact
  <2>2. CASE \E i \in Slot : f = client_fd[i]
    <3>1. PICK i \in Slot : f = client_fd[i]
        BY <2>2
    <3>2. i \notin slots
        BY <3>1, <1>3
    <3> QED BY <2>1, <3>1, <3>2 DEF Owned
  <2>3. CASE \E k \in Exit : f = departing_fd[k]
    <3>1. PICK k \in Exit : f = departing_fd[k]
        BY <2>3
    <3>2. k \notin exits
        BY <3>1, <1>3
    <3> QED BY <2>1, <3>1, <3>2 DEF Owned
  <2> QED BY <2>1, <2>2, <2>3 DEF Owned
<1>4. OwnersAreExact'
  <2>1. (Owned \ {NoFd} = opened)'
      BY <1>2, <1>3
  <2> QED BY <2>1 DEF OwnersAreExact
<1> QED BY <1>1, <1>4

\* Seats are given up and their descriptors closed.
LEMMA VacateKeeps ==
    ASSUME Descriptors, OwnersAreExact, NEW slots \in SUBSET Slot, NEW now,
           Vacate(slots, now), Close({client_fd[i] : i \in slots}),
           UNCHANGED departing_fd
    PROVE  Descriptors' /\ OwnersAreExact'
<1> DEFINE none == {}
<1>1. none \in SUBSET Exit
    OBVIOUS
<1>2. departing_fd' = [k \in Exit |-> IF k \in none THEN NoFd ELSE departing_fd[k]]
    BY DEF Descriptors
<1>3. opened' = opened \ ({client_fd[i] : i \in slots} \cup {departing_fd[k] : k \in none})
    BY DEF Close
<1>4. client_fd' = [i \in Slot |-> IF i \in slots THEN NoFd ELSE client_fd[i]]
    BY DEF Vacate
<1> HIDE DEF none
<1> QED BY <1>1, <1>2, <1>3, <1>4, LettingGo

\* drop_client and reap_timed_out_clients.
LEMMA DropKeeps ==
    ASSUME Descriptors, OwnersAreExact, NEW slots \in SUBSET Slot, Drop(slots),
           UNCHANGED departing_fd
    PROVE  Descriptors' /\ OwnersAreExact'
  BY VacateKeeps DEF Drop

\* reset_departing.
LEMMA ReleaseKeeps ==
    ASSUME Descriptors, OwnersAreExact, NEW exits \in SUBSET Exit, Release(exits),
           UNCHANGED client_fd
    PROVE  Descriptors' /\ OwnersAreExact'
<1> DEFINE none == {}
<1>1. none \in SUBSET Slot
    OBVIOUS
<1>2. client_fd' = [i \in Slot |-> IF i \in none THEN NoFd ELSE client_fd[i]]
    BY DEF Descriptors
<1>3. opened' = opened \ ({client_fd[i] : i \in none} \cup {departing_fd[k] : k \in exits})
    BY DEF Release, Close
<1>4. departing_fd' = [k \in Exit |-> IF k \in exits THEN NoFd ELSE departing_fd[k]]
    BY DEF Release
<1> HIDE DEF none
<1> QED BY <1>1, <1>2, <1>3, <1>4, LettingGo

\* detach_voluntary_client moves a descriptor, or closes it.
LEMMA DetachKeeps ==
    ASSUME Descriptors, OwnersAreExact, NEW i \in Slot, client_fd[i] # NoFd,
           NEW c, NEW n, NEW now, Detach(i, c, n, now)
    PROVE  Descriptors' /\ OwnersAreExact'
<1> USE DEF Descriptors
<1> DEFINE f == client_fd[i]
<1>1. client_fd' = [j \in Slot |-> IF j \in {i} THEN NoFd ELSE client_fd[j]]
    BY DEF Detach, Vacate
<1>2. CASE FreeExits = {}
  <2> DEFINE self == {i}
             none == {}
  <2>1. self \in SUBSET Slot /\ none \in SUBSET Exit
      OBVIOUS
  <2>2. client_fd' = [j \in Slot |-> IF j \in self THEN NoFd ELSE client_fd[j]]
      BY <1>1
  <2>3. departing_fd' = [k \in Exit |-> IF k \in none THEN NoFd ELSE departing_fd[k]]
      BY <1>2 DEF Detach, departingVars
  <2>4. opened' = opened \ ({client_fd[j] : j \in self} \cup {departing_fd[k] : k \in none})
      BY <1>2 DEF Detach, Homeless, Close
  <2> HIDE DEF self, none, Descriptors
  <2> QED BY <2>1, <2>2, <2>3, <2>4, LettingGo
<1>3. CASE FreeExits # {}
  <2> DEFINE k == Min(FreeExits)
  <2>1. k \in Exit /\ departing_fd[k] = NoFd
    <3>1. FreeExits \subseteq Nat
        BY DEF FreeExits, Exit
    <3> QED BY <3>1, <1>3, LeastIsOne DEF FreeExits
  <2>2. departing_fd' = [departing_fd EXCEPT ![k] = f] /\ opened' = opened
      BY <1>3 DEF Detach, Homeless, Consume
  <2> HIDE DEF k
  <2>3. Descriptors'
      BY <1>1, <2>1, <2>2
  <2>4. (Owned \ {NoFd} = opened)'
    <3>1. ASSUME NEW g \in Owned' \ {NoFd} PROVE g \in Owned \ {NoFd}
        BY <1>1, <2>1, <2>2, <3>1 DEF Owned
    <3>2. ASSUME NEW g \in Owned \ {NoFd} PROVE g \in Owned' \ {NoFd}
      <4>1. CASE \E j \in Slot : g = client_fd[j]
          BY <4>1, <3>2, <1>1, <2>1, <2>2 DEF Owned
      <4>2. CASE \E l \in Exit : g = departing_fd[l]
          BY <4>2, <3>2, <2>1, <2>2 DEF Owned
      <4> QED BY <3>2, <4>1, <4>2 DEF Owned
    <3> QED BY <2>2, <3>1, <3>2 DEF OwnersAreExact
  <2>5. OwnersAreExact'
      BY <1>1, <2>1, <2>2, <2>4 DEF OwnersAreExact
  <2> QED BY <2>3, <2>5
<1> QED BY <1>2, <1>3

\* accept_room_client takes a free seat or a pending one.
LEMMA TakeSeatKeeps ==
    ASSUME Descriptors, OwnersAreExact, NEW f \in Fd \ opened,
           NEW i \in AllocClientSlot(States), TakeSeat(i, f),
           UNCHANGED departing_fd
    PROVE  Descriptors' /\ OwnersAreExact'
<1> USE DEF Descriptors
<1>1. i \in Slot /\ ~Human(i)
    BY AllocIsNotHuman
<1>2. opened' = (opened \ {client_fd[i]}) \cup {f}
  <2>1. CASE Pending(i)
      BY <2>1 DEF TakeSeat, Replaced
  <2>2. CASE ~Pending(i)
    <3>1. client_fd[i] = NoFd
        BY <1>1, <2>2 DEF Human, Pending, Connected
    <3> QED BY <2>2, <3>1 DEF TakeSeat, Replaced
  <2> QED BY <2>1, <2>2
<1>3. client_fd' = [client_fd EXCEPT ![i] = f]
    BY DEF TakeSeat
<1>4. Descriptors'
    BY <1>1, <1>2, <1>3
<1>5. f \notin Owned
    BY DEF OwnersAreExact
<1>6. (Owned \ {NoFd} = opened)'
  <2>1. ASSUME NEW g \in Owned' \ {NoFd} PROVE g \in opened'
    <3>1. CASE g = f
        BY <3>1, <1>2
    <3>2. CASE g # f /\ \E j \in Slot : g = client_fd'[j]
        BY <3>2, <2>1, <1>1, <1>2, <1>3 DEF OwnersAreExact, Owned
    <3>3. CASE g # f /\ \E k \in Exit : g = departing_fd'[k]
        BY <3>3, <2>1, <1>1, <1>2 DEF OwnersAreExact, Owned
    <3> QED BY <2>1, <3>1, <3>2, <3>3 DEF Owned
  <2>2. ASSUME NEW g \in opened' PROVE g \in Owned' \ {NoFd}
    <3>1. CASE g = f
        BY <3>1, <1>1, <1>3 DEF Owned
    <3>2. CASE g # f
      <4>1. g \in Owned /\ g # NoFd /\ g # client_fd[i]
          BY <3>2, <2>2, <1>2 DEF OwnersAreExact
      <4> QED BY <4>1, <1>1, <1>3 DEF Owned
    <3> QED BY <3>1, <3>2
  <2> QED BY <2>1, <2>2
<1>7. OwnersAreExact'
    BY <1>1, <1>3, <1>5, <1>6 DEF OwnersAreExact, Owned
<1> QED BY <1>4, <1>7

----------------------------------------------------------------------------
(* The actions                                                             *)

LEMMA InitFd == Init => FdInv
  BY DEF Init, FdInv, Descriptors, Recorded, OwnersAreExact, Owned

\* A client's turn.
LEMMA ClientTurnKeeps == FdInv /\ ClientTurn => FdInv'
<1> SUFFICES ASSUME FdInv, ClientTurn PROVE FdInv'
    OBVIOUS
<1>1. PICK ref \in clientRefs :
        /\ clientRefs' = clientRefs \ {ref}
        /\ \/ /\ client_fd[ref.slot] = ref.fd
              /\ ServeClient(ref.slot, ref)
           \/ /\ client_fd[ref.slot] # ref.fd
              /\ UNCHANGED <<clientVars, departingVars, kernelVars>>
    BY DEF ClientTurn
<1>2. Recorded'
    BY <1>1 DEF ClientTurn, FdInv, Recorded
<1> DEFINE i == ref.slot
<1>3. i \in Slot /\ ref.fd # NoFd
    BY DEF FdInv, Recorded
<1> HIDE DEF i
<1>4. CASE UNCHANGED <<clientVars, departingVars, kernelVars>>
    BY <1>2, <1>4 DEF FdInv, Descriptors, OwnersAreExact, Owned, clientVars,
                      departingVars, kernelVars
<1>5. CASE client_fd[i] = ref.fd /\ ServeClient(i, ref)
  <2>1. CASE Drop({i}) /\ UNCHANGED departingVars
      BY <1>2, <1>3, <2>1, DropKeeps DEF FdInv, departingVars
  <2>2. ASSUME NEW now, Vacate({i}, now), Close({client_fd[i]}), UNCHANGED departingVars
        PROVE  FdInv'
      BY <1>2, <1>3, <2>2, VacateKeeps DEF FdInv, departingVars
  <2>3. CASE \E n, c, now : Detach(i, c, n, now)
      BY <1>2, <1>3, <1>5, <2>3, DetachKeeps DEF FdInv
  <2>4. CASE UNCHANGED <<client_fd, departing_fd, opened>>
      BY <1>2, <2>4 DEF FdInv, Descriptors, OwnersAreExact, Owned
  <2> QED BY <1>5, <2>1, <2>2, <2>3, <2>4, Zenon DEF ServeClient, Consume, departingVars
<1> QED BY <1>1, <1>4, <1>5 DEF i

\* The turn of a departing connection.
LEMMA ExitTurnKeeps == FdInv /\ ExitTurn => FdInv'
<1> SUFFICES ASSUME FdInv, ExitTurn PROVE FdInv'
    OBVIOUS
<1>1. PICK ref \in exitRefs :
        /\ exitRefs' = exitRefs \ {ref}
        /\ \/ ServeExit(ref.exit, ref)
           \/ UNCHANGED <<departingVars, kernelVars>>
    BY DEF ExitTurn
<1>2. Recorded' /\ UNCHANGED client_fd
    BY <1>1 DEF ExitTurn, FdInv, Recorded, clientVars
<1> DEFINE k == ref.exit
<1>3. k \in Exit
    BY DEF FdInv, Recorded
<1> HIDE DEF k
<1>4. CASE UNCHANGED <<departing_fd, opened>>
    BY <1>2, <1>4 DEF FdInv, Descriptors, OwnersAreExact, Owned
<1>5. CASE Release({k})
    BY <1>2, <1>3, <1>5, ReleaseKeeps DEF FdInv
<1>6. Release({k}) \/ UNCHANGED <<departing_fd, opened>>
  <2>1. CASE UNCHANGED <<departingVars, kernelVars>>
      BY <2>1 DEF departingVars, kernelVars
  <2>2. CASE ServeExit(k, ref)
      BY <2>2 DEF ServeExit, Consume
  <2> QED BY <1>1, <2>1, <2>2 DEF k
<1> QED BY <1>4, <1>5, <1>6

\* accept.
LEMMA AcceptKeeps == FdInv /\ Accept => FdInv'
<1> SUFFICES ASSUME FdInv, Accept PROVE FdInv'
    OBVIOUS
<1>1. Recorded' /\ UNCHANGED departing_fd
    BY DEF Accept, FdInv, Recorded, departingVars
<1>2. CASE UNCHANGED <<clientVars, kernelVars>>
    BY <1>1, <1>2 DEF FdInv, Descriptors, OwnersAreExact, Owned, clientVars, kernelVars
<1>3. CASE \E f \in Fd \ opened, i \in AllocClientSlot(States) : TakeSeat(i, f)
    BY <1>1, <1>3, TakeSeatKeeps DEF FdInv
<1> QED BY <1>2, <1>3 DEF Accept

\* The timers.
LEMMA TimersKeep == FdInv /\ Timers => FdInv'
<1> SUFFICES ASSUME FdInv, Timers PROVE FdInv'
    OBVIOUS
<1>1. ExpiredSlots \in SUBSET Slot /\ FinishedExits \in SUBSET Exit
    BY DEF ExpiredSlots, FinishedExits
<1>2. Descriptors' /\ OwnersAreExact'
  <2>1. client_fd' = [i \in Slot |-> IF i \in ExpiredSlots THEN NoFd ELSE client_fd[i]]
      BY DEF Timers, Vacate
  <2>2. departing_fd' = [k \in Exit |-> IF k \in FinishedExits THEN NoFd ELSE departing_fd[k]]
      BY DEF Timers
  <2>3. opened' = opened \ ({client_fd[i] : i \in ExpiredSlots}
                            \cup {departing_fd[k] : k \in FinishedExits})
      BY DEF Timers, Close
  <2> HIDE DEF ExpiredSlots, FinishedExits
  <2> QED BY <1>1, <2>1, <2>2, <2>3, LettingGo DEF FdInv
<1>3. Recorded'
    BY DEF Timers, FdInv, Recorded
<1> QED BY <1>2, <1>3 DEF FdInv

\* poll.
LEMMA PollKeeps == FdInv /\ Poll => FdInv'
<1> SUFFICES ASSUME FdInv, Poll PROVE FdInv'
    OBVIOUS
<1>1. ExpiredSlots \in SUBSET Slot
    BY DEF ExpiredSlots
<1>2. Descriptors' /\ OwnersAreExact'
    BY <1>1, DropKeeps DEF Poll, FdInv, departingVars
<1>3. Recorded'
    BY DEF Poll, Recorded, Connected
<1> QED BY <1>2, <1>3 DEF FdInv

\* What the descriptors do not notice.
LEMMA RestKeeps ==
    FdInv /\ UNCHANGED <<client_fd, departing_fd, opened, clientRefs, exitRefs>> => FdInv'
  BY DEF FdInv, Descriptors, OwnersAreExact, Owned, Recorded

LEMMA StepFd == FdInv /\ [Next]_vars => FdInv'
<1> SUFFICES ASSUME FdInv, [Next]_vars PROVE FdInv'
    OBVIOUS
<1>1. CASE Pass
  <2>1. CASE Tick
      BY <2>1, RestKeeps DEF Tick, kernelVars
  <2> QED BY <1>1, <2>1, PollKeeps, ClientTurnKeeps, ExitTurnKeeps, AcceptKeeps,
             TimersKeep DEF Pass
<1>2. CASE \E f \in Fd, x \in InFrame : PeerSends(f, x)
    BY <1>2, RestKeeps DEF PeerSends, clientVars, departingVars, passVars
<1>3. CASE \E f \in Fd : PeerHangsUp(f)
    BY <1>3, RestKeeps DEF PeerHangsUp, clientVars, departingVars, passVars
<1>4. CASE UNCHANGED vars
    BY <1>4, RestKeeps DEF vars, clientVars, departingVars, kernelVars, passVars
<1> QED BY <1>1, <1>2, <1>3, <1>4 DEF Next

\* No descriptor is leaked, shared or closed twice, in rooms of every size:
\* reset_client_slot, detach_voluntary_client, reset_departing and
\* accept_room_client keep owners and open descriptors in step.
THEOREM OwnersCorrect == Spec => []OwnersAreExact
<1>1. FdInv => OwnersAreExact
    BY DEF FdInv
<1> QED BY InitFd, StepFd, <1>1, PTL DEF Spec

----------------------------------------------------------------------------
(* A seat between its owners                                               *)

\* A seat that nobody has is clear: what accept_room_client leaves alone was
\* cleared by whoever gave the seat up.
ClearInv ==
    /\ client = [i \in Slot |-> client[i]]
    /\ \A i \in Slot : ~Connected(i) => client[i] = FreshClient

\* What a new connection must not find.
Clear(c) == c.tx = 0 /\ ~c.failed /\ ~c.leaving

StartsClear(i) == client_fd'[i] \notin {NoFd, client_fd[i]} => Clear(client'[i])

SeatStep == ClearInv' /\ \A i \in Slot : StartsClear(i)

\* Giving seats up.
LEMMA VacateClear ==
    ASSUME ClearInv, NEW slots, NEW now, Vacate(slots, now),
           \A i \in Slot : ~Connected(i) => now[i] = client[i]
    PROVE  SeatStep
<1>1. ASSUME NEW i \in Slot PROVE (~Connected(i) => client[i] = FreshClient)'
  <2>1. CASE i \in slots
      BY <2>1 DEF Vacate, Cleared
  <2>2. CASE i \notin slots
    <3>1. client'[i] = now[i] /\ client_fd'[i] = client_fd[i]
        BY <2>2 DEF Vacate
    <3> QED BY <3>1 DEF ClearInv, Connected
  <2> QED BY <2>1, <2>2
<1>2. client' = [i \in Slot |-> client'[i]]
    BY Zenon DEF Vacate
<1>3. \A i \in Slot : StartsClear(i)
    BY DEF Vacate, StartsClear
<1> QED BY <1>1, <1>2, <1>3 DEF SeatStep, ClearInv

\* Nothing is sent to a seat that nobody has.
LEMMA NobodyIsTold ==
    ASSUME NEW rotation, NEW now \in Broadcast(rotation), NEW i \in Slot, ~Connected(i)
    PROVE  now[i] = client[i]
<1>1. now[i] \in Told(i, rotation)
    BY DEF Broadcast
<1>2. ~Human(i) /\ ~Pending(i)
    BY DEF Human, Pending
<1> QED BY <1>1, <1>2 DEF Told

\* Steps that move nobody in or out.
LEMMA StayClear ==
    ASSUME ClearInv, UNCHANGED client_fd, client' = [i \in Slot |-> client'[i]],
           \A i \in Slot : ~Connected(i) => client'[i] = client[i]
    PROVE  SeatStep
  BY DEF ClearInv, SeatStep, StartsClear, Connected

LEMMA InitClear == Init => ClearInv
  BY DEF Init, ClearInv

\* A turn of one client.
LEMMA ServeClear ==
    ASSUME ClearInv, NEW ref \in clientRefs, ref.slot \in Slot, ref.fd # NoFd,
           client_fd[ref.slot] = ref.fd,
           ServeClient(ref.slot, ref)
    PROVE  SeatStep
<1> DEFINE i == ref.slot
<1>1. Connected(i)
    BY DEF Connected
<1>2. CASE Drop({i})
    BY <1>2, VacateClear DEF Drop
<1>3. ASSUME NEW n \in Reads(ref), NEW now \in Overheard(i, n)
      PROVE  \A j \in Slot : ~Connected(j) => now[j] = client[j]
    BY NobodyIsTold DEF Overheard
<1>4. ASSUME NEW n \in Reads(ref), NEW now \in Overheard(i, n)
      PROVE  now = [j \in Slot |-> now[j]]
    BY DEF Overheard, Broadcast, ClearInv
<1>5. ASSUME NEW n \in Reads(ref), NEW now \in Overheard(i, n),
             Vacate({i}, now) \/ \E c : Detach(i, c, n, now)
      PROVE  SeatStep
  <2>1. Vacate({i}, now)
      BY <1>5 DEF Detach
  <2>2. \A j \in Slot : ~Connected(j) => now[j] = client[j]
      BY <1>3
  <2> QED BY <2>1, <2>2, VacateClear
<1>6. ASSUME NEW n \in Reads(ref), NEW now \in Overheard(i, n), NEW d,
             client' = [now EXCEPT ![i] = d], UNCHANGED client_fd
      PROVE  SeatStep
  <2>1. client' = [j \in Slot |-> client'[j]]
      BY <1>4, <1>6
  <2>2. \A j \in Slot : ~Connected(j) => client'[j] = client[j]
      BY <1>1, <1>3, <1>4, <1>6
  <2> QED BY <1>6, <2>1, <2>2, StayClear
<1> QED BY <1>2, <1>5, <1>6, Zenon DEF ServeClient

\* accept gives out a seat that is free, or clears the one it takes.
LEMMA TakeSeatClear ==
    ASSUME FdInv, ClearInv, NEW f \in Fd, NEW i \in AllocClientSlot(States),
           TakeSeat(i, f)
    PROVE  SeatStep
<1>1. i \in Slot /\ ~Human(i)
    BY AllocIsNotHuman
<1> DEFINE c == IF Pending(i) THEN Cleared(client[i]) ELSE client[i]
<1>2. c = FreshClient
    BY <1>1 DEF ClearInv, Cleared, Human, Pending
<1> HIDE DEF c
<1> DEFINE d == [c EXCEPT !.hello = FALSE, !.age = 0]
<1>3. Clear(d)
    BY <1>2 DEF FreshClient, Clear
<1>4. client' = [client EXCEPT ![i] = d] /\ client_fd' = [client_fd EXCEPT ![i] = f]
    BY DEF TakeSeat, c
<1> HIDE DEF d
<1>5. client' = [j \in Slot |-> client'[j]]
    BY <1>1, <1>4 DEF ClearInv
<1>6. ASSUME NEW j \in Slot
      PROVE  (~Connected(j) => client[j] = FreshClient)' /\ StartsClear(j)
  <2>1. CASE j = i
    <3>1. client'[j] = d /\ Connected(j)'
        BY <1>1, <1>4, <2>1 DEF ClearInv, FdInv, Descriptors, Connected
    <3> QED BY <1>3, <3>1 DEF StartsClear
  <2>2. CASE j # i
    <3>1. client'[j] = client[j] /\ client_fd'[j] = client_fd[j]
        BY <1>4, <2>2
    <3> QED BY <3>1 DEF ClearInv, Connected, StartsClear
  <2> QED BY <2>1, <2>2
<1> QED BY <1>5, <1>6 DEF SeatStep, ClearInv

LEMMA TickClear == ClearInv /\ Tick => SeatStep
<1> SUFFICES ASSUME ClearInv, Tick PROVE SeatStep
    OBVIOUS
<1>1. /\ client' = [i \in Slot |-> client'[i]]
      /\ \A i \in Slot : ~Connected(i) => client'[i] = client[i]
    BY DEF Tick
<1> QED BY <1>1, StayClear DEF Tick

\* What the seats do not notice.
LEMMA RestClear == ClearInv /\ UNCHANGED clientVars => SeatStep
  BY DEF ClearInv, SeatStep, StartsClear, clientVars, Connected

LEMMA StepClear == FdInv /\ ClearInv /\ [Next]_vars => SeatStep
<1> SUFFICES ASSUME FdInv, ClearInv, [Next]_vars PROVE SeatStep
    OBVIOUS
<1>1. CASE ClientTurn
  <2>1. PICK ref \in clientRefs :
          \/ client_fd[ref.slot] = ref.fd /\ ServeClient(ref.slot, ref)
          \/ UNCHANGED clientVars
      BY <1>1 DEF ClientTurn
  <2>2. ref.slot \in Slot /\ ref.fd # NoFd
      BY DEF FdInv, Recorded
  <2> QED BY <2>1, <2>2, ServeClear, RestClear
<1>2. CASE Accept
    BY <1>2, TakeSeatClear, RestClear DEF Accept
<1>3. CASE Poll
    BY <1>3, VacateClear DEF Poll, Drop
<1>4. CASE Timers
    BY <1>4, VacateClear, NobodyIsTold DEF Timers
<1>5. CASE Tick
    BY <1>5, TickClear
<1>6. CASE ExitTurn
    BY <1>6, RestClear DEF ExitTurn
<1>7. CASE \E f \in Fd : PeerHangsUp(f) \/ \E x \in InFrame : PeerSends(f, x)
    BY <1>7, RestClear DEF PeerSends, PeerHangsUp
<1>8. CASE UNCHANGED vars
    BY <1>8, RestClear DEF vars
<1> QED BY <1>1, <1>2, <1>3, <1>4, <1>5, <1>6, <1>7, <1>8 DEF Next, Pass

\* A new connection starts without a frame, a failure or a leave of the one
\* before it: init_client_slot leaves all three alone because whoever lost the
\* seat was cleared (reset_client_slot, detach_voluntary_client), whatever was
\* sent to it, with or without HELLO.
THEOREM NewSeatCorrect == Spec => NewSeatIsClean
<1>1. SeatStep => ClearInv' /\ \A i \in Slot :
          client_fd'[i] \notin {NoFd, client_fd[i]} =>
              client'[i].tx = 0 /\ ~client'[i].failed /\ ~client'[i].leaving
    BY DEF SeatStep, StartsClear, Clear
<1>2. FdInv /\ ClearInv /\ [Next]_vars =>
        /\ ClearInv'
        /\ [\A i \in Slot :
               client_fd'[i] \notin {NoFd, client_fd[i]} =>
                   client'[i].tx = 0 /\ ~client'[i].failed /\ ~client'[i].leaving]_vars
    BY <1>1, StepClear
<1> QED BY InitFd, StepFd, InitClear, <1>2, PTL DEF Spec, NewSeatIsClean
=============================================================================
