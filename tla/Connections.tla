---------------------------- MODULE Connections ----------------------------
(***************************************************************************)
(* The descriptors of one room, pass by pass of the server loop: which     *)
(* seat or departing connection owns which, what poll reported for it, and *)
(* who closes it.  A pass polls, serves the clients, then the departing    *)
(* connections, accepts at most one peer, runs the timers and the tick.    *)
(* Peers send, hang up and read at any moment in between.                  *)
(*                                                                         *)
(* A frame is one unit here, TcpStream has its bytes; what a frame does to *)
(* the game is MazeRoom's.  Time is counted in passes.  The kernel may     *)
(* give a descriptor again as soon as it is closed.                        *)
(***************************************************************************)
EXTENDS Seats, Sequences

CONSTANTS
    Fd,            \* descriptors the kernel hands out
    NoFd,          \* -1 in the code
    MaxDeparting,  \* MAX_DEPARTING: 4 in the code
    TxCap,         \* frames a transmit buffer holds
    InMax,         \* bound: frames a peer has under way
    HandshakeAge,  \* CLIENT_HANDSHAKE_MS
    SessionAge,    \* CLIENT_TIMEOUT_MS
    DrainAge       \* LEAVE_DRAIN_MS

ASSUME ConnectionsAssumption ==
    /\ NoFd \notin Fd
    /\ MaxDeparting \in Nat
    /\ TxCap \in Nat \ {0}
    /\ InMax \in Nat \ {0}
    /\ HandshakeAge \in Nat \ {0}
    /\ SessionAge \in Nat \ {0}
    /\ DrainAge \in Nat \ {0}

\* Entries of the departing table.
Exit == 1 .. MaxDeparting

InFrame == {"hello", "wrong_hello", "leave", "other"}

\* client_slot and departing_connection without their descriptor.
Client == [hello : BOOLEAN, age : Nat, tx : 0 .. TxCap, failed : BOOLEAN,
           leaving : BOOLEAN]
Departing == [age : Nat, tx : 0 .. TxCap, failed : BOOLEAN]

FreshClient == [hello |-> FALSE, age |-> 0, tx |-> 0, failed |-> FALSE,
                leaving |-> FALSE]
FreshDeparting == [age |-> 0, tx |-> 0, failed |-> FALSE]

\* poll_ref: the entry, the descriptor it had, and POLLIN or POLLHUP.
ClientRef == [slot : Slot, fd : Fd, readable : BOOLEAN]
ExitRef == [exit : Exit, fd : Fd, readable : BOOLEAN]

VARIABLES
    client_fd,     \* clients: who sits where
    client,        \* clients: the rest of a slot
    departing_fd,  \* departing: who leaves
    departing,     \* departing: the rest of an entry
    opened,        \* the descriptors that are open
    inbox,         \* frames on the way from the peer of a descriptor
    hung_up,       \* descriptors whose peer closed or broke the connection
    phase,         \* where the pass is
    clientRefs,    \* clients with events that are still to be served
    exitRefs       \* departing connections with events still to be served

clientVars == <<client_fd, client>>
departingVars == <<departing_fd, departing>>
kernelVars == <<opened, inbox, hung_up>>
passVars == <<phase, clientRefs, exitRefs>>
vars == <<clientVars, departingVars, kernelVars, passVars>>

TypeOK ==
    /\ client_fd \in [Slot -> Fd \cup {NoFd}]
    /\ client \in [Slot -> Client]
    /\ departing_fd \in [Exit -> Fd \cup {NoFd}]
    /\ departing \in [Exit -> Departing]
    /\ opened \subseteq Fd
    /\ inbox \in [Fd -> Seq(InFrame)]
    /\ hung_up \subseteq opened
    /\ phase \in {"poll", "serve", "timers", "tick"}
    /\ clientRefs \subseteq ClientRef
    /\ exitRefs \subseteq ExitRef

Init ==
    /\ client_fd = [i \in Slot |-> NoFd]
    /\ client = [i \in Slot |-> FreshClient]
    /\ departing_fd = [k \in Exit |-> NoFd]
    /\ departing = [k \in Exit |-> FreshDeparting]
    /\ opened = {}
    /\ inbox = [f \in Fd |-> <<>>]
    /\ hung_up = {}
    /\ phase = "poll"
    /\ clientRefs = {}
    /\ exitRefs = {}

----------------------------------------------------------------------------
(* Sending, receiving and closing                                          *)

\* send_frame: the socket takes what it likes of the frames so far; a full
\* buffer or an error ends the stream.
Sending(c) ==
    IF c.failed THEN {c}
    ELSE {[c EXCEPT !.tx = n] : n \in {m \in 0 .. TxCap : m <= c.tx + 1}}
         \cup {[c EXCEPT !.failed = TRUE]}

\* Several frames one after the other, whatever their number: the echoes and
\* the snapshot of a tick, the resends, events and the map of the timers, what
\* a HELLO or another packet is answered with.
Burst(c) ==
    IF c.failed THEN {c}
    ELSE {[c EXCEPT !.tx = n] : n \in 0 .. TxCap} \cup {[c EXCEPT !.failed = TRUE]}

\* POLLOUT and tcp_tx_flush, or no room in the socket yet.
Flushing(c) ==
    IF c.failed THEN {c}
    ELSE {[c EXCEPT !.tx = n] : n \in 0 .. c.tx} \cup {[c EXCEPT !.failed = TRUE]}

\* handle_client_packet, as far as the connection goes.
Handled(c, f) ==
    CASE ~c.hello /\ f = "hello" ->
           {[d EXCEPT !.hello = TRUE] : d \in Burst(c)}
      [] ~c.hello /\ f = "wrong_hello" ->
           {[d EXCEPT !.failed = TRUE] : d \in Sending(c)}
      [] c.hello /\ f = "leave" ->
           {[d EXCEPT !.leaving = TRUE] : d \in Sending(c)}
      [] c.hello /\ f = "other" /\ ~c.leaving -> Burst(c)
      [] OTHER -> {c}

\* process_departing_bytes: a repeated LEAVE_ROOM is acknowledged again.
Answered(c, f) == IF f = "leave" THEN Sending(c) ELSE {c}

\* process_client_bytes: what a client can be after the first n frames of f's
\* peer.
ClientServed(c, f, n) ==
    LET after[k \in 0 .. n] ==
            IF k = 0 THEN {c}
            ELSE UNION {Handled(d, inbox[f][k]) : d \in after[k - 1]}
    IN  after[n]

\* The same of process_departing_bytes.
ExitServed(c, f, n) ==
    LET after[k \in 0 .. n] ==
            IF k = 0 THEN {c}
            ELSE UNION {Answered(d, inbox[f][k]) : d \in after[k - 1]}
    IN  after[n]

HasInput(f) == inbox[f] # <<>> \/ f \in hung_up

\* recv: some of what has arrived, if poll reported anything.
Reads(ref) == IF ref.readable THEN 1 .. Len(inbox[ref.fd]) ELSE {0}

Consume(f, n) ==
    /\ inbox' = [inbox EXCEPT ![f] = SubSeq(@, n + 1, Len(@))]
    /\ UNCHANGED <<opened, hung_up>>

Close(fds) ==
    /\ opened' = opened \ fds
    /\ hung_up' = hung_up \ fds
    /\ inbox' = [f \in Fd |-> IF f \in fds THEN <<>> ELSE inbox[f]]

\* The slip of keeping the buffer with the slot.
Cleared_Buffer(c) == [FreshClient EXCEPT !.tx = c.tx]

\* The memset of reset_client_slot and of detach_voluntary_client.
Cleared(c) == FreshClient

\* These seats become free; the clients of the others are as now says.
Vacate(slots, now) ==
    /\ client_fd' = [i \in Slot |-> IF i \in slots THEN NoFd ELSE client_fd[i]]
    /\ client' = [i \in Slot |-> IF i \in slots THEN Cleared(client[i]) ELSE now[i]]

Connected(i) == client_fd[i] # NoFd
Pending(i) == Connected(i) /\ ~client[i].hello
Human(i) == Connected(i) /\ client[i].hello

\* What is sent to everybody goes to the humans (broadcast_packet), but for the
\* rotating NAME, one frame, which goes to the pending ones too
\* (broadcast_next_name).
Told(i, rotation) ==
    CASE Human(i) -> Burst(client[i])
      [] Pending(i) /\ rotation -> Sending(client[i])
      [] OTHER -> {client[i]}

\* All that the clients can be after that.
Broadcast(rotation) ==
    {now \in [Slot -> UNION {Told(i, rotation) : i \in Slot}] :
        \A i \in Slot : now[i] \in Told(i, rotation)}

----------------------------------------------------------------------------
(* The clients                                                             *)

\* drop_client, for these slots.
Drop(slots) ==
    /\ Vacate(slots, client)
    /\ Close({client_fd[i] : i \in slots})

FreeExits == {k \in Exit : departing_fd[k] = NoFd}

\* The slip of a full table that forgets the descriptor.
Homeless_Forgotten(f) == {}

\* The descriptor of a leaver, when the table has no entry for it.
Homeless(f) == IF FreeExits = {} THEN {f} ELSE {}

\* detach_voluntary_client: the seat is free at once, the acknowledgement
\* drains elsewhere.
Detach(i, c, n, now) ==
    LET f == client_fd[i]
    IN  /\ Vacate({i}, now)
        /\ IF FreeExits = {} THEN UNCHANGED departingVars
           ELSE /\ departing_fd' = [departing_fd EXCEPT ![Min(FreeExits)] = f]
                /\ departing' = [departing EXCEPT ![Min(FreeExits)] =
                                    [age |-> 0, tx |-> c.tx, failed |-> c.failed]]
        /\ IF Homeless(f) = {} THEN Consume(f, n) ELSE Close(Homeless(f))

\* The slip of letting any byte prolong a connection without HELLO.
Seen_Always(c, n) == [c EXCEPT !.age = IF n > 0 THEN 0 ELSE c.age]

\* last_seen_ms counts after HELLO, connected_ms before.
Seen(c, n) == [c EXCEPT !.age = IF n > 0 /\ c.hello THEN 0 ELSE c.age]

\* Its packets make the server tell the other humans (a name, a respawn, a
\* brick).
Overheard(i, n) ==
    IF n = 0 THEN {client} ELSE {now \in Broadcast(FALSE) : now[i] = client[i]}

\* One turn of the loop over the clients' poll_refs.
ServeClient(i, ref) ==
    \/ /\ ref.fd \in hung_up
       /\ Drop({i})
       /\ UNCHANGED departingVars
    \/ \E n \in Reads(ref) :
        \E c \in ClientServed(client[i], ref.fd, n), now \in Overheard(i, n) :
            \/ /\ c.leaving
               /\ Detach(i, c, n, now)
            \/ /\ ~c.leaving
               /\ \E d \in Flushing(c) :
                    \/ /\ d.failed
                       /\ Vacate({i}, now)
                       /\ Close({client_fd[i]})
                    \/ /\ ~d.failed
                       /\ client' = [now EXCEPT ![i] = Seen(d, n)]
                       /\ Consume(ref.fd, n)
                       /\ UNCHANGED client_fd
               /\ UNCHANGED departingVars

\* The recorded descriptor must still be the client's.
ClientTurn ==
    /\ phase = "serve"
    /\ \E ref \in clientRefs :
        /\ \A other \in clientRefs : ref.slot <= other.slot
        /\ clientRefs' = clientRefs \ {ref}
        /\ \/ /\ client_fd[ref.slot] = ref.fd
              /\ ServeClient(ref.slot, ref)
           \/ /\ client_fd[ref.slot] # ref.fd
              /\ UNCHANGED <<clientVars, departingVars, kernelVars>>
    /\ UNCHANGED <<phase, exitRefs>>

----------------------------------------------------------------------------
(* The departing connections                                               *)

\* reset_departing, for these entries.
Release(exits) ==
    /\ departing_fd' = [k \in Exit |-> IF k \in exits THEN NoFd ELSE departing_fd[k]]
    /\ departing' = [k \in Exit |-> IF k \in exits THEN FreshDeparting ELSE departing[k]]
    /\ Close({departing_fd[k] : k \in exits})

\* The slip of giving a connection that repeats itself more time.
Answering_Again(c, n) == [c EXCEPT !.age = IF n > 0 THEN 0 ELSE c.age]

\* What it receives does not move deadline_ms.
Answering(c, n) == c

ServeExit(k, ref) ==
    \/ /\ ref.fd \in hung_up
       /\ Release({k})
    \/ \E n \in Reads(ref) : \E c \in ExitServed(departing[k], ref.fd, n) :
        \E d \in Flushing(c) :
            \/ /\ d.failed \/ d.tx = 0
               /\ Release({k})
            \/ /\ ~d.failed
               /\ d.tx # 0
               /\ departing' = [departing EXCEPT ![k] = Answering(d, n)]
               /\ Consume(ref.fd, n)
               /\ UNCHANGED departing_fd

\* The loop over the departing connections' poll_refs.
ExitTurn ==
    /\ phase = "serve"
    /\ clientRefs = {}
    /\ \E ref \in exitRefs :
        /\ \A other \in exitRefs : ref.exit <= other.exit
        /\ exitRefs' = exitRefs \ {ref}
        /\ \/ /\ departing_fd[ref.exit] = ref.fd
              /\ ServeExit(ref.exit, ref)
           \/ /\ departing_fd[ref.exit] # ref.fd
              /\ UNCHANGED <<departingVars, kernelVars>>
    /\ UNCHANGED <<clientVars, phase, clientRefs>>

----------------------------------------------------------------------------
(* accept, the timers and poll                                             *)

States ==
    [i \in Slot |-> CASE Human(i) -> "human" [] Pending(i) -> "pending" [] OTHER -> "free"]

\* The descriptor of a connection that must make room for a newer one.
Replaced(i) == IF Pending(i) THEN {client_fd[i]} ELSE {}

\* accept_room_client.  init_client_slot sets neither tx nor leave_requested.
TakeSeat(i, f) ==
    LET c == IF Pending(i) THEN Cleared(client[i]) ELSE client[i]
    IN  /\ client_fd' = [client_fd EXCEPT ![i] = f]
        /\ client' = [client EXCEPT ![i] = [c EXCEPT !.hello = FALSE, !.age = 0]]
        /\ opened' = (opened \ Replaced(i)) \cup {f}
        /\ hung_up' = hung_up \ Replaced(i)
        /\ inbox' = [g \in Fd |-> IF g \in Replaced(i) THEN <<>> ELSE inbox[g]]

\* Nobody waits, or the peer that does is accepted: without a seat for it the
\* new descriptor is closed again at once.
Accept ==
    /\ phase = "serve"
    /\ clientRefs = {}
    /\ exitRefs = {}
    /\ phase' = "timers"
    /\ \/ UNCHANGED <<clientVars, kernelVars>>
       \/ \E f \in Fd \ opened, i \in AllocClientSlot(States) : TakeSeat(i, f)
    /\ UNCHANGED <<departingVars, clientRefs, exitRefs>>

\* reap_timed_out_clients.
ExpiredSlots ==
    {i \in Slot :
        \/ Connected(i) /\ client[i].failed
        \/ Pending(i) /\ client[i].age >= HandshakeAge
        \/ Human(i) /\ client[i].age >= SessionAge}

\* reap_departing_connections.
FinishedExits ==
    {k \in Exit :
        /\ departing_fd[k] # NoFd
        /\ \/ departing[k].failed
           \/ departing[k].tx = 0
           \/ departing[k].age >= DrainAge}

\* service_room_timers: both tables are reaped, then those who are left are sent
\* what is due of the round change, the name rotation, the resends, the map and
\* the seat mask, which may be nothing.
Timers ==
    /\ phase = "timers"
    /\ phase' = "tick"
    /\ \E now \in Broadcast(TRUE) : Vacate(ExpiredSlots, now)
    /\ departing_fd' = [k \in Exit |-> IF k \in FinishedExits THEN NoFd ELSE departing_fd[k]]
    /\ departing' = [k \in Exit |->
                       IF k \in FinishedExits THEN FreshDeparting ELSE departing[k]]
    /\ Close({client_fd[i] : i \in ExpiredSlots}
             \cup {departing_fd[k] : k \in FinishedExits})
    /\ UNCHANGED <<clientRefs, exitRefs>>

\* tick_room sends the humans echoes, what the actors did and a snapshot, if it
\* is due; what is connected grows older.
Tick ==
    /\ phase = "tick"
    /\ phase' = "poll"
    /\ \E now \in Broadcast(FALSE) :
        client' = [i \in Slot |->
                     IF Connected(i) THEN [now[i] EXCEPT !.age = @ + 1] ELSE client[i]]
    /\ departing' = [k \in Exit |->
                       IF departing_fd[k] = NoFd THEN departing[k]
                       ELSE [departing[k] EXCEPT !.age = @ + 1]]
    /\ UNCHANGED <<client_fd, departing_fd, kernelVars, clientRefs, exitRefs>>

\* The head of the loop: reap_timed_out_clients and poll.
Poll ==
    /\ phase = "poll"
    /\ phase' = "serve"
    /\ Drop(ExpiredSlots)
    /\ clientRefs' =
        {[slot |-> i, fd |-> client_fd[i], readable |-> HasInput(client_fd[i])] :
            i \in {j \in Slot \ ExpiredSlots :
                     /\ Connected(j)
                     /\ HasInput(client_fd[j]) \/ client[j].tx > 0}}
    /\ exitRefs' =
        {[exit |-> k, fd |-> departing_fd[k], readable |-> HasInput(departing_fd[k])] :
            k \in {j \in Exit :
                     /\ departing_fd[j] # NoFd
                     /\ HasInput(departing_fd[j]) \/ departing[j].tx > 0}}
    /\ UNCHANGED departingVars

----------------------------------------------------------------------------
(* The peers                                                               *)

PeerSends(f, x) ==
    /\ f \in opened \ hung_up
    /\ Len(inbox[f]) < InMax
    /\ inbox' = [inbox EXCEPT ![f] = Append(@, x)]
    /\ UNCHANGED <<clientVars, departingVars, opened, hung_up, passVars>>

PeerHangsUp(f) ==
    /\ f \in opened
    /\ hung_up' = hung_up \cup {f}
    /\ UNCHANGED <<clientVars, departingVars, opened, inbox, passVars>>

Pass == Poll \/ ClientTurn \/ ExitTurn \/ Accept \/ Timers \/ Tick

Next ==
    \/ Pass
    \/ \E f \in Fd, x \in InFrame : PeerSends(f, x)
    \/ \E f \in Fd : PeerHangsUp(f)

Spec == Init /\ [][Next]_vars

\* The loop runs; peers owe nothing.
FairSpec == Spec /\ WF_vars(Pass)

----------------------------------------------------------------------------
(* Properties                                                              *)

Owned == {client_fd[i] : i \in Slot} \cup {departing_fd[k] : k \in Exit}

\* Every open descriptor has one owner and every owner an open descriptor:
\* whichever end a connection comes to (EOF, error, timeout, leave, full table,
\* replacement), it is closed, once, and never after its number may be in use
\* again.
OwnersAreExact ==
    /\ Owned \ {NoFd} = opened
    /\ \A i, j \in Slot :
        i # j /\ client_fd[i] = client_fd[j] => client_fd[i] = NoFd
    /\ \A k, l \in Exit :
        k # l /\ departing_fd[k] = departing_fd[l] => departing_fd[k] = NoFd
    /\ \A i \in Slot, k \in Exit :
        client_fd[i] = departing_fd[k] => client_fd[i] = NoFd

\* A new connection starts with no frame, no failure and no leave of the one
\* before it on its seat, though accept_room_client (init_client_slot) clears
\* none of the three: every way a seat is lost must have done so, whatever the
\* name rotation had still put there for a connection that never said HELLO.
NewSeatIsClean ==
    [][\A i \in Slot :
           client_fd'[i] \notin {NoFd, client_fd[i]} =>
               client'[i].tx = 0 /\ ~client'[i].failed /\ ~client'[i].leaving]_vars

\* A connection without HELLO does not keep its seat, whatever it sends.
PendingIsSettled ==
    \A i \in Slot, f \in Fd :
        Pending(i) /\ client_fd[i] = f ~> (Human(i) \/ client_fd[i] # f)

\* A connection that left is closed, though its peer neither reads nor closes
\* and asks again and again.
LeaverIsReleased ==
    \A k \in Exit, f \in Fd : departing_fd[k] = f ~> departing_fd[k] # f
=============================================================================
