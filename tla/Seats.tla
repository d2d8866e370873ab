------------------------------- MODULE Seats -------------------------------
(***************************************************************************)
(* Who may sit where in one room.  A room has MAX_PLAYERS seats.  A TCP    *)
(* connection on a seat is "pending" until its HELLO arrives and "human"   *)
(* afterwards; a "free" seat has no connection.  The server keeps no list  *)
(* of its zombies: it recomputes, wherever it needs one, the mask of the   *)
(* seats the AI drives from the connections alone.                         *)
(***************************************************************************)
EXTENDS Integers, FiniteSets, FiniteSetsExt

CONSTANTS
    MAX_PLAYERS,  \* seats of a room (4 in the code)
    Zombies       \* --zombies: seats the AI fills while no human holds them

Slot == 0 .. MAX_PLAYERS - 1

Connection == {"free", "pending", "human"}

ASSUME SeatAssumption ==
    /\ MAX_PLAYERS \in Nat \ {0}
    /\ Zombies \in 0 .. MAX_PLAYERS - 1

\* The seats of connections that completed HELLO.
Humans(conn) == {i \in Slot : conn[i] = "human"}

\* compute_zombie_mask: the first Zombies seats above seat 0 with no human.
ZombieMask(conn) ==
    {i \in Slot \ {0} :
        /\ conn[i] # "human"
        /\ Cardinality({j \in 1 .. i - 1 : conn[j] # "human"}) < Zombies}

\* The seats an actor plays from: step_players' occupied_mask.
Seated(conn) == Humans(conn) \cup ZombieMask(conn)

\* alloc_client_slot: a free human seat, else a human seat whose holder has
\* not said HELLO yet, else any free seat (a zombie's); empty when full.
AllocClientSlot(conn) ==
    LET humanSeats == Slot \ ZombieMask(conn)
        free == {i \in humanSeats : conn[i] = "free"}
        replaceable == {i \in humanSeats : conn[i] = "pending"}
        anyFree == {i \in Slot : conn[i] = "free"}
    IN  CASE free # {} -> {Min(free)}
          [] free = {} /\ replaceable # {} -> {Min(replaceable)}
          [] OTHER -> IF anyFree = {} THEN {} ELSE {Min(anyFree)}
============================================================================
