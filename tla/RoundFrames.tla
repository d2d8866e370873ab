---------------------------- MODULE RoundFrames ----------------------------
(***************************************************************************)
(* The frames a server sends to one client about the round it plays, as    *)
(* far as they decide what the client may do: which round, which bricks,   *)
(* whether the client's own actor is shown.  Scores, names, positions and  *)
(* sequence bytes are left out.                                            *)
(***************************************************************************)
EXTENDS Integers

CONSTANTS
    RoundMod,   \* round ids are bytes: 256 in the code
    Brick       \* the bricks of the layout

ASSUME FramesAssumption ==
    /\ RoundMod \in Nat
    /\ RoundMod >= 4

RoundId == 0 .. RoundMod - 1
Phase == {"playing", "over"}

NextRound(r) == IF r = RoundMod - 1 THEN 0 ELSE r + 1

\* round_is_newer: ahead by less than half the circle.
IsNewer(a, b) ==
    LET distance == IF a >= b THEN a - b ELSE a - b + RoundMod
    IN  distance # 0 /\ distance < RoundMod \div 2

WelcomeFrame(r, ph) == [kind |-> "welcome", round |-> r, phase |-> ph]

RoundStart(r) == [kind |-> "round_start", round |-> r]

MatchEnd(r) == [kind |-> "match_end", round |-> r]

BrickFull(r, m) == [kind |-> "brick_full", round |-> r, maze |-> m]

BrickDelta(r, b) == [kind |-> "brick_delta", round |-> r, brick |-> b]

\* flags 0x03 with the new cell, or 0x01 for an actor that waits for one.
Respawn(r, up) == [kind |-> "respawn", round |-> r, final |-> up]

NameFrame == [kind |-> "name"]

Snapshot(r) == [kind |-> "snapshot", round |-> r]

\* RELIABLE_EVENT around an inner frame.
Event(f) == [kind |-> "event", inner |-> f]

Inner ==
    {RoundStart(r) : r \in RoundId} \cup {MatchEnd(r) : r \in RoundId}
    \cup {BrickFull(r, m) : r \in RoundId, m \in SUBSET Brick}
    \cup {BrickDelta(r, b) : r \in RoundId, b \in Brick}
    \cup {Respawn(r, up) : r \in RoundId, up \in BOOLEAN}
    \cup {NameFrame}

Frame ==
    Inner \cup {Snapshot(r) : r \in RoundId}
    \cup {WelcomeFrame(r, ph) : r \in RoundId, ph \in Phase}
    \cup {Event(f) : f \in Inner}
=============================================================================
