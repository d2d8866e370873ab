------------------------------- MODULE Board -------------------------------
(***************************************************************************)
(* The maze grid: bricks, straight steps and lanes, and the placement rule *)
(* every spawn uses.  A cell is a pair <<x, y>>.  The set of bricks still  *)
(* standing is a parameter of each operator: it is state of the room.      *)
(***************************************************************************)
EXTENDS Integers, FiniteSets

CONSTANTS
    Width, Height,       \* 20 and 19 in the code
    Layout,              \* the bricks a round starts with, the rim included
    SPAWN_MIN_DISTANCE   \* preferred Manhattan distance to the nearest actor

Cell == (0 .. Width - 1) \X (0 .. Height - 1)
Dir == {"right", "down", "left", "up"}

ASSUME BoardAssumption ==
    /\ Width \in Nat \ {0}
    /\ Height \in Nat \ {0}
    /\ Layout \subseteq Cell
    /\ SPAWN_MIN_DISTANCE \in Nat

\* One cell further in direction d; it may lie outside the grid.
Ahead(c, d) ==
    CASE d = "right" -> <<c[1] + 1, c[2]>>
      [] d = "down"  -> <<c[1], c[2] + 1>>
      [] d = "left"  -> <<c[1] - 1, c[2]>>
      [] d = "up"    -> <<c[1], c[2] - 1>>

\* is_brick: everything outside the grid counts as brick.
IsBrick(bricks, c) == c \notin Cell \/ c \in bricks

OuterWall == {c \in Cell : c[1] \in {0, Width - 1} \/ c[2] \in {0, Height - 1}}

\* What one hit on cell c leaves standing: the rim cannot be shot away.
Broken(bricks, c) == IF c \in OuterWall THEN bricks ELSE bricks \ {c}

Magnitude(n) == IF n < 0 THEN -n ELSE n

Distance(a, b) == Magnitude(a[1] - b[1]) + Magnitude(a[2] - b[2])

\* Row-major order, the order pick_spawn's fallback scan visits cells in.
ScanIndex(c) == c[2] * Width + c[1]

\* Cells strictly between a and b when they share a row or a column.
Between(a, b) ==
    {c \in Cell : /\ Distance(a, c) + Distance(c, b) = Distance(a, b)
                  /\ c # a /\ c # b}

\* The shooter at a has an unbroken straight lane to b, along direction d.
\* Equal cells count as one row, and a shot at one's own cell goes left.
LaneTo(bricks, a, b, d) ==
    /\ Between(a, b) \cap bricks = {}
    /\ IF a[2] = b[2]
       THEN d = IF b[1] > a[1] THEN "right" ELSE "left"
       ELSE a[1] = b[1] /\ d = IF b[2] > a[2] THEN "down" ELSE "up"

----------------------------------------------------------------------------
(* pick_spawn.  actors is the set of cells held by actors on the board.    *)

FreeCells(bricks, actors) == Cell \ (bricks \cup actors)

FarFrom(c, actors, n) == \A a \in actors : Distance(c, a) >= n

\* c is the first cell of the scan that is as far as possible from everyone.
BestFallback(c, free, actors) ==
    \A o \in free :
        LET near(e) == {Distance(e, a) : a \in actors}
            nearest(e) == CHOOSE n \in near(e) : \A m \in near(e) : n <= m
        IN  \/ nearest(o) < nearest(c)
            \/ nearest(o) = nearest(c) /\ ScanIndex(c) <= ScanIndex(o)

\* The cells a spawn may take: any free cell far enough from every actor or,
\* when there is none, the free cell farthest from its nearest actor.  (The
\* code draws 200 random cells and then scans; while a far cell exists the
\* scan can only return a far cell too.)
SpawnCells(bricks, actors) ==
    LET free == FreeCells(bricks, actors)
        far == {c \in free : FarFrom(c, actors, SPAWN_MIN_DISTANCE)}
    IN  IF far # {} THEN far
        ELSE {c \in free : BestFallback(c, free, actors)}

\* place gives the slots of due their cells one after the other in slot
\* order; a slot placed earlier counts as an actor if it is in visible.
LegalPlacement(place, due, visible, actors, bricks) ==
    \A i \in due :
        place[i] \in SpawnCells(bricks,
            actors \cup {place[j] : j \in {k \in due \cap visible : k < i}})
============================================================================
