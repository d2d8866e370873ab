----------------------------- MODULE VbiHandoff -----------------------------
(***************************************************************************)
(* The state that the Atari client's main line and its vertical blank      *)
(* interrupt share: the snapshot staged by one and committed by the other, *)
(* and the ring of unacknowledged inputs, which the main line fills and    *)
(* the interrupt empties.  The interrupt is an NMI: it comes between any   *)
(* two instructions and runs to its end.                                   *)
(*                                                                         *)
(* One step of the main line is one access to shared memory.  Numbers of   *)
(* inputs and snapshots are unwrapped: InputQueue is about their bytes.    *)
(***************************************************************************)
EXTENDS Integers

CONSTANTS
    RingSize,   \* 8 in the code
    StageMod,   \* NET_STAGE_SEQ is a byte: 256 in the code
    MaxInputs,  \* bound: inputs pushed
    MaxSnaps    \* bound: snapshots staged

ASSUME HandoffAssumption ==
    /\ RingSize \in Nat \ {0}
    /\ StageMod \in Nat \ {0} /\ StageMod % 2 = 0
    /\ MaxInputs \in Nat
    /\ MaxSnaps \in Nat

Number == 0 .. MaxInputs
Snap == 0 .. MaxSnaps
Index == 0 .. RingSize - 1

VARIABLES
    pc,         \* the next shared access of the main line
    reg,        \* the register it carries between two of them
    n,          \* number of the newest input
    snap,       \* number of the newest snapshot received
    ack,        \* the input it acknowledges
    slots,      \* NET_PEND_SEQ
    head,       \* NET_PEND_HEAD; RingSize between INC and AND
    count,      \* NET_PEND_COUNT
    stage_seq,  \* NET_STAGE_SEQ: odd while the staging area is written
    apply_seq,  \* NET_STAGE_APPLYSEQ
    st_ack,     \* NET_STAGE_ACK_SEQ, and the snapshot it is from
    st_pos,     \* the snapshot the staged positions are from
    live_ack,   \* NET_ACK_SEQ, and the snapshot it is from
    live_pos,   \* the snapshot the live positions are from
    oldest,     \* history: from which input on the ring should hold them
    cut         \* history: the ring may differ from that

stageVars == <<stage_seq, st_ack, st_pos>>
liveVars == <<apply_seq, live_ack, live_pos>>
ringVars == <<slots, head, count>>
historyVars == <<oldest, cut>>
vars == <<pc, reg, n, snap, ack, stageVars, liveVars, ringVars, historyVars>>

Acknowledgement == [snap : Snap, ack : Number]

TypeOK ==
    /\ pc \in {"idle", "add", "store", "test", "grow", "bump", "load", "save",
               "stage_ack", "stage_pos", "publish"}
    /\ reg \in 0 .. RingSize
    /\ n \in Number
    /\ snap \in Snap
    /\ ack \in Number
    /\ slots \in [Index -> Number]
    /\ head \in 0 .. RingSize
    /\ pc # "load" /\ pc # "save" => head < RingSize
    /\ count \in 0 .. RingSize
    /\ stage_seq \in 0 .. StageMod - 1
    /\ apply_seq \in 0 .. StageMod - 1
    /\ st_ack \in Acknowledgement
    /\ st_pos \in Snap
    /\ live_ack \in Acknowledgement
    /\ live_pos \in Snap
    /\ oldest \in 1 .. MaxInputs + 1
    /\ cut \in BOOLEAN

Init ==
    /\ pc = "idle"
    /\ reg = 0
    /\ n = 0
    /\ snap = 0
    /\ ack = 0
    /\ slots = [i \in Index |-> 0]
    /\ head = 0
    /\ count = 0
    /\ stage_seq = 0
    /\ apply_seq = 0
    /\ st_ack = [snap |-> 0, ack |-> 0]
    /\ st_pos = 0
    /\ live_ack = [snap |-> 0, ack |-> 0]
    /\ live_pos = 0
    /\ oldest = 1
    /\ cut = FALSE

\* What a replay walks through.
Walk(s, h, c) == [k \in 1 .. c |-> s[(h + k - 1) % RingSize]]
Window == Walk(slots, head, count)

\* What it should find: the inputs from one number to another.
Inputs(from, to) == [k \in 1 .. to - from + 1 |-> from + k - 1]

----------------------------------------------------------------------------
(* Main line: NET_LOCAL_INPUT_PUSH                                         *)

\* LDA NET_PEND_COUNT
BeginPush ==
    /\ pc = "idle"
    /\ n < MaxInputs
    /\ n' = n + 1
    /\ reg' = count
    /\ pc' = "add"
    /\ UNCHANGED <<snap, ack, stageVars, liveVars, ringVars, historyVars>>

\* The slip of storing at the count alone.
TailSlot_NoHead == reg % RingSize

\* CLC, ADC NET_PEND_HEAD, AND #$07
TailSlot == (reg + head) % RingSize

AddHead ==
    /\ pc = "add"
    /\ reg' = TailSlot
    /\ pc' = "store"
    /\ UNCHANGED <<n, snap, ack, stageVars, liveVars, ringVars, historyVars>>

\* STA NET_PEND_SEQ,X (and the joy byte next to it)
Store ==
    /\ pc = "store"
    /\ slots' = [slots EXCEPT ![reg] = n]
    /\ pc' = "test"
    /\ UNCHANGED <<reg, n, snap, ack, stageVars, liveVars, head, count,
                   historyVars>>

IsFull == count >= RingSize

\* LDA NET_PEND_COUNT, CMP #8
TestFull ==
    /\ pc = "test"
    /\ pc' = IF IsFull THEN "bump" ELSE "grow"
    /\ UNCHANGED <<reg, n, snap, ack, stageVars, liveVars, ringVars,
                   historyVars>>

\* The push is complete: what the ring should hold now.
Completed(h, c) ==
    /\ head' = h
    /\ count' = c
    /\ pc' = "idle"
    /\ oldest' = IF n - oldest = RingSize THEN oldest + 1 ELSE oldest
    /\ cut' = (cut /\ Walk(slots, h, c) # Inputs(oldest', n))

\* INC NET_PEND_COUNT
Grow ==
    /\ pc = "grow"
    /\ Completed(head, count + 1)
    /\ UNCHANGED <<reg, n, snap, ack, stageVars, liveVars, slots>>

\* INC NET_PEND_HEAD
BumpHead ==
    /\ pc = "bump"
    /\ head' = head + 1
    /\ pc' = "load"
    /\ UNCHANGED <<reg, n, snap, ack, stageVars, liveVars, slots, count,
                   historyVars>>

\* LDA NET_PEND_HEAD, AND #$07
LoadHead ==
    /\ pc = "load"
    /\ reg' = head % RingSize
    /\ pc' = "save"
    /\ UNCHANGED <<n, snap, ack, stageVars, liveVars, ringVars, historyVars>>

\* STA NET_PEND_HEAD
SaveHead ==
    /\ pc = "save"
    /\ Completed(reg, count)
    /\ UNCHANGED <<reg, n, snap, ack, stageVars, liveVars, slots>>

----------------------------------------------------------------------------
(* Main line: NET_SNAP_APPLY                                               *)

\* An accepted snapshot opens the staging area.
OpenStage ==
    /\ pc = "idle"
    /\ snap < MaxSnaps
    /\ snap' = snap + 1
    /\ \E a \in ack .. n : ack' = a
    /\ stage_seq' = (stage_seq + 1) % StageMod
    /\ pc' = "stage_ack"
    /\ UNCHANGED <<reg, n, st_ack, st_pos, liveVars, ringVars, historyVars>>

StageAck ==
    /\ pc = "stage_ack"
    /\ st_ack' = [snap |-> snap, ack |-> ack]
    /\ pc' = "stage_pos"
    /\ UNCHANGED <<reg, n, snap, ack, stage_seq, st_pos, liveVars, ringVars,
                   historyVars>>

StagePositions ==
    /\ pc = "stage_pos"
    /\ st_pos' = snap
    /\ pc' = "publish"
    /\ UNCHANGED <<reg, n, snap, ack, stage_seq, st_ack, liveVars, ringVars,
                   historyVars>>

Publish ==
    /\ pc = "publish"
    /\ stage_seq' = (stage_seq + 1) % StageMod
    /\ pc' = "idle"
    /\ UNCHANGED <<reg, n, snap, ack, st_ack, st_pos, liveVars, ringVars,
                   historyVars>>

----------------------------------------------------------------------------
(* The interrupt: NET_STAGE_COMMIT and NET_LOCAL_ACK_DISCARD               *)

\* The slip of committing whatever is staged.
IsPublished_Any == stage_seq # apply_seq

\* An even sequence, and one not committed yet.
IsPublished == stage_seq % 2 = 0 /\ stage_seq # apply_seq

\* The k-th entry from the head is acknowledged.  Past the end of the table
\* lies a joystick byte, of which nothing is known.
IsAcked(k, junk) ==
    IF head + k = RingSize /\ k = 0 THEN junk
    ELSE slots[(head + k) % RingSize] <= st_ack.ack

IsDiscard(d, junk) ==
    /\ d \in 0 .. count
    /\ \A k \in 0 .. d - 1 : IsAcked(k, junk)
    /\ d < count => ~IsAcked(d, junk)

\* Where the main line must not be interrupted: it holds a count that the
\* interrupt is about to change, or it has overwritten the oldest entry of a
\* full ring and not moved the head past it yet.
Exposed ==
    \/ pc = "add"
    \/ pc = "test" /\ count = RingSize
    \/ pc \in {"bump", "load", "save"}

Commit ==
    /\ IsPublished
    /\ apply_seq' = stage_seq
    /\ live_ack' = st_ack
    /\ live_pos' = st_pos
    /\ \E junk \in BOOLEAN, d \in 0 .. count :
          /\ IsDiscard(d, junk)
          /\ head' = IF d = 0 THEN head ELSE (head + d) % RingSize
          /\ count' = count - d
    /\ oldest' = IF st_ack.ack >= oldest THEN st_ack.ack + 1 ELSE oldest
    /\ cut' = \/ Exposed
              \/ cut /\ (pc = "idle" =>
                           Walk(slots, head', count') # Inputs(oldest', n))
    /\ UNCHANGED <<pc, reg, n, snap, ack, stageVars, slots>>

\* A snapshot is being written, or the latest is committed already.
NothingToCommit ==
    /\ ~IsPublished
    /\ UNCHANGED vars

----------------------------------------------------------------------------
Next ==
    \/ BeginPush \/ AddHead \/ Store \/ TestFull \/ Grow
    \/ BumpHead \/ LoadHead \/ SaveHead
    \/ OpenStage \/ StageAck \/ StagePositions \/ Publish
    \/ Commit \/ NothingToCommit

Spec == Init /\ [][Next]_vars

----------------------------------------------------------------------------
(* Properties                                                              *)

\* The interrupt never commits a half-written snapshot: positions and
\* acknowledgement are of the same one (odd and even NET_STAGE_SEQ).
NotTorn == live_pos = live_ack.snap

\* Between two pushes the ring holds exactly the inputs to be acknowledged yet,
\* unless an interrupt hit one of the exposed instructions.
RingIsExact == pc = "idle" /\ ~cut => Window = Inputs(oldest, n)
==============================================================================
