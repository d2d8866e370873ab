----------------------------- MODULE InputQueue -----------------------------
(***************************************************************************)
(* The input stream of one Atari client: DELTA packets numbered modulo     *)
(* SeqMod, the server's short queue that serves one input per tick, the    *)
(* acknowledgement of what was served in every SNAPSHOT, and the client's  *)
(* ring of unacknowledged inputs, which it replays on top of an            *)
(* authoritative position.  Round changes clear both ends at different     *)
(* moments.                                                                *)
(*                                                                         *)
(* Packets carry their full number here; every test the code makes goes    *)
(* through SeqNo, the byte it sees.  DELTA and SNAPSHOT may be lost, at    *)
(* the moment they are sent; round events may only be late (EventStream).  *)
(* ROUND_START stands for itself and the map that follows it.              *)
(***************************************************************************)
EXTENDS Integers, Sequences

CONSTANTS
    SeqMod,           \* sequence numbers are bytes: 256 in the code
    INPUT_QUEUE_MAX,  \* 6 in the code
    RingSize,         \* entries of NET_PEND_*: 8 in the code
    MaxLag,           \* bound: numbers used since the last one heard applied
    MaxSeq,           \* bound: numbers used
    MaxRounds,        \* bound: rounds
    ChannelCap,       \* bound: packets under way in one direction
    NoSnapshot        \* nothing staged

Half == SeqMod \div 2

ASSUME InputAssumption ==
    /\ INPUT_QUEUE_MAX \in Nat \ {0}
    /\ RingSize \in Nat \ {0}
    /\ SeqMod \in Nat /\ SeqMod % 2 = 0
    /\ MaxLag \in Nat /\ MaxLag < Half
    /\ MaxSeq \in Nat
    /\ MaxRounds \in Nat \ {0}
    /\ ChannelCap \in Nat \ {0}

\* A neutral stick, or one that the client moves a predicted cell for.
Joy == {"neutral", "move"}
Number == 0 .. MaxSeq
Round == 1 .. MaxRounds
Input == [n : Number, joy : Joy]
Delta == [n : Number, joy : Joy, round : Round]
Snapshot == [round : Round, valid : BOOLEAN, ack : Number]
ASSUME StageAssumption == NoSnapshot \notin Snapshot

VARIABLES
    n,             \* NET_SEQ, unwrapped
    c_round,       \* NET_ROUND_ID
    c_state,       \* "waiting", "ready" (NET_ROUND_READY) or "over"
    ring,          \* NET_PEND_SEQ and NET_PEND_JOY, oldest first
    stage,         \* snapshot staged by the main line for the VBI
    round,         \* room->round_id
    s_state,       \* "playing" or "over"
    have_delta,    \* have_delta_seq
    last_delta,    \* last_delta_seq, unwrapped
    in_q,          \* input_q, head first
    have_applied,  \* have_applied_input_seq
    applied,       \* applied_input_seq, unwrapped
    up,            \* deltas on their way to the server
    down,          \* snapshots on their way to the client
    events,        \* MATCH_END and ROUND_START on their way to the client
    first,         \* history: the first number of the client's round
    heard,         \* history: the last number it knows to be applied
    served,        \* history: moves of the ring that a tick has served
    dropped        \* history: those the line lost or a full queue dropped

clientVars == <<n, c_round, c_state, ring, stage>>
serverVars == <<round, s_state, have_delta, last_delta, in_q, have_applied,
                applied>>
channelVars == <<up, down, events>>
historyVars == <<first, heard, served, dropped>>
vars == <<clientVars, serverVars, channelVars, historyVars>>

TypeOK ==
    /\ n \in Number
    /\ c_round \in Round
    /\ c_state \in {"waiting", "ready", "over"}
    /\ ring \in Seq(Input) /\ Len(ring) <= RingSize
    /\ stage \in Snapshot \cup {NoSnapshot}
    /\ round \in Round
    /\ s_state \in {"playing", "over"}
    /\ have_delta \in BOOLEAN
    /\ last_delta \in Number
    /\ in_q \in Seq(Input) /\ Len(in_q) <= INPUT_QUEUE_MAX
    /\ have_applied \in BOOLEAN
    /\ applied \in Number
    /\ up \in Seq(Delta)
    /\ down \in Seq(Snapshot)
    /\ events \in Seq([kind : {"MATCH_END", "ROUND_START"}, round : Round])
    /\ first \in Number
    /\ heard \in Number
    /\ served \subseteq Number
    /\ dropped \subseteq Number

\* A fresh connection that has applied the first ROUND_START.
Init ==
    /\ n = 0
    /\ c_round = 1
    /\ c_state = "waiting"
    /\ ring = <<>>
    /\ stage = NoSnapshot
    /\ round = 1
    /\ s_state = "playing"
    /\ have_delta = FALSE
    /\ last_delta = 0
    /\ in_q = <<>>
    /\ have_applied = FALSE
    /\ applied = 0
    /\ up = <<>>
    /\ down = <<>>
    /\ events = <<>>
    /\ first = 0
    /\ heard = 0
    /\ served = {}
    /\ dropped = {}

\* The byte on the wire.
SeqNo(k) == k % SeqMod

\* (uint8_t)(a - b): how far number a is ahead of number b, as bytes tell it.
AheadOf(a, b) == (SeqNo(a) - SeqNo(b)) % SeqMod

----------------------------------------------------------------------------
(* Client                                                                  *)

\* While it plays the client is never half a circle ahead of what it heard.
MayUseNumber == n < MaxSeq /\ (c_state = "over" \/ n - heard < MaxLag)

Numbers(q) == {q[k].n : k \in DOMAIN q}

\* NET_LOCAL_INPUT_PUSH: a full ring loses its oldest entry.
Pushed(e) == Append(IF Len(ring) = RingSize THEN Tail(ring) ELSE ring, e)

\* The move of one input.
MovesOf(d) == IF d.joy = "move" THEN {d.n} ELSE {}

\* History is kept of what a ring holds.
Kept(S, q) == S \cap Numbers(q)

\* NET_TX_BUILD_DELTA: input while the round is ready, a neutral heartbeat
\* with no entry in the ring otherwise.
Transmit ==
    /\ MayUseNumber
    /\ n' = n + 1
    /\ \E joy \in IF c_state = "ready" THEN Joy ELSE {"neutral"} :
          /\ ring' = IF c_state = "ready" THEN Pushed([n |-> n, joy |-> joy])
                     ELSE ring
          /\ \/ /\ Len(up) < ChannelCap
                /\ up' = Append(up, [n |-> n, joy |-> joy, round |-> c_round])
                /\ dropped' = Kept(dropped, ring')
             \/ /\ UNCHANGED up
                /\ dropped' = Kept(dropped \cup MovesOf([n |-> n, joy |-> joy]), ring')
    /\ served' = Kept(served, ring')
    /\ UNCHANGED <<c_round, c_state, stage, serverVars, down, events, first,
                   heard>>

\* RELIABLE_ACK and NAME use up a number each.
TransmitOther ==
    /\ MayUseNumber
    /\ n' = n + 1
    /\ UNCHANGED <<c_round, c_state, ring, stage, serverVars, channelVars,
                   historyVars>>

\* A snapshot of the round being played is staged, over an older one if the
\* VBI did not come in between, and opens the round if it was waited for.
ReceiveSnapshot ==
    /\ down # <<>>
    /\ down' = Tail(down)
    /\ \/ /\ Head(down).round = c_round
          /\ c_state # "over"
          /\ stage' = Head(down)
          /\ c_state' = "ready"
       \/ /\ Head(down).round # c_round \/ c_state = "over"
          /\ UNCHANGED <<stage, c_state>>
    /\ UNCHANGED <<n, c_round, ring, serverVars, up, events, historyVars>>

\* The slip of keeping the very input that was acknowledged.
Covers_Strict(ack, k) == AheadOf(ack, k) \in 1 .. Half - 1

\* Is number k acknowledged by ack?
Covers(ack, k) == AheadOf(ack, k) < Half

\* How many entries NET_LOCAL_ACK_DISCARD takes off the ring.
IsDiscard(d, ack) ==
    /\ d \in 0 .. Len(ring)
    /\ \A k \in 1 .. d : Covers(ack, ring[k].n)
    /\ d < Len(ring) => ~Covers(ack, ring[d + 1].n)

\* NET_STAGE_COMMIT, by the vertical blank interrupt.
Commit ==
    /\ stage # NoSnapshot
    /\ stage' = NoSnapshot
    /\ \/ /\ stage.valid
          /\ heard' = stage.ack
          /\ \E d \in 0 .. Len(ring) :
                /\ IsDiscard(d, stage.ack)
                /\ ring' = SubSeq(ring, d + 1, Len(ring))
       \/ ~stage.valid /\ UNCHANGED <<ring, heard>>
    /\ served' = Kept(served, ring')
    /\ dropped' = Kept(dropped, ring')
    /\ UNCHANGED <<n, c_round, c_state, serverVars, channelVars, first>>

\* UI_REL_MATCH and UI_REL_START: both clear the ring.
ReceiveEvent ==
    /\ events # <<>>
    /\ events' = Tail(events)
    /\ ring' = <<>>
    /\ served' = {}
    /\ dropped' = {}
    /\ \/ /\ Head(events).kind = "MATCH_END"
          /\ c_state' = "over"
          /\ UNCHANGED <<c_round, first, heard>>
       \/ /\ Head(events).kind = "ROUND_START"
          /\ c_round' = Head(events).round
          /\ c_state' = "waiting"
          /\ first' = n
          /\ heard' = n
    /\ UNCHANGED <<n, stage, serverVars, up, down>>

----------------------------------------------------------------------------
(* Server                                                                  *)

\* The slip of taking a delta of any round.
OfThisRound_Any(d) == s_state = "playing"

\* handle_client_packet: what may reach the queue at all.
OfThisRound(d) == d.round = round /\ s_state = "playing"

\* delta_seq_is_fresh.
Fresh(k) == ~have_delta \/ AheadOf(k, last_delta) \in 1 .. Half - 1

\* The slip of folding a repeated move.
Foldable_Any(joy) == in_q # <<>> /\ in_q[Len(in_q)].joy = joy

\* A neutral joins a neutral that waits last.
Foldable(joy) == in_q # <<>> /\ in_q[Len(in_q)].joy = joy /\ joy = "neutral"

Folded(k) == [in_q EXCEPT ![Len(in_q)].n = k]

\* A full queue drops the input whose number it has just taken for fresh.
ReceiveDelta ==
    LET d == Head(up)
    IN  /\ up # <<>>
        /\ up' = Tail(up)
        /\ \/ /\ ~OfThisRound(d) \/ ~Fresh(d.n)
              /\ UNCHANGED <<have_delta, last_delta, in_q, dropped>>
           \/ /\ OfThisRound(d) /\ Fresh(d.n)
              /\ have_delta' = TRUE
              /\ last_delta' = d.n
              /\ \/ /\ Foldable(d.joy)
                    /\ in_q' = Folded(d.n)
                    /\ UNCHANGED dropped
                 \/ /\ ~Foldable(d.joy)
                    /\ Len(in_q) < INPUT_QUEUE_MAX
                    /\ in_q' = Append(in_q, [n |-> d.n, joy |-> d.joy])
                    /\ UNCHANGED dropped
                 \/ /\ ~Foldable(d.joy)
                    /\ Len(in_q) = INPUT_QUEUE_MAX
                    /\ dropped' = dropped \cup Kept(MovesOf(d), ring)
                    /\ UNCHANGED in_q
    /\ UNCHANGED <<clientVars, round, s_state, have_applied, applied, down,
                   events, first, heard, served>>

\* tick_room for this client: apply_queued_input while the round plays, then a
\* snapshot.  With --lag-ms the head may not be ready yet.
Tick ==
    /\ \/ /\ s_state = "playing"
          /\ in_q # <<>>
          /\ applied' = Head(in_q).n
          /\ have_applied' = TRUE
          /\ in_q' = Tail(in_q)
          /\ served' = served \cup Kept(MovesOf(Head(in_q)), ring)
       \/ UNCHANGED <<in_q, applied, have_applied, served>>
    /\ \/ /\ Len(down) < ChannelCap
          /\ down' = Append(down, [round |-> round, valid |-> have_applied',
                                   ack |-> applied'])
       \/ UNCHANGED down
    /\ UNCHANGED <<clientVars, round, s_state, have_delta, last_delta, up,
                   events, first, heard, dropped>>

EnterRoundOver ==
    /\ s_state = "playing"
    /\ s_state' = "over"
    /\ in_q' = <<>>
    /\ events' = Append(events, [kind |-> "MATCH_END", round |-> round])
    /\ UNCHANGED <<clientVars, round, have_delta, last_delta, have_applied,
                   applied, up, down, historyVars>>

\* The slip of carrying the freshness baseline into the next round.
Baseline_Kept == have_delta' = have_delta

Baseline == have_delta' = FALSE

\* reset_round after the intermission.
ResetRound ==
    /\ s_state = "over"
    /\ round < MaxRounds
    /\ round' = round + 1
    /\ s_state' = "playing"
    /\ Baseline
    /\ have_applied' = FALSE
    /\ in_q' = <<>>
    /\ events' = Append(events, [kind |-> "ROUND_START", round |-> round + 1])
    /\ UNCHANGED <<clientVars, last_delta, applied, up, down, historyVars>>

----------------------------------------------------------------------------
Next ==
    \/ Transmit
    \/ TransmitOther
    \/ ReceiveSnapshot
    \/ Commit
    \/ ReceiveEvent
    \/ ReceiveDelta
    \/ Tick
    \/ EnterRoundOver
    \/ ResetRound

Spec == Init /\ [][Next]_vars

----------------------------------------------------------------------------
(* Properties                                                              *)

\* No input of an earlier round, whatever was still under way or queued, moves
\* an actor in a later one (the round id in DELTA, the queues cleared by
\* enter_round_over and reset_round).
ServedIsOfThisRound ==
    /\ c_round # round => in_q = <<>> /\ ~have_applied
    /\ c_round = round =>
          /\ \A k \in Numbers(in_q) : k >= first
          /\ have_applied => applied >= first

\* What becomes of a move that the client forgets on an acknowledgement: a tick
\* has served it, or it never got into the queue, because the line lost it or
\* the queue was full.  None is forgotten while it still travels or waits, nor
\* because another was folded over it (the fold's comment, main.c 1468-1476).
\* The second way out is a disagreement of the code with its comments: they say
\* that a dropped move stays pending and is replayed (main.c 62-63, 1491,
\* 2153-2154), but the next number that is served acknowledges it as well;
\* doc/protocol.md 554-559 records the overflow as open.
AckedWasServedOrDropped ==
    [][stage # NoSnapshot /\ stage' = NoSnapshot =>
          \A k \in DOMAIN ring :
             ring[k].joy = "move" /\ ring[k].n \notin Numbers(ring') =>
                ring[k].n \in served \cup dropped]_vars

\* What is left in the ring after a snapshot is what the snapshot's position
\* does not contain yet, so replaying the ring walks no cell twice
\* (NET_LOCAL_ACK_DISCARD, NET_LOCAL_REPLAY_PENDING).
ReplayIsExact ==
    [][stage # NoSnapshot /\ stage' = NoSnapshot /\ stage.valid =>
          \A k \in 1 .. Len(ring') : ring'[k].n > stage.ack]_vars

\* The server never takes an input of the running round for a repetition:
\* heartbeats may use up any number of numbers while results are shown
\* (reset_round forgets have_delta_seq).
NeverStale ==
    up # <<>> /\ OfThisRound(Head(up)) => Fresh(Head(up).n)
==============================================================================
