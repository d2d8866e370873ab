--------------------------- MODULE ReliableStream ---------------------------
(***************************************************************************)
(* The reliable event stream between the server and one client: a stop-    *)
(* and-wait queue of numbered events, cumulative acknowledgements, and     *)
(* retransmission on a timer and on duplicate acknowledgements.  Frames    *)
(* keep their order; a damaged one is discarded by the receiver's checksum *)
(* and so lost, in either direction.                                       *)
(*                                                                         *)
(* A frame may be lost at the moment it is sent, which for a channel that  *)
(* keeps order is the same as being lost under way.                        *)
(***************************************************************************)
EXTENDS Integers, Sequences

CONSTANTS
    RevMod,              \* revisions are uint16_t: 65536 in the code
    RELIABLE_QUEUE_MAX,  \* 24 in the code
    MaxEvents,           \* bound: events emitted on one connection
    ChannelCap           \* bound: frames under way in one direction

ASSUME StreamAssumption ==
    /\ RELIABLE_QUEUE_MAX \in Nat \ {0}
    /\ RevMod \in Nat
    /\ RevMod >= 4
    /\ MaxEvents \in Nat
    /\ ChannelCap \in Nat \ {0}

Rev == 0 .. RevMod - 1
Event == 1 .. MaxEvents
Frame == [rev : Rev, event : Event]

VARIABLES
    emitted,      \* history: events enqueued on this connection
    next_rev,     \* reliable_next_rev
    acked_rev,    \* reliable_acked_rev
    sent_rev,     \* reliable_sent_rev
    queue,        \* reliable_q, head first
    resend_due,   \* RELIABLE_RESEND_MS have passed since the last send
    fast_due,     \* RELIABLE_FAST_MS have passed since the last fast resend
    failed,       \* tx.failed: the connection waits to be dropped
    down,         \* frames on their way to the client
    up,           \* acknowledgements on their way to the server
    applied_rev,  \* the client's reliable_applied_rev
    applied       \* history: events the client applied, in its order

serverVars == <<next_rev, acked_rev, sent_rev, queue, failed>>
timerVars == <<resend_due, fast_due>>
clientVars == <<applied_rev, applied>>
vars == <<emitted, serverVars, timerVars, down, up, clientVars>>

TypeOK ==
    /\ emitted \in 0 .. MaxEvents
    /\ next_rev \in Rev
    /\ acked_rev \in Rev
    /\ sent_rev \in Rev
    /\ queue \in Seq(Frame)
    /\ Len(queue) <= RELIABLE_QUEUE_MAX
    /\ resend_due \in BOOLEAN
    /\ fast_due \in BOOLEAN
    /\ failed \in BOOLEAN
    /\ down \in Seq(Frame)
    /\ up \in Seq(Rev)
    /\ applied_rev \in Rev
    /\ applied \in Seq(Event)

\* init_client_slot and the client's fresh receiver.
Init ==
    /\ emitted = 0
    /\ next_rev = 1
    /\ acked_rev = 0
    /\ sent_rev = 0
    /\ queue = <<>>
    /\ resend_due = FALSE
    /\ fast_due = TRUE
    /\ failed = FALSE
    /\ down = <<>>
    /\ up = <<>>
    /\ applied_rev = 0
    /\ applied = <<>>

\* uint16_t increment.
Succ(r) == IF r = RevMod - 1 THEN 0 ELSE r + 1

\* (uint16_t)(a - b): how far a is ahead of b on the circle of revisions.
AheadOf(a, b) == IF a >= b THEN a - b ELSE a - b + RevMod

----------------------------------------------------------------------------
(* Channels                                                                *)

Delivered(ch, ch2, f) == Len(ch) < ChannelCap /\ ch2 = Append(ch, f)

\* A send, from the receiver's point of view.
Put(ch, ch2, f) == Delivered(ch, ch2, f) \/ ch2 = ch

----------------------------------------------------------------------------
(* Server                                                                  *)

\* reliable_send_from: the head of q, and of nothing else, goes out.
SendHead(q) ==
    /\ Put(down, down', Head(q))
    /\ sent_rev' = Head(q).rev
    /\ resend_due' = FALSE

\* Only an event that finds the queue empty is sent on its own.
SendsNow(q) == q = <<>>

\* reliable_enqueue_client: a full queue condemns the connection.
Enqueue ==
    LET f == [rev |-> next_rev, event |-> emitted + 1]
    IN  /\ ~failed
        /\ emitted < MaxEvents
        /\ \/ /\ Len(queue) >= RELIABLE_QUEUE_MAX
              /\ failed' = TRUE
              /\ UNCHANGED <<emitted, next_rev, acked_rev, sent_rev, queue,
                             resend_due, down>>
           \/ /\ Len(queue) < RELIABLE_QUEUE_MAX
              /\ queue' = Append(queue, f)
              /\ next_rev' = Succ(next_rev)
              /\ emitted' = emitted + 1
              /\ \/ SendsNow(queue) /\ SendHead(<<f>>)
                 \/ ~SendsNow(queue) /\ UNCHANGED <<sent_rev, resend_due, down>>
              /\ UNCHANGED <<acked_rev, failed>>
        /\ UNCHANGED <<fast_due, up, clientVars>>

\* reliable_tick.
Resend ==
    /\ ~failed
    /\ queue # <<>>
    /\ resend_due
    /\ SendHead(queue)
    /\ UNCHANGED <<emitted, next_rev, acked_rev, queue, failed, fast_due, up,
                   clientVars>>

\* The slip of comparing revisions as plain numbers.
Covers_Plain(ack, rev) == ack >= rev

\* Is revision rev acknowledged by ack?
Covers(ack, rev) == AheadOf(ack, rev) < RevMod \div 2

\* An acknowledgement of something never sent is ignored.
Unsent(ack) == ack # sent_rev /\ Covers(ack, sent_rev)

\* The entries the loop of reliable_ack removes: the longest acknowledged run.
IsAckedRun(n, ack) ==
    /\ n \in 0 .. Len(queue)
    /\ \A k \in 1 .. n : Covers(ack, queue[k].rev)
    /\ n < Len(queue) => ~Covers(ack, queue[n + 1].rev)

\* The branch of reliable_ack that retransmits at once.
IsFastResend(ack) == ack = acked_rev /\ queue # <<>> /\ fast_due

\* reliable_ack.
ReceiveAck ==
    LET ack == Head(up)
    IN  /\ ~failed
        /\ up # <<>>
        /\ up' = Tail(up)
        /\ \/ /\ Unsent(ack)
              /\ UNCHANGED <<acked_rev, sent_rev, queue, timerVars, down>>
           \/ /\ ~Unsent(ack)
              /\ IsFastResend(ack)
              /\ SendHead(queue)
              /\ fast_due' = FALSE
              /\ UNCHANGED <<acked_rev, queue>>
           \/ /\ ~Unsent(ack)
              /\ ~IsFastResend(ack)
              /\ \E n \in 0 .. Len(queue) :
                    /\ IsAckedRun(n, ack)
                    /\ queue' = SubSeq(queue, n + 1, Len(queue))
                    /\ acked_rev' = IF n = 0 THEN acked_rev ELSE queue[n].rev
              /\ \/ queue' # <<>> /\ SendHead(queue')
                 \/ queue' = <<>> /\ UNCHANGED <<sent_rev, resend_due, down>>
              /\ UNCHANGED fast_due
        /\ UNCHANGED <<emitted, next_rev, failed, clientVars>>

----------------------------------------------------------------------------
(* Client                                                                  *)

\* The slip of applying whatever arrives.
IsNextRev_Every(rev) == TRUE

IsNextRev(rev) == rev = Succ(applied_rev)

\* The slip of answering only what was applied.
Reply_Silent(r) == applied' # applied /\ Put(up, up', r)

\* Every event is answered with the highest revision applied.
Reply(r) == Put(up, up', r)

\* The RELIABLE_EVENT branch of handle_packet.
ReceiveEvent ==
    LET f == Head(down)
    IN  /\ down # <<>>
        /\ down' = Tail(down)
        /\ \/ /\ IsNextRev(f.rev)
              /\ applied_rev' = f.rev
              /\ applied' = Append(applied, f.event)
              /\ Reply(f.rev)
           \/ /\ ~IsNextRev(f.rev)
              /\ UNCHANGED clientVars
              /\ Reply(applied_rev)
        /\ UNCHANGED <<emitted, serverVars, timerVars>>

----------------------------------------------------------------------------
(* Time and connections                                                    *)

TimerElapses ==
    /\ \/ resend_due' = TRUE /\ UNCHANGED fast_due
       \/ fast_due' = TRUE /\ UNCHANGED resend_due
    /\ UNCHANGED <<emitted, serverVars, down, up, clientVars>>

\* A condemned or broken connection is dropped and the client comes back on
\* a new one: drop_client, init_client_slot.
Reconnect ==
    /\ emitted' = 0
    /\ next_rev' = 1
    /\ acked_rev' = 0
    /\ sent_rev' = 0
    /\ queue' = <<>>
    /\ resend_due' = FALSE
    /\ fast_due' = TRUE
    /\ failed' = FALSE
    /\ down' = <<>>
    /\ up' = <<>>
    /\ applied_rev' = 0
    /\ applied' = <<>>

Next ==
    \/ Enqueue
    \/ Resend
    \/ ReceiveAck
    \/ ReceiveEvent
    \/ TimerElapses
    \/ Reconnect

Spec == Init /\ [][Next]_vars

\* Timers run, what arrives is read, and a frame that is sent again and again
\* gets through at last.
Fairness ==
    /\ WF_vars(TimerElapses /\ resend_due')
    /\ SF_vars(Resend /\ Len(down') > Len(down))
    /\ SF_vars(ReceiveEvent /\ Len(up') > Len(up))
    /\ WF_vars(ReceiveEvent)
    /\ WF_vars(ReceiveAck)

FairSpec == Spec /\ Fairness

----------------------------------------------------------------------------
(* Properties                                                              *)

E == INSTANCE EventStream WITH emitted <- emitted, applied <- applied

\* The client applies exactly the emitted events, in order, each once, though
\* frames are lost and repeated and revisions wrap (handle_packet's revision
\* test against reliable_ack's cumulative removal).
EventStreamPromise == E!Spec

\* An event leaves the server's queue only after the client has applied it.
AckedMeansApplied == emitted - Len(queue) <= Len(applied)

\* Stop and wait: no frame under way is newer than the oldest event that is
\* still unacknowledged (reliable_send_from sends the head only).
StopAndWait ==
    \A k \in 1 .. Len(down) : down[k].event <= emitted - Len(queue) + 1

\* What is emitted is applied at last, unless the connection breaks.
EventsArrive ==
    \A n \in Event :
        emitted >= n ~> (Len(applied) >= n \/ emitted < n \/ failed)
==============================================================================
