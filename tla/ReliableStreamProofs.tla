------------------------ MODULE ReliableStreamProofs ------------------------
(***************************************************************************)
(* The reliable stream keeps the promise of EventStream for every queue    *)
(* length, every revision width from four up and every number of frames    *)
(* under way.  The argument: the channels keep order, so everything under  *)
(* way to the client is the last applied event or the next one, and every  *)
(* acknowledgement under way is for the last removed event or the next.    *)
(***************************************************************************)
EXTENDS ReliableStream, SequenceTheorems, TLAPS

USE StreamAssumption

\* The number of events the server has taken off its queue.
Removed == emitted - Len(queue)

\* The newest event handed to reliable_send_from: the head of the queue.
Newest == IF queue = <<>> THEN acked_rev ELSE queue[1].rev

\* The queue is the run of events after Removed, revision after revision.
QueueInv ==
    /\ Len(queue) <= emitted
    /\ \A k \in 1 .. Len(queue) : queue[k].event = Removed + k
    /\ queue # <<>> => queue[1].rev = Succ(acked_rev)
    /\ \A k \in 1 .. Len(queue) - 1 : queue[k + 1].rev = Succ(queue[k].rev)
    /\ next_rev = IF queue = <<>> THEN Succ(acked_rev)
                  ELSE Succ(queue[Len(queue)].rev)
    /\ sent_rev = Newest

\* The client is level with the server or one event ahead of it.
ClientInv ==
    \/ Len(applied) = Removed /\ applied_rev = acked_rev
    \/ /\ Len(applied) = Removed + 1
       /\ queue # <<>>
       /\ applied_rev = queue[1].rev

\* The server waits for the client to apply the head of its queue.
Level == Len(applied) = Removed /\ queue # <<>>

\* Frames under way: the last event applied, then the next one.
FramesOk(d, n, r, level) ==
    /\ \A k \in 1 .. Len(d) :
          \/ d[k].event = n /\ d[k].rev = r
          \/ level /\ d[k].event = n + 1 /\ d[k].rev = Succ(r)
    /\ \A j, k \in 1 .. Len(d) : j < k => d[j].event <= d[k].event

\* Acknowledgements under way: the last event removed, then the next one.
AcksOk(u, removed, r) ==
    /\ \A k \in 1 .. Len(u) : u[k] \in {removed, r}
    /\ \A j, k \in 1 .. Len(u) : j < k /\ u[j] = r => u[k] = r

DownInv == FramesOk(down, Len(applied), applied_rev, Level)

UpInv == AcksOk(up, acked_rev, applied_rev)

StreamInv == TypeOK /\ QueueInv /\ ClientInv /\ DownInv /\ UpInv

----------------------------------------------------------------------------
(* Revisions                                                               *)

LEMMA SuccIsRev ==
    ASSUME NEW r \in Rev
    PROVE  Succ(r) \in Rev /\ Succ(r) # r
    BY DEF Rev, Succ

\* A revision covers itself and not its successor.
LEMMA CoversNext ==
    ASSUME NEW r \in Rev
    PROVE  Covers(r, r) /\ ~Covers(r, Succ(r))
<1>1. RevMod \div 2 >= 2 /\ RevMod \div 2 <= RevMod - 1
    OBVIOUS
<1> QED BY <1>1 DEF Rev, Succ, Covers, AheadOf

----------------------------------------------------------------------------
(* Channels                                                                *)

\* Sending the frame the client waits for, or the one it just applied.
LEMMA PutFrame ==
    ASSUME NEW level \in BOOLEAN, NEW d \in Seq(Frame), NEW e,
           NEW f \in Frame, NEW n \in Nat, NEW r,
           FramesOk(d, n, r, level), Put(d, e, f),
           IF level THEN f.event = n + 1 /\ f.rev = Succ(r)
                    ELSE f.event = n /\ f.rev = r
    PROVE  e \in Seq(Frame) /\ FramesOk(e, n, r, level)
<1>1. CASE e = d
    BY <1>1
<1>2. CASE e = Append(d, f)
  <2>1. /\ e \in Seq(Frame)
        /\ Len(e) = Len(d) + 1
        /\ \A k \in 1 .. Len(d) : e[k] = d[k]
        /\ e[Len(d) + 1] = f
        /\ Len(d) \in Nat
      BY <1>2, AppendProperties, LenProperties
  <2>2. ASSUME NEW k \in 1 .. Len(e)
        PROVE  \/ e[k].event = n /\ e[k].rev = r
               \/ level /\ e[k].event = n + 1 /\ e[k].rev = Succ(r)
      BY <2>1 DEF FramesOk
  <2>3. \A k \in 1 .. Len(d) : d[k].event <= f.event
      BY DEF FramesOk
  <2>4. ASSUME NEW j \in 1 .. Len(e), NEW k \in 1 .. Len(e), j < k
        PROVE  e[j].event <= e[k].event
    <3>1. j \in 1 .. Len(d) /\ e[j] = d[j]
        BY <2>1, <2>4
    <3>2. CASE k = Len(d) + 1
        BY <2>1, <2>3, <3>1, <3>2
    <3>3. CASE k \in 1 .. Len(d)
      <4>1. d[j].event <= d[k].event
          BY <2>4, <3>1, <3>3 DEF FramesOk
      <4>2. e[k] = d[k]
          BY <2>1, <3>3
      <4> QED BY <3>1, <4>1, <4>2
    <3> QED BY <2>1, <3>2, <3>3
  <2> QED BY <2>1, <2>2, <2>4 DEF FramesOk
<1> QED BY <1>1, <1>2 DEF Put, Delivered

\* Reading a frame.
LEMMA TakeFrame ==
    ASSUME NEW d \in Seq(Frame), d # <<>>, NEW n, NEW r, NEW level,
           FramesOk(d, n, r, level)
    PROVE  /\ Head(d) = d[1] /\ d[1] \in Frame /\ Tail(d) \in Seq(Frame)
           /\ FramesOk(Tail(d), n, r, level)
           /\ \A k \in 1 .. Len(Tail(d)) : d[1].event <= Tail(d)[k].event
<1>1. /\ Tail(d) \in Seq(Frame)
      /\ Len(Tail(d)) = Len(d) - 1
      /\ \A k \in 1 .. Len(Tail(d)) : Tail(d)[k] = d[k + 1]
      /\ Len(d) \in Nat \ {0}
      /\ Head(d) = d[1] /\ d[1] \in Frame
    BY HeadTailProperties, LenProperties, EmptySeq, ElementOfSeq
<1>2. \A k \in 1 .. Len(Tail(d)) : k + 1 \in 1 .. Len(d) /\ 1 \in 1 .. Len(d)
    BY <1>1
<1>3. \A k \in 1 .. Len(Tail(d)) : d[1].event <= Tail(d)[k].event
    BY <1>1, <1>2 DEF FramesOk
<1>4. FramesOk(Tail(d), n, r, level)
    BY <1>1, <1>2 DEF FramesOk
<1> QED BY <1>1, <1>3, <1>4

\* Sending an acknowledgement of the last event applied.
LEMMA PutAck ==
    ASSUME NEW u \in Seq(Rev), NEW v, NEW a, NEW r \in Rev, AcksOk(u, a, r),
           Put(u, v, r)
    PROVE  v \in Seq(Rev) /\ AcksOk(v, a, r)
<1>1. CASE v = u
    BY <1>1
<1>2. CASE v = Append(u, r)
  <2>1. /\ v \in Seq(Rev)
        /\ Len(v) = Len(u) + 1
        /\ \A k \in 1 .. Len(u) : v[k] = u[k]
        /\ v[Len(u) + 1] = r
        /\ Len(u) \in Nat
      BY <1>2, AppendProperties, LenProperties
  <2> QED BY <2>1 DEF AcksOk
<1> QED BY <1>1, <1>2 DEF Put, Delivered

\* Reading an acknowledgement: nothing older follows it.
LEMMA TakeAck ==
    ASSUME NEW u \in Seq(Rev), u # <<>>, NEW a, NEW r, AcksOk(u, a, r)
    PROVE  /\ Head(u) \in {a, r} /\ Tail(u) \in Seq(Rev)
           /\ AcksOk(Tail(u), a, r)
           /\ Head(u) = r => AcksOk(Tail(u), r, r)
<1>1. /\ Tail(u) \in Seq(Rev)
      /\ Len(Tail(u)) = Len(u) - 1
      /\ \A k \in 1 .. Len(Tail(u)) : Tail(u)[k] = u[k + 1]
      /\ Len(u) \in Nat \ {0}
      /\ Head(u) = u[1]
    BY HeadTailProperties, LenProperties, EmptySeq
<1>2. \A k \in 1 .. Len(Tail(u)) : k + 1 \in 1 .. Len(u) /\ 1 \in 1 .. Len(u)
    BY <1>1
<1> QED BY <1>1, <1>2 DEF AcksOk

----------------------------------------------------------------------------
(* Steps                                                                   *)

LEMMA InitStream == Init => StreamInv
<1> SUFFICES ASSUME Init PROVE StreamInv
    OBVIOUS
<1>1. /\ queue \in Seq(Frame) /\ down \in Seq(Frame)
      /\ up \in Seq(Rev) /\ applied \in Seq(Event)
    BY EmptySeq DEF Init
<1>2. /\ Len(queue) = 0 /\ Len(down) = 0
      /\ Len(up) = 0 /\ Len(applied) = 0
    BY EmptySeq DEF Init
<1>3. /\ emitted = 0 /\ next_rev = 1 /\ acked_rev = 0 /\ sent_rev = 0
      /\ applied_rev = 0
      /\ resend_due \in BOOLEAN /\ fast_due \in BOOLEAN /\ failed \in BOOLEAN
      /\ queue = <<>>
    BY DEF Init
<1>4. TypeOK
    BY <1>1, <1>2, <1>3 DEF TypeOK, Rev
<1>5. QueueInv /\ ClientInv
  <2>1. Removed = 0 /\ Newest = 0 /\ Succ(0) = 1
      BY <1>2, <1>3 DEF Removed, Newest, Succ
  <2> QED BY <1>2, <1>3, <2>1 DEF QueueInv, ClientInv
<1>6. DownInv /\ UpInv
    BY <1>2 DEF Init, DownInv, UpInv, FramesOk, AcksOk
<1> QED BY <1>4, <1>5, <1>6 DEF StreamInv

\* What the head of the queue is to the client: the event it waits for, or
\* the one it has just applied.
LEMMA HeadIsDue ==
    ASSUME StreamInv, queue # <<>>
    PROVE  /\ Head(queue) = queue[1] /\ queue[1] \in Frame
           /\ 1 \in 1 .. Len(queue) /\ Level \in BOOLEAN
           /\ Len(applied) \in Nat
           /\ IF Level THEN /\ queue[1].event = Len(applied) + 1
                            /\ queue[1].rev = Succ(applied_rev)
                       ELSE /\ queue[1].event = Len(applied)
                            /\ queue[1].rev = applied_rev
<1>1. /\ Len(queue) \in Nat \ {0} /\ Len(applied) \in Nat
      /\ Head(queue) = queue[1] /\ queue[1] \in Frame
    BY EmptySeq, LenProperties, HeadTailProperties, ElementOfSeq
    DEF StreamInv, TypeOK
<1>2. queue[1].event = Removed + 1 /\ queue[1].rev = Succ(acked_rev)
    BY <1>1 DEF StreamInv, QueueInv
<1>3. emitted \in Nat /\ Removed \in Int
    BY <1>1 DEF StreamInv, TypeOK, Removed
<1> QED BY <1>1, <1>2, <1>3 DEF StreamInv, ClientInv, Level

\* Sending the head of the queue again.
LEMMA ResendHead ==
    ASSUME StreamInv, queue # <<>>, SendHead(queue),
           UNCHANGED <<emitted, acked_rev, next_rev, queue, applied_rev, applied>>
    PROVE  /\ down' \in Seq(Frame) /\ DownInv'
           /\ sent_rev' \in Rev /\ resend_due' \in BOOLEAN
           /\ QueueInv' /\ ClientInv'
<1>1. Put(down, down', queue[1]) /\ sent_rev' = queue[1].rev /\ resend_due' = FALSE
    BY HeadIsDue DEF SendHead
<1>2. down' \in Seq(Frame) /\ FramesOk(down', Len(applied), applied_rev, Level)
    BY <1>1, HeadIsDue, PutFrame DEF StreamInv, DownInv, TypeOK
<1>3. DownInv'
    BY <1>2 DEF DownInv, Level, Removed
<1>4. sent_rev' \in Rev
    BY <1>1, HeadIsDue DEF Frame
<1>5. QueueInv' /\ ClientInv'
    BY <1>1 DEF StreamInv, QueueInv, ClientInv, Removed, Newest
<1> QED BY <1>1, <1>2, <1>3, <1>4, <1>5

\* Room for a newer frame does not disturb those under way.
LEMMA FramesOfLevel ==
    ASSUME NEW d, NEW n, NEW r, NEW level \in BOOLEAN, FramesOk(d, n, r, FALSE)
    PROVE  FramesOk(d, n, r, level)
    BY DEF FramesOk

LEMMA EnqueueStream ==
    ASSUME StreamInv, Enqueue
    PROVE  StreamInv'
<1> DEFINE f == [rev |-> next_rev, event |-> emitted + 1]
<1>1. CASE Len(queue) >= RELIABLE_QUEUE_MAX /\ failed' = TRUE
           /\ UNCHANGED <<emitted, next_rev, acked_rev, sent_rev, queue,
                          resend_due, down>>
  <2>1. TypeOK'
      BY <1>1 DEF Enqueue, StreamInv, TypeOK, clientVars
  <2>2. QueueInv' /\ ClientInv' /\ DownInv' /\ UpInv'
      BY <1>1 DEF Enqueue, StreamInv, QueueInv, ClientInv, DownInv, UpInv,
                  Removed, Newest, Level, clientVars
  <2> QED BY <2>1, <2>2 DEF StreamInv
<1>2. CASE /\ Len(queue) < RELIABLE_QUEUE_MAX
           /\ queue' = Append(queue, f)
           /\ next_rev' = Succ(next_rev)
           /\ emitted' = emitted + 1
           /\ \/ SendsNow(queue) /\ SendHead(<<f>>)
              \/ ~SendsNow(queue) /\ UNCHANGED <<sent_rev, resend_due, down>>
           /\ UNCHANGED <<acked_rev, failed>>
  <2>1. /\ f \in Frame /\ next_rev' \in Rev /\ emitted' \in 0 .. MaxEvents
        /\ emitted \in Nat
      BY <1>2, SuccIsRev DEF Enqueue, StreamInv, TypeOK, Frame, Event
  <2>2. /\ queue' \in Seq(Frame) /\ Len(queue') = Len(queue) + 1
        /\ \A k \in 1 .. Len(queue) : queue'[k] = queue[k]
        /\ queue'[Len(queue) + 1] = f
        /\ Len(queue) \in Nat /\ queue' # <<>>
      BY <1>2, <2>1, AppendProperties, LenProperties, EmptySeq
      DEF StreamInv, TypeOK
  <2>3. /\ Removed' = Removed /\ Removed \in Nat /\ Len(applied) \in Nat
        /\ Removed + Len(queue) = emitted
      BY <1>2, <2>1, <2>2, LenProperties
      DEF Removed, StreamInv, QueueInv, TypeOK
  <2>4. UNCHANGED <<fast_due, up, applied_rev, applied>>
      BY DEF Enqueue, clientVars
  <2>5. CASE queue = <<>>
    <3>1. /\ Len(queue) = 0 /\ next_rev = Succ(acked_rev) /\ ~Level
          /\ Len(applied) = Removed /\ applied_rev = acked_rev
        BY <2>2, <2>5, EmptySeq
        DEF StreamInv, QueueInv, ClientInv, Level
    <3>2. /\ Put(down, down', f) /\ sent_rev' = f.rev /\ resend_due' = FALSE
      <4>1. Head(<<f>>) = f
          OBVIOUS
      <4>2. SendHead(<<f>>)
          BY <1>2, <2>5 DEF SendsNow
      <4> QED BY <4>1, <4>2 DEF SendHead
    <3>3. Level'
        BY <2>2, <2>3, <2>4, <3>1 DEF Level
    <3>4. FramesOk(down, Len(applied), applied_rev, TRUE)
        BY <3>1, FramesOfLevel DEF StreamInv, DownInv, Level
    <3>5. f.event = Len(applied) + 1 /\ f.rev = Succ(applied_rev)
        BY <2>3, <3>1
    <3>6. /\ down' \in Seq(Frame)
          /\ FramesOk(down', Len(applied), applied_rev, TRUE)
      <4> HIDE DEF f
      <4> QED BY <2>1, <2>3, <3>2, <3>4, <3>5, PutFrame DEF StreamInv, TypeOK
    <3>7. DownInv'
        BY <2>4, <3>3, <3>6 DEF DownInv, Level
    <3>8. TypeOK'
      <4>1. /\ sent_rev' \in Rev /\ resend_due' \in BOOLEAN
            /\ Len(queue') <= RELIABLE_QUEUE_MAX
        <5>1. Len(queue') <= RELIABLE_QUEUE_MAX
            BY <1>2, <2>2
        <5>2. sent_rev' = next_rev
            BY <3>2
        <5>3. resend_due' \in BOOLEAN
            BY <3>2
        <5> QED BY <5>1, <5>2, <5>3 DEF StreamInv, TypeOK
      <4>2. /\ acked_rev' \in Rev /\ failed' \in BOOLEAN
            /\ fast_due' \in BOOLEAN /\ up' \in Seq(Rev)
            /\ applied_rev' \in Rev /\ applied' \in Seq(Event)
          BY <1>2, <2>4 DEF StreamInv, TypeOK
      <4>3. emitted' \in 0 .. MaxEvents /\ next_rev' \in Rev
          BY <2>1
      <4>4. queue' \in Seq(Frame) /\ down' \in Seq(Frame)
          BY <2>2, <3>6
      <4> QED BY <4>1, <4>2, <4>3, <4>4 DEF TypeOK
    <3>9. QueueInv'
        BY <1>2, <2>1, <2>2, <2>3, <3>1, <3>2 DEF QueueInv, Newest
    <3>10. ClientInv' /\ UpInv'
        BY <1>2, <2>3, <2>4, <3>1 DEF StreamInv, ClientInv, UpInv
    <3> QED BY <3>7, <3>8, <3>9, <3>10 DEF StreamInv
  <2>6. CASE queue # <<>>
    <3>1. /\ Len(queue) >= 1 /\ queue'[1] = queue[1]
          /\ UNCHANGED <<sent_rev, resend_due, down>>
        BY <1>2, <2>2, <2>6, EmptySeq DEF SendsNow, StreamInv, TypeOK
    <3>2. TypeOK'
        BY <1>2, <2>1, <2>2, <2>4, <3>1 DEF StreamInv, TypeOK
    <3>3. QueueInv'
      <4>1. \A k \in 1 .. Len(queue') : queue'[k].event = Removed' + k
        <5>1. ASSUME NEW k \in 1 .. Len(queue)
              PROVE  queue'[k].event = Removed' + k
            BY <2>2, <2>3 DEF StreamInv, QueueInv
        <5>2. queue'[Len(queue) + 1].event = Removed' + (Len(queue) + 1)
            BY <2>2, <2>3, <2>1
        <5>3. \A k \in 1 .. Len(queue') : k \in 1 .. Len(queue) \/ k = Len(queue) + 1
            BY <2>2
        <5> QED BY <5>1, <5>2, <5>3
      <4>2. \A k \in 1 .. Len(queue') - 1 : queue'[k + 1].rev = Succ(queue'[k].rev)
        <5>1. ASSUME NEW k \in 1 .. Len(queue) - 1
              PROVE  queue'[k + 1].rev = Succ(queue'[k].rev)
          <6>1. k \in 1 .. Len(queue) /\ k + 1 \in 1 .. Len(queue)
              BY <2>2
          <6> QED BY <2>2, <6>1 DEF StreamInv, QueueInv
        <5>2. queue'[Len(queue) + 1].rev = Succ(queue'[Len(queue)].rev)
            BY <2>2, <2>6, <3>1 DEF StreamInv, QueueInv
        <5>3. \A k \in 1 .. Len(queue') - 1 :
                 k \in 1 .. Len(queue) - 1 \/ k = Len(queue)
            BY <2>2
        <5> QED BY <5>1, <5>2, <5>3
      <4>3. next_rev' = Succ(queue'[Len(queue')].rev)
          BY <1>2, <2>2
      <4>4. queue'[1].rev = Succ(acked_rev') /\ Len(queue') <= emitted'
          BY <1>2, <2>2, <2>1, <2>6, <3>1 DEF StreamInv, QueueInv
      <4>5. sent_rev' = Newest'
          BY <1>2, <2>2, <2>6, <3>1 DEF StreamInv, QueueInv, Newest
      <4> QED BY <2>2, <4>1, <4>2, <4>3, <4>4, <4>5 DEF QueueInv
    <3>4. ClientInv' /\ UpInv'
        BY <1>2, <2>2, <2>3, <2>4, <2>6, <3>1 DEF StreamInv, ClientInv, UpInv
    <3>5. Level' = Level
        BY <2>2, <2>3, <2>4, <2>6 DEF Level
    <3>6. DownInv'
        BY <2>4, <3>1, <3>5 DEF StreamInv, DownInv
    <3> QED BY <3>2, <3>3, <3>4, <3>6 DEF StreamInv
  <2> QED BY <2>5, <2>6
<1> QED BY <1>1, <1>2 DEF Enqueue

LEMMA ResendStream ==
    ASSUME StreamInv, Resend
    PROVE  StreamInv'
<1>1. /\ queue # <<>> /\ SendHead(queue)
      /\ UNCHANGED <<emitted, acked_rev, next_rev, queue, applied_rev, applied>>
      /\ UNCHANGED <<failed, fast_due, up>>
    BY DEF Resend, clientVars
<1>2. TypeOK'
    BY <1>1, ResendHead DEF StreamInv, TypeOK
<1>3. UpInv'
    BY <1>1 DEF StreamInv, UpInv
<1> QED BY <1>1, <1>2, <1>3, ResendHead DEF StreamInv

\* An acknowledgement removes nothing, or the event the client has just
\* applied: the loop of reliable_ack never runs twice.
LEMMA AckRemoves ==
    ASSUME StreamInv, NEW ack \in {acked_rev, applied_rev},
           NEW n \in 0 .. Len(queue), IsAckedRun(n, ack)
    PROVE  \/ n = 0
           \/ n = 1 /\ queue # <<>> /\ ack = applied_rev /\ ~Level
<1>1. Len(queue) \in Nat /\ (queue # <<>> => Len(queue) >= 1)
    BY LenProperties, EmptySeq DEF StreamInv, TypeOK
<1>2. ASSUME n >= 1, ack = acked_rev
      PROVE  FALSE
  <2>1. Covers(ack, queue[1].rev) /\ queue # <<>>
      BY <1>1, <1>2, EmptySeq DEF IsAckedRun
  <2>2. queue[1].rev = Succ(ack)
      BY <1>2, <2>1 DEF StreamInv, QueueInv
  <2> QED BY <1>2, <2>1, <2>2, CoversNext DEF StreamInv, TypeOK
<1>3. ASSUME n >= 2, ack = applied_rev, queue # <<>>, ack = queue[1].rev
      PROVE  FALSE
  <2>1. Covers(ack, queue[2].rev)
      BY <1>1, <1>3 DEF IsAckedRun
  <2>2. queue[2].rev = Succ(queue[1].rev)
    <3>1. 1 \in 1 .. Len(queue) - 1
        BY <1>1, <1>3
    <3> QED BY <3>1 DEF StreamInv, QueueInv
  <2> QED BY <1>3, <2>1, <2>2, CoversNext DEF StreamInv, TypeOK
<1>4. CASE ack = acked_rev
    BY <1>1, <1>2, <1>4
<1>5. CASE ack # acked_rev
  <2>1. /\ ack = applied_rev /\ queue # <<>> /\ ack = queue[1].rev
        /\ Len(applied) = Removed + 1
      BY <1>5 DEF StreamInv, ClientInv
  <2>2. ~Level
      BY <1>1, <2>1 DEF Level, Removed, StreamInv, TypeOK
  <2> QED BY <1>1, <1>3, <2>1, <2>2
<1> QED BY <1>4, <1>5

\* The queue without its head.
LEMMA DropHead ==
    ASSUME StreamInv, queue # <<>>
    PROVE  LET q == SubSeq(queue, 2, Len(queue))
           IN  /\ q \in Seq(Frame) /\ Len(q) = Len(queue) - 1
               /\ \A k \in 1 .. Len(q) : q[k] = queue[k + 1]
               /\ Len(queue) \in Nat \ {0}
               /\ q # <<>> <=> Len(queue) >= 2
               /\ q # <<>> => Head(q) = q[1]
<1> DEFINE q == SubSeq(queue, 2, Len(queue))
<1>1. Len(queue) \in Nat \ {0}
    BY LenProperties, EmptySeq DEF StreamInv, TypeOK
<1>2. /\ q \in Seq(Frame) /\ Len(q) = Len(queue) - 1
      /\ \A k \in 1 .. Len(q) : q[k] = queue[k + 1]
  <2>1. \A k \in 2 .. Len(queue) : queue[k] \in Frame
      BY ElementOfSeq, <1>1 DEF StreamInv, TypeOK
  <2>2. /\ q \in Seq(Frame)
        /\ Len(q) = IF 2 <= Len(queue) THEN Len(queue) - 2 + 1 ELSE 0
        /\ \A k \in 1 .. Len(queue) - 2 + 1 : q[k] = queue[2 + k - 1]
      BY <1>1, <2>1, SubSeqProperties
  <2>3. Len(q) = Len(queue) - 1
      BY <1>1, <2>2
  <2>4. \A k \in 1 .. Len(q) : k \in 1 .. Len(queue) - 2 + 1 /\ 2 + k - 1 = k + 1
      BY <1>1, <2>3
  <2> HIDE DEF q
  <2> QED BY <2>2, <2>3, <2>4
<1>3. q # <<>> <=> Len(queue) >= 2
    BY <1>1, <1>2, EmptySeq
<1> QED BY <1>1, <1>2, <1>3

LEMMA ReceiveAckStream ==
    ASSUME StreamInv, ReceiveAck
    PROVE  StreamInv'
<1> DEFINE ack == Head(up)
<1>1. /\ ack \in {acked_rev, applied_rev} /\ up' \in Seq(Rev)
      /\ AcksOk(up', acked_rev, applied_rev)
      /\ ack = applied_rev => AcksOk(up', applied_rev, applied_rev)
    BY TakeAck DEF ReceiveAck, StreamInv, TypeOK, UpInv
<1>2. UNCHANGED <<emitted, next_rev, failed, applied_rev, applied>>
    BY DEF ReceiveAck, clientVars
<1>3. CASE UNCHANGED <<acked_rev, sent_rev, queue, timerVars, down>>
  <2>1. TypeOK'
      BY <1>1, <1>2, <1>3 DEF StreamInv, TypeOK, timerVars
  <2>2. QueueInv' /\ ClientInv' /\ DownInv' /\ UpInv'
      BY <1>1, <1>2, <1>3 DEF StreamInv, QueueInv, ClientInv, DownInv, UpInv,
                              Removed, Newest, Level
  <2> QED BY <2>1, <2>2 DEF StreamInv
<1>4. CASE IsFastResend(ack) /\ SendHead(queue) /\ fast_due' = FALSE
           /\ UNCHANGED <<acked_rev, queue>>
  <2>1. queue # <<>>
      BY <1>4 DEF IsFastResend
  <2>2. /\ down' \in Seq(Frame) /\ DownInv'
        /\ sent_rev' \in Rev /\ resend_due' \in BOOLEAN
        /\ QueueInv' /\ ClientInv'
      BY <1>2, <1>4, <2>1, ResendHead
  <2>3. fast_due' \in BOOLEAN
      BY <1>4
  <2>4. TypeOK'
      BY <1>1, <1>2, <1>4, <2>2, <2>3 DEF StreamInv, TypeOK
  <2>5. UpInv'
      BY <1>1, <1>2, <1>4 DEF UpInv
  <2> QED BY <2>2, <2>4, <2>5 DEF StreamInv
<1>5. ASSUME NEW n \in 0 .. Len(queue), IsAckedRun(n, ack),
             queue' = SubSeq(queue, n + 1, Len(queue)),
             acked_rev' = IF n = 0 THEN acked_rev ELSE queue[n].rev,
             \/ queue' # <<>> /\ SendHead(queue')
             \/ queue' = <<>> /\ UNCHANGED <<sent_rev, resend_due, down>>,
             UNCHANGED fast_due
      PROVE  StreamInv'
  <2>1. \/ n = 0
        \/ n = 1 /\ queue # <<>> /\ ack = applied_rev /\ ~Level
      BY <1>1, <1>5, AckRemoves
  <2>2. Len(queue) \in Nat
      BY LenProperties DEF StreamInv, TypeOK
  <2>3. CASE n = 0
    <3>1. queue' = queue /\ acked_rev' = acked_rev
      <4>1. SubSeq(queue, 1, Len(queue)) = queue
          BY <2>2, SubSeqProperties DEF StreamInv, TypeOK
      <4> QED BY <1>5, <2>3, <4>1
    <3>2. CASE queue = <<>>
      <4>1. UNCHANGED <<sent_rev, resend_due, down>>
          BY <1>5, <3>1, <3>2
      <4>2. TypeOK'
          BY <1>1, <1>2, <1>5, <3>1, <4>1 DEF StreamInv, TypeOK
      <4>3. QueueInv' /\ ClientInv' /\ DownInv' /\ UpInv'
          BY <1>1, <1>2, <3>1, <4>1 DEF StreamInv, QueueInv, ClientInv, DownInv,
                                        UpInv, Removed, Newest, Level
      <4> QED BY <4>2, <4>3 DEF StreamInv
    <3>3. CASE queue # <<>>
      <4>1. SendHead(queue)
          BY <1>5, <3>1, <3>3
      <4>2. /\ down' \in Seq(Frame) /\ DownInv'
            /\ sent_rev' \in Rev /\ resend_due' \in BOOLEAN
            /\ QueueInv' /\ ClientInv'
          BY <1>2, <3>1, <3>3, <4>1, ResendHead
      <4>3. TypeOK'
          BY <1>1, <1>2, <1>5, <3>1, <4>2 DEF StreamInv, TypeOK
      <4>4. UpInv'
          BY <1>1, <1>2, <3>1 DEF UpInv
      <4> QED BY <4>2, <4>3, <4>4 DEF StreamInv
    <3> QED BY <3>2, <3>3
  <2>4. CASE n = 1 /\ queue # <<>> /\ ack = applied_rev /\ ~Level
    <3>1. /\ queue' = SubSeq(queue, 2, Len(queue))
          /\ acked_rev' = queue[1].rev
        BY <1>5, <2>4
    <3>2. /\ queue' \in Seq(Frame) /\ Len(queue') = Len(queue) - 1
          /\ \A k \in 1 .. Len(queue') : queue'[k] = queue[k + 1]
          /\ Len(queue) \in Nat \ {0}
          /\ queue' # <<>> <=> Len(queue) >= 2
          /\ queue' # <<>> => Head(queue') = queue'[1]
        BY <2>4, <3>1, DropHead
    <3>3. /\ Len(applied) \in Nat /\ queue[1].event = Len(applied)
          /\ queue[1].rev = applied_rev
        BY <2>4, HeadIsDue
    <3>4. /\ emitted \in Nat /\ Removed \in Int
          /\ Removed' = Removed + 1 /\ Len(applied) = Removed + 1
      <4>1. emitted \in Nat
          BY DEF StreamInv, TypeOK
      <4>2. queue[1].event = Removed + 1
          BY <3>2 DEF StreamInv, QueueInv
      <4> QED BY <1>2, <3>2, <3>3, <4>1, <4>2 DEF Removed
    <3>5. acked_rev' = applied_rev /\ applied_rev \in Rev
        BY <3>1, <3>3 DEF StreamInv, TypeOK
    <3>6. ClientInv'
        BY <1>2, <3>4, <3>5 DEF ClientInv
    <3>7. UpInv'
        BY <1>1, <1>2, <2>4, <3>5 DEF UpInv
    <3>8. /\ \A k \in 1 .. Len(queue') : queue'[k].event = Removed' + k
          /\ \A k \in 1 .. Len(queue') - 1 : queue'[k + 1].rev = Succ(queue'[k].rev)
          /\ queue' # <<>> => queue'[1].rev = Succ(acked_rev')
      <4>1. ASSUME NEW k \in 1 .. Len(queue')
            PROVE  queue'[k].event = Removed' + k
        <5>1. k + 1 \in 1 .. Len(queue)
            BY <3>2
        <5>2. queue[k + 1].event = Removed + (k + 1)
            BY <5>1 DEF StreamInv, QueueInv
        <5>3. Removed + (k + 1) = Removed' + k
            BY <3>4
        <5> QED BY <3>2, <5>2, <5>3
      <4>2. ASSUME NEW k \in 1 .. Len(queue') - 1
            PROVE  queue'[k + 1].rev = Succ(queue'[k].rev)
        <5>1. /\ k + 1 \in 1 .. Len(queue) - 1 /\ k \in 1 .. Len(queue')
              /\ k + 1 \in 1 .. Len(queue')
            BY <3>2
        <5>2. queue[(k + 1) + 1].rev = Succ(queue[k + 1].rev)
            BY <5>1 DEF StreamInv, QueueInv
        <5> QED BY <3>2, <5>1, <5>2
      <4>3. ASSUME queue' # <<>>
            PROVE  queue'[1].rev = Succ(acked_rev')
        <5>1. 1 \in 1 .. Len(queue) - 1 /\ 1 \in 1 .. Len(queue')
            BY <3>2, <4>3
        <5>2. queue[1 + 1].rev = Succ(queue[1].rev)
            BY <5>1 DEF StreamInv, QueueInv
        <5> QED BY <3>1, <3>2, <5>1, <5>2
      <4> QED BY <4>1, <4>2, <4>3
    <3>9. next_rev' = IF queue' = <<>> THEN Succ(acked_rev')
                      ELSE Succ(queue'[Len(queue')].rev)
      <4>1. next_rev = Succ(queue[Len(queue)].rev)
          BY <2>4 DEF StreamInv, QueueInv
      <4>2. CASE queue' = <<>>
        <5>1. Len(queue) = 1
            BY <3>2, <4>2
        <5> QED BY <1>2, <3>1, <4>1, <4>2, <5>1
      <4>3. CASE queue' # <<>>
        <5>1. Len(queue') \in 1 .. Len(queue') /\ Len(queue') + 1 = Len(queue)
            BY <3>2, <4>3
        <5> QED BY <1>2, <3>2, <4>1, <4>3, <5>1
      <4> QED BY <4>2, <4>3
    <3>10. FramesOk(down, Len(applied), applied_rev, FALSE)
        BY <2>4 DEF StreamInv, DownInv, Level
    <3>10a. /\ emitted' \in 0 .. MaxEvents /\ next_rev' \in Rev /\ acked_rev' \in Rev
            /\ queue' \in Seq(Frame) /\ Len(queue') <= RELIABLE_QUEUE_MAX
            /\ fast_due' \in BOOLEAN /\ failed' \in BOOLEAN /\ up' \in Seq(Rev)
            /\ applied_rev' \in Rev /\ applied' \in Seq(Event)
      <4>1. Len(queue) <= RELIABLE_QUEUE_MAX /\ RELIABLE_QUEUE_MAX \in Nat
          BY DEF StreamInv, TypeOK
      <4>2. Len(queue') <= RELIABLE_QUEUE_MAX
          BY <3>2, <4>1
      <4> QED BY <1>1, <1>2, <1>5, <3>2, <3>5, <4>2 DEF StreamInv, TypeOK
    <3>11. CASE queue' = <<>>
      <4>1. UNCHANGED <<sent_rev, resend_due, down>> /\ ~Level'
          BY <1>5, <3>11 DEF Level
      <4>2. sent_rev' = Newest'
          BY <2>4, <3>1, <3>11, <4>1 DEF StreamInv, QueueInv, Newest
      <4>3. QueueInv'
          BY <1>2, <3>2, <3>4, <3>8, <3>9, <4>2 DEF QueueInv, StreamInv
      <4>4. DownInv'
          BY <1>2, <3>10, <4>1 DEF DownInv, Level
      <4>5. TypeOK'
        <5>1. sent_rev' \in Rev /\ resend_due' \in BOOLEAN /\ down' \in Seq(Frame)
            BY <4>1 DEF StreamInv, TypeOK
        <5> QED BY <3>10a, <5>1 DEF TypeOK
      <4> QED BY <3>6, <3>7, <4>3, <4>4, <4>5 DEF StreamInv
    <3>12. CASE queue' # <<>>
      <4>1. /\ Put(down, down', queue'[1]) /\ sent_rev' = queue'[1].rev
            /\ resend_due' = FALSE
          BY <1>5, <3>2, <3>12 DEF SendHead
      <4>2. 1 \in 1 .. Len(queue')
          BY <3>2, <3>12
      <4>3. /\ queue'[1] \in Frame /\ queue'[1].event = Len(applied) + 1
            /\ queue'[1].rev = Succ(applied_rev)
        <5>1. queue'[1] \in Frame
            BY <3>2, <4>2, ElementOfSeq
        <5>2. queue'[1].event = Removed' + 1
            BY <3>8, <4>2
        <5>3. queue'[1].rev = Succ(applied_rev)
            BY <3>5, <3>8, <3>12
        <5> QED BY <3>4, <5>1, <5>2, <5>3
      <4>4. Level'
          BY <1>2, <3>4, <3>12 DEF Level
      <4>5. /\ down' \in Seq(Frame)
            /\ FramesOk(down', Len(applied), applied_rev, TRUE)
        <5>1. FramesOk(down, Len(applied), applied_rev, TRUE)
            BY <3>10, FramesOfLevel
        <5>2. PICK b \in BOOLEAN : b
            OBVIOUS
        <5>3. FramesOk(down, Len(applied), applied_rev, b)
          <6>1. b = TRUE
              BY <5>2
          <6> QED BY <5>1, <6>1, Zenon
        <5>4. /\ down' \in Seq(Frame)
              /\ FramesOk(down', Len(applied), applied_rev, b)
          <6>1. PICK f : f = queue'[1]
              OBVIOUS
          <6>2. PICK e : e = down'
              OBVIOUS
          <6>3. Put(down, e, f)
              BY <4>1, <6>1, <6>2
          <6>4. f \in Frame /\ f.event = Len(applied) + 1 /\ f.rev = Succ(applied_rev)
              BY <4>3, <6>1
          <6>5. down \in Seq(Frame) /\ Len(applied) \in Nat
              BY <3>3 DEF StreamInv, TypeOK
          <6>6. e \in Seq(Frame) /\ FramesOk(e, Len(applied), applied_rev, b)
              BY <5>2, <5>3, <6>3, <6>4, <6>5, PutFrame
          <6> QED BY <6>2, <6>6, Zenon
        <5>5. b = TRUE
            BY <5>2
        <5> QED BY <5>4, <5>5, Zenon
      <4>6. DownInv'
        <5>1. Level' = TRUE
            BY <4>4 DEF Level
        <5> QED BY <1>2, <4>5, <5>1 DEF DownInv
      <4>7. sent_rev' = Newest'
          BY <3>12, <4>1 DEF Newest
      <4>8. QueueInv'
          BY <1>2, <3>2, <3>4, <3>8, <3>9, <4>7 DEF QueueInv, StreamInv
      <4>9. sent_rev' \in Rev /\ resend_due' \in BOOLEAN
          BY <4>1, <4>3 DEF Frame
      <4>10. TypeOK'
          BY <3>10a, <4>5, <4>9 DEF TypeOK
      <4> QED BY <3>6, <3>7, <4>6, <4>8, <4>10 DEF StreamInv
    <3> QED BY <3>11, <3>12
  <2> QED BY <2>1, <2>3, <2>4
<1> QED BY <1>3, <1>4, <1>5 DEF ReceiveAck

LEMMA ReceiveEventStream ==
    ASSUME StreamInv, ReceiveEvent
    PROVE  StreamInv'
<1> DEFINE f == Head(down)
<1>1. /\ UNCHANGED <<emitted, next_rev, acked_rev, sent_rev, queue, failed>>
      /\ UNCHANGED <<resend_due, fast_due>>
    BY DEF ReceiveEvent, serverVars, timerVars
<1>2. /\ f = down[1] /\ f \in Frame /\ down' \in Seq(Frame)
      /\ FramesOk(down', Len(applied), applied_rev, Level)
      /\ \A k \in 1 .. Len(down') : f.event <= down'[k].event
      /\ 1 \in 1 .. Len(down)
  <2>1. 1 \in 1 .. Len(down)
      BY LenProperties, EmptySeq DEF ReceiveEvent, StreamInv, TypeOK
  <2> QED BY <2>1, TakeFrame DEF ReceiveEvent, StreamInv, TypeOK, DownInv
<1>3. \/ f.event = Len(applied) /\ f.rev = applied_rev
      \/ Level /\ f.event = Len(applied) + 1 /\ f.rev = Succ(applied_rev)
    BY <1>2 DEF StreamInv, DownInv, FramesOk
<1>4. Removed' = Removed /\ QueueInv'
    BY <1>1 DEF StreamInv, QueueInv, Removed, Newest
<1>5. CASE /\ IsNextRev(f.rev)
           /\ applied_rev' = f.rev
           /\ applied' = Append(applied, f.event)
           /\ Reply(f.rev)
  <2>1. /\ Level /\ f.event = Len(applied) + 1 /\ f.rev = Succ(applied_rev)
        /\ f.rev \in Rev /\ f.event \in Event
    <3>1. Succ(applied_rev) # applied_rev
        BY SuccIsRev DEF StreamInv, TypeOK
    <3> QED BY <1>2, <1>3, <1>5, <3>1 DEF IsNextRev, Frame
  <2>2. /\ applied' \in Seq(Event) /\ Len(applied') = Len(applied) + 1
        /\ Len(applied) \in Nat
      BY <1>5, <2>1, AppendProperties, LenProperties DEF StreamInv, TypeOK
  <2>3. /\ Len(applied) = Removed /\ queue # <<>> /\ applied_rev = acked_rev
    <3>1. Removed \in Int /\ Len(applied) = Removed /\ queue # <<>>
        BY <2>1, <2>2 DEF Level
    <3> QED BY <3>1 DEF StreamInv, ClientInv
  <2>4. applied_rev' = queue[1].rev
      BY <1>5, <2>1, <2>3 DEF StreamInv, QueueInv
  <2>5. ClientInv' /\ ~Level'
      BY <1>1, <1>4, <2>2, <2>3, <2>4 DEF ClientInv, Level
  <2>6. FramesOk(down', Len(applied'), applied_rev', FALSE)
    <3>1. ASSUME NEW k \in 1 .. Len(down')
          PROVE  down'[k].event = Len(applied') /\ down'[k].rev = applied_rev'
      <4>1. down'[k].event >= Len(applied) + 1
          BY <1>2, <2>1, <2>2, <3>1, ElementOfSeq DEF Frame, Event
      <4>2. down'[k].event # Len(applied)
          BY <2>2, <4>1
      <4> QED BY <1>2, <1>5, <2>1, <2>2, <3>1, <4>2 DEF FramesOk
    <3> QED BY <2>2, <3>1 DEF FramesOk
  <2>7. DownInv'
      BY <2>5, <2>6 DEF DownInv, Level
  <2>8. up' \in Seq(Rev) /\ UpInv'
    <3>1. \A k \in 1 .. Len(up) : up[k] = acked_rev
        BY <2>3 DEF StreamInv, UpInv, AcksOk
    <3>2. f.rev # acked_rev
        BY <2>1, <2>3, SuccIsRev DEF StreamInv, TypeOK
    <3>3. AcksOk(up, acked_rev, f.rev)
        BY <3>1, <3>2 DEF AcksOk
    <3>4. up' \in Seq(Rev) /\ AcksOk(up', acked_rev, f.rev)
        BY <1>5, <2>1, <3>3, PutAck DEF Reply, StreamInv, TypeOK
    <3> QED BY <1>1, <1>5, <3>4 DEF UpInv
  <2>9. TypeOK'
      BY <1>1, <1>2, <1>5, <2>1, <2>2, <2>8 DEF StreamInv, TypeOK
  <2> QED BY <1>4, <2>5, <2>7, <2>8, <2>9 DEF StreamInv
<1>6. CASE UNCHANGED clientVars /\ Reply(applied_rev)
  <2>1. UNCHANGED <<applied_rev, applied>>
      BY <1>6 DEF clientVars
  <2>2. up' \in Seq(Rev) /\ AcksOk(up', acked_rev, applied_rev)
      BY <1>6, PutAck DEF Reply, StreamInv, TypeOK, UpInv
  <2>3. TypeOK'
      BY <1>1, <1>2, <2>1, <2>2 DEF StreamInv, TypeOK
  <2>4. ClientInv' /\ DownInv' /\ UpInv'
      BY <1>1, <1>2, <2>1, <2>2 DEF StreamInv, ClientInv, DownInv, UpInv,
                                    Level, Removed
  <2> QED BY <1>4, <2>3, <2>4 DEF StreamInv
<1> QED BY <1>5, <1>6 DEF ReceiveEvent

LEMMA TimerStream ==
    ASSUME StreamInv, TimerElapses
    PROVE  StreamInv'
<1>1. /\ UNCHANGED <<emitted, next_rev, acked_rev, sent_rev, queue, failed>>
      /\ UNCHANGED <<down, up, applied_rev, applied>>
    BY DEF TimerElapses, serverVars, clientVars
<1>2. resend_due' \in BOOLEAN /\ fast_due' \in BOOLEAN
    BY DEF TimerElapses, StreamInv, TypeOK
<1>3. TypeOK'
    BY <1>1, <1>2 DEF StreamInv, TypeOK
<1>4. QueueInv' /\ ClientInv' /\ DownInv' /\ UpInv'
    BY <1>1 DEF StreamInv, QueueInv, ClientInv, DownInv, UpInv, Removed, Newest,
                Level
<1> QED BY <1>3, <1>4 DEF StreamInv

\* A new connection starts as the first one did.
LEMMA ReconnectStream ==
    ASSUME Reconnect
    PROVE  StreamInv'
<1>1. /\ queue' \in Seq(Frame) /\ down' \in Seq(Frame)
      /\ up' \in Seq(Rev) /\ applied' \in Seq(Event)
    BY EmptySeq DEF Reconnect
<1>2. /\ Len(queue') = 0 /\ Len(down') = 0
      /\ Len(up') = 0 /\ Len(applied') = 0
    BY EmptySeq DEF Reconnect
<1>3. /\ emitted' = 0 /\ next_rev' = 1 /\ acked_rev' = 0 /\ sent_rev' = 0
      /\ applied_rev' = 0
      /\ resend_due' \in BOOLEAN /\ fast_due' \in BOOLEAN /\ failed' \in BOOLEAN
      /\ queue' = <<>>
    BY DEF Reconnect
<1>4. TypeOK'
    BY <1>1, <1>2, <1>3 DEF TypeOK, Rev
<1>5. QueueInv' /\ ClientInv'
  <2>1. Removed' = 0 /\ Newest' = 0 /\ Succ(0) = 1
      BY <1>2, <1>3 DEF Removed, Newest, Succ
  <2> QED BY <1>2, <1>3, <2>1 DEF QueueInv, ClientInv
<1>6. DownInv' /\ UpInv'
    BY <1>2, <1>3 DEF DownInv, UpInv, FramesOk, AcksOk
<1> QED BY <1>4, <1>5, <1>6 DEF StreamInv

LEMMA StepStream == StreamInv /\ [Next]_vars => StreamInv'
<1> SUFFICES ASSUME StreamInv, [Next]_vars PROVE StreamInv'
    OBVIOUS
<1>1. CASE Next
    BY <1>1, EnqueueStream, ResendStream, ReceiveAckStream, ReceiveEventStream,
       TimerStream, ReconnectStream DEF Next
<1>2. CASE UNCHANGED vars
  <2>1. /\ UNCHANGED <<emitted, next_rev, acked_rev, sent_rev, queue, failed>>
        /\ UNCHANGED <<resend_due, fast_due, down, up, applied_rev, applied>>
      BY <1>2 DEF vars, serverVars, timerVars, clientVars
  <2>2. TypeOK'
      BY <2>1 DEF StreamInv, TypeOK
  <2>3. QueueInv' /\ ClientInv' /\ DownInv' /\ UpInv'
      BY <2>1 DEF StreamInv, QueueInv, ClientInv, DownInv, UpInv, Removed,
                  Newest, Level
  <2> QED BY <2>2, <2>3 DEF StreamInv
<1> QED BY <1>1, <1>2

----------------------------------------------------------------------------
(* Theorems                                                                *)

\* The channels hold nothing but the last event applied and the next one.
THEOREM StreamInvariance == Spec => []StreamInv
    BY InitStream, StepStream, PTL DEF Spec

\* Every variable of the stream keeps its type; the queue keeps its bound.
THEOREM StreamTypeCorrect == Spec => []TypeOK
<1>1. StreamInv => TypeOK
    BY DEF StreamInv
<1> QED BY <1>1, StreamInvariance, PTL

\* An event leaves reliable_q only after the client has applied it.
THEOREM AckedMeansAppliedCorrect == Spec => []AckedMeansApplied
<1>1. StreamInv => AckedMeansApplied
  <2> SUFFICES ASSUME StreamInv PROVE AckedMeansApplied
      OBVIOUS
  <2>1. /\ Len(applied) \in Nat /\ Len(queue) \in Nat /\ emitted \in Nat
      BY LenProperties DEF StreamInv, TypeOK
  <2> QED BY <2>1 DEF StreamInv, ClientInv, Removed, AckedMeansApplied
<1> QED BY <1>1, StreamInvariance, PTL

\* No frame under way is newer than the oldest unacknowledged event.
THEOREM StopAndWaitCorrect == Spec => []StopAndWait
<1>1. StreamInv => StopAndWait
  <2> SUFFICES ASSUME StreamInv, NEW k \in 1 .. Len(down)
               PROVE  down[k].event <= emitted - Len(queue) + 1
      BY DEF StopAndWait
  <2>1. /\ Len(applied) \in Nat /\ Len(queue) \in Nat /\ emitted \in Nat
      BY LenProperties DEF StreamInv, TypeOK
  <2>2. \/ down[k].event = Len(applied)
        \/ Level /\ down[k].event = Len(applied) + 1
      BY DEF StreamInv, DownInv, FramesOk
  <2> QED BY <2>1, <2>2 DEF StreamInv, ClientInv, Level, Removed
<1> QED BY <1>1, StreamInvariance, PTL

\* The stream implements EventStream: whatever is lost, sent again or
\* acknowledged twice, the client applies the emitted events in order, each
\* once.
THEOREM PromiseKept == Spec => EventStreamPromise
<1>1. Init => E!Init
    BY DEF Init, E!Init
<1>2. StreamInv /\ [Next]_vars => [E!Next]_<<emitted, applied>>
  <2> SUFFICES ASSUME StreamInv, [Next]_vars
               PROVE  [E!Next]_<<emitted, applied>>
      OBVIOUS
  <2>1. CASE Enqueue
      BY <2>1 DEF Enqueue, clientVars, E!Next, E!Emit
  <2>2. CASE Resend
      BY <2>2 DEF Resend, clientVars
  <2>3. CASE ReceiveAck
      BY <2>3 DEF ReceiveAck, clientVars
  <2>4. CASE ReceiveEvent
    <3>1. UNCHANGED emitted
        BY <2>4 DEF ReceiveEvent
    <3>2. CASE UNCHANGED clientVars
        BY <3>1, <3>2 DEF clientVars
    <3>3. CASE IsNextRev(Head(down).rev) /\ applied' = Append(applied, Head(down).event)
      <4>1. 1 \in 1 .. Len(down) /\ Head(down) = down[1]
          BY <2>4, LenProperties, EmptySeq, TakeFrame
          DEF ReceiveEvent, StreamInv, TypeOK, DownInv
      <4>2. applied_rev # Succ(applied_rev)
          BY SuccIsRev DEF StreamInv, TypeOK
      <4>3. Level /\ Head(down).event = Len(applied) + 1
          BY <3>3, <4>1, <4>2 DEF StreamInv, DownInv, FramesOk, IsNextRev
      <4>4. Len(applied) \in Nat /\ Len(queue) \in Nat \ {0} /\ emitted \in Nat
          BY <4>3, LenProperties, EmptySeq DEF StreamInv, TypeOK, Level
      <4>5. Len(applied) < emitted
          BY <4>3, <4>4 DEF Level, Removed
      <4> QED BY <3>1, <3>3, <4>3, <4>5 DEF E!Next, E!Apply
    <3> QED BY <2>4, <3>2, <3>3 DEF ReceiveEvent
  <2>5. CASE TimerElapses
      BY <2>5 DEF TimerElapses, clientVars
  <2>6. CASE Reconnect
      BY <2>6 DEF Reconnect, E!Next, E!Restart
  <2>7. CASE UNCHANGED vars
      BY <2>7 DEF vars, clientVars
  <2> QED BY <2>1, <2>2, <2>3, <2>4, <2>5, <2>6, <2>7 DEF Next
<1> QED BY <1>1, <1>2, StreamInvariance, PTL DEF Spec, EventStreamPromise, E!Spec
=============================================================================
