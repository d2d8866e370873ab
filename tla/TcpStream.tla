----------------------------- MODULE TcpStream -----------------------------
(***************************************************************************)
(* One direction of one connection, byte by byte: send_frame puts a packet *)
(* with its CRC into a COBS frame, tcp_tx keeps what the socket does not   *)
(* take, and the receiver cuts the stream at the zero delimiters again.    *)
(*                                                                         *)
(* The socket takes as many bytes as it likes, or fails.  Between the      *)
(* network adapter and the Atari a byte may be lost, gained or changed.    *)
(*                                                                         *)
(* The CRC is ideal: it is one symbol, another one for every packet and    *)
(* one more for whatever is no packet, so the one damaged frame in 65536   *)
(* that passes is left out.                                                *)
(***************************************************************************)
EXTENDS Integers, Sequences, FiniteSets, Functions

CONSTANTS
    Packets,    \* the packets to send, all different
    CodeMax,    \* 0xFF in the code: the COBS block that ends without a zero
    FrameMax,   \* sizeof frame: 64 in the code
    TxCap,      \* TCP_TX_CAP: 4096 in the code
    PipeMax,    \* bound: bytes under way
    DamageMax   \* bound: damaged bytes

ASSUME StreamAssumption ==
    /\ CodeMax \in Nat
    /\ CodeMax > 2
    /\ {FrameMax, TxCap, PipeMax} \subseteq Nat \ {0}
    /\ DamageMax \in Nat
    /\ IsInjective(Packets)

\* What a changed or a gained byte may be.
Byte == 0 .. CodeMax

\* A packet is bytes, at least one: a receiver drops an empty one.
ASSUME PacketsAssumption ==
    /\ Packets \in Seq(Seq(Byte))
    /\ \A k \in DOMAIN Packets : Packets[k] # <<>>

VARIABLES
    queued,       \* how many packets tcp_tx_queue was given
    tx,           \* struct tcp_tx
    put,          \* history: the bytes the socket took
    pipe,         \* the bytes under way
    rx,           \* the receiver's frame and discarding
    delivered,    \* the packets it returned, by number
    damaged       \* how many bytes were damaged

vars == <<queued, tx, put, pipe, rx, delivered, damaged>>

----------------------------------------------------------------------------
(* Frames                                                                  *)

NumberOf(p) == CHOOSE k \in DOMAIN Packets : Packets[k] = p

\* crc16_ccitt_false.
Crc(p) ==
    CodeMax + (IF p \in Range(Packets) THEN NumberOf(p) ELSE Len(Packets) + 1)

Checked(p) == Append(p, Crc(p))

\* The blocks so far, and the open one behind its code.
Closed(s) == s.done \o <<Len(s.block) + 1>> \o s.block

\* A block whose code reaches CodeMax ends without a zero behind it.
EncodeByte(s, b) ==
    LET grown == [s EXCEPT !.block = Append(s.block, b)]
    IN  CASE b = 0 -> [done |-> Closed(s), block |-> <<>>]
          [] b # 0 /\ Len(grown.block) + 1 # CodeMax -> grown
          [] OTHER -> [done |-> Closed(grown), block |-> <<>>]

\* rd goes over the raw bytes.
Encoded(raw) ==
    LET upto[rd \in 0 .. Len(raw)] ==
            IF rd = 0 THEN [done |-> <<>>, block |-> <<>>]
            ELSE EncodeByte(upto[rd - 1], raw[rd])
    IN  upto[Len(raw)]

\* The slip of forgetting the last code.
CobsEncode_Open(raw) == Encoded(raw).done \o <<0>> \o Encoded(raw).block

CobsEncode(raw) == Closed(Encoded(raw))

Framed(p) == Append(CobsEncode(Checked(p)), 0)

\* The longest packet, a BRICK_FULL event, makes 59 bytes; frame has 64.
ASSUME FramesFit ==
    \A k \in DOMAIN Packets : Len(CobsEncode(Checked(Packets[k]))) <= FrameMax

\* One encoded byte: a code when the block is complete, else data.
DecodeByte(s, b) ==
    IF s.left = 0
    THEN [left |-> b - 1, zero |-> b # CodeMax,
          out |-> IF s.zero THEN Append(s.out, 0) ELSE s.out]
    ELSE [s EXCEPT !.left = s.left - 1, !.out = Append(s.out, b)]

\* rd goes over the frame.
Decoded(frame) ==
    LET upto[rd \in 0 .. Len(frame)] ==
            IF rd = 0 THEN [left |-> 0, zero |-> FALSE, out |-> <<>>]
            ELSE DecodeByte(upto[rd - 1], frame[rd])
    IN  upto[Len(frame)]

Payload(out) == SubSeq(out, 1, Len(out) - 1)

\* The slip of trusting the delimiters alone.
IsFrame_Unchecked(s) == s.left = 0 /\ Len(s.out) >= 2

\* Complete, long enough and with the right CRC.
IsFrame(s) ==
    /\ s.left = 0
    /\ Len(s.out) >= 2
    /\ s.out = Checked(Payload(s.out))

Empty == [frame |-> <<>>, discarding |-> FALSE]

Collected(r, b) ==
    IF Len(r.frame) = FrameMax THEN [r EXCEPT !.discarding = TRUE]
    ELSE [r EXCEPT !.frame = Append(r.frame, b)]

\* The slip of discarding for ever.
Restarted_Deaf(r) == [r EXCEPT !.frame = <<>>]

Restarted(r) == Empty

\* tcp_frame_push_byte: the receiver after one byte, and the packet it returns.
Push(r, b) ==
    LET s == Decoded(r.frame)
    IN  CASE b # 0 /\ r.discarding  -> [rx |-> r, got |-> <<>>]
          [] b # 0 /\ ~r.discarding -> [rx |-> Collected(r, b), got |-> <<>>]
          [] b = 0 /\ ~r.discarding /\ IsFrame(s) ->
               [rx |-> Restarted(r), got |-> Payload(s.out)]
          [] OTHER -> [rx |-> Restarted(r), got |-> <<>>]

----------------------------------------------------------------------------
(* The transmit buffer                                                     *)

Buffer(bytes, fails) == [data |-> bytes, failed |-> fails]

\* send in tcp_tx_flush: the socket takes the first n bytes, and may fail.
Drained(t, n, fails) == Buffer(SubSeq(t.data, n + 1, Len(t.data)), fails)

\* The slip of appending what still fits of a frame.
Appended_Cut(t, frame) ==
    LET free == TxCap - Len(t.data)
    IN  [t EXCEPT !.data = t.data \o IF Len(frame) <= free THEN frame
                                     ELSE SubSeq(frame, 1, free)]

\* The overflow test of tcp_tx_queue: a frame goes in whole, or the stream
\* ends here.
Appended(t, frame) ==
    IF Len(t.data) + Len(frame) > TxCap THEN Buffer(t.data, TRUE)
    ELSE Buffer(t.data \o frame, t.failed)

\* The bytes of a packet taken so far go on the wire.
Takes(t, n) ==
    /\ n <= Len(t.data)
    /\ Len(pipe) + n <= PipeMax

Moved(t, n) == SubSeq(t.data, 1, n)

\* tcp_tx_flush, when the socket has room again.
Flush ==
    /\ ~tx.failed
    /\ tx.data # <<>>
    /\ \E n \in 0 .. PipeMax, fails \in BOOLEAN :
        /\ Takes(tx, n)
        /\ tx' = Drained(tx, n, fails)
        /\ put' = put \o Moved(tx, n)
        /\ pipe' = pipe \o Moved(tx, n)
    /\ UNCHANGED <<queued, rx, delivered, damaged>>

\* tcp_tx_queue: flush, append, flush.
Queue ==
    /\ queued < Len(Packets)
    /\ ~tx.failed
    /\ queued' = queued + 1
    /\ \E n, m \in 0 .. PipeMax, fails \in BOOLEAN :
        /\ Takes(tx, n)
        /\ LET early == Drained(tx, n, FALSE)
               full == Appended(early, Framed(Packets[queued + 1]))
               bytes == Moved(tx, n) \o Moved(full, m)
           IN  /\ m <= Len(full.data)
               /\ full.failed => m = 0
               /\ n + m + Len(pipe) <= PipeMax
               /\ tx' = IF full.failed THEN full ELSE Drained(full, m, fails)
               /\ put' = put \o bytes
               /\ pipe' = pipe \o bytes
    /\ UNCHANGED <<rx, delivered, damaged>>

----------------------------------------------------------------------------
(* The receiver                                                            *)

\* A packet nobody sent counts as number 0.
Delivery(p) ==
    CASE p = <<>> -> <<>>
      [] p # <<>> /\ p \in Range(Packets) -> <<NumberOf(p)>>
      [] OTHER -> <<0>>

\* One turn of the loop of tcp_recv_frame.
Receive ==
    /\ pipe # <<>>
    /\ LET after == Push(rx, Head(pipe))
       IN  /\ rx' = after.rx
           /\ delivered' = delivered \o Delivery(after.got)
    /\ pipe' = Tail(pipe)
    /\ UNCHANGED <<queued, tx, put, damaged>>

\* The serial line loses, gains or changes the byte that comes next.
Damage ==
    /\ damaged < DamageMax
    /\ pipe # <<>>
    /\ damaged' = damaged + 1
    /\ \/ pipe' = Tail(pipe)
       \/ \E b \in Byte : Len(pipe) < PipeMax /\ pipe' = <<b>> \o pipe
       \/ \E b \in Byte \ {Head(pipe)} : pipe' = <<b>> \o Tail(pipe)
    /\ UNCHANGED <<queued, tx, put, rx, delivered>>

Init ==
    /\ queued = 0
    /\ tx = Buffer(<<>>, FALSE)
    /\ put = <<>>
    /\ pipe = <<>>
    /\ rx = Empty
    /\ delivered = <<>>
    /\ damaged = 0

Idle ==
    /\ pipe = <<>>
    /\ tx.failed \/ (tx.data = <<>> /\ queued = Len(Packets))
    /\ UNCHANGED vars

Next ==
    \/ Queue
    \/ Flush
    \/ Receive
    \/ Damage
    \/ Idle

Spec == Init /\ [][Next]_vars

\* poll reports room in the socket again and again, and what arrived is read.
Fairness ==
    /\ WF_pipe(pipe # <<>> /\ pipe' = Tail(pipe))
    /\ SF_vars(Len(pipe) < PipeMax /\ Flush /\ Len(put') > Len(put))

FairSpec == Spec /\ Fairness

----------------------------------------------------------------------------
(* Properties                                                              *)

TypeOK ==
    /\ queued \in 0 .. Len(Packets)
    /\ Len(tx.data) <= TxCap
    /\ tx.failed \in BOOLEAN
    /\ Len(pipe) <= PipeMax
    /\ Len(rx.frame) <= FrameMax
    /\ 0 \notin Range(rx.frame)
    /\ damaged \in 0 .. DamageMax

\* The frames of the first packets, back to back.
Written[k \in 0 .. Len(Packets)] ==
    IF k = 0 THEN <<>> ELSE Written[k - 1] \o Framed(Packets[k])

IsStart(s, t) == Len(s) <= Len(t) /\ s = SubSeq(t, 1, Len(s))

\* The socket is given whole frames back to back: whatever it takes at a time
\* and wherever the buffer fills, nothing follows a frame that was cut
\* (tcp_tx_queue's overflow test and tcp_tx_flush's remainder).
NothingFollowsACut ==
    IF tx.failed THEN IsStart(put, Written[queued])
    ELSE put \o tx.data = Written[queued]

\* No packet is invented, merged, repeated or overtaken, whatever the line
\* does to one byte.
OnlyWhatWasSent ==
    \A k \in DOMAIN delivered :
        /\ delivered[k] \in 1 .. queued
        /\ k > 1 => delivered[k - 1] < delivered[k]

\* The next delimiter always realigns the receiver: a damaged byte costs the
\* frame it is in and, when it was the delimiter, the frame behind it.
DamageIsLocal ==
    ~tx.failed /\ tx.data = <<>> /\ pipe = <<>> =>
        queued - Len(delivered) <= 2 * damaged

\* A packet that was queued arrives, unless the line damaged a byte or the
\* connection failed.
PacketsArrive ==
    \A k \in DOMAIN Packets :
        queued >= k ~> (k \in Range(delivered) \/ damaged > 0 \/ tx.failed)
=============================================================================
