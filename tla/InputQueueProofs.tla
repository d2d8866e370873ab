-------------------------- MODULE InputQueueProofs --------------------------
(***************************************************************************)
(* What the input pipeline serves, refuses, forgets and replays, for every *)
(* even width of the sequence number, every size of queue, ring and        *)
(* channels, any number of rounds and of packets lost, as long as a client *)
(* that plays stays less than half a circle ahead of what it heard.        *)
(***************************************************************************)
EXTENDS InputQueue, TLAPS, SequenceTheorems

----------------------------------------------------------------------------
(* The inductive invariant                                                 *)

Entries(q) == {q[k] : k \in DOMAIN q}

Ascending(q) == \A i, j \in DOMAIN q : i < j => q[i].n < q[j].n

\* How far the client and the server are through the rounds and their results,
\* and where an event takes the client.
Progress(r, isOver) == 2 * r + (IF isOver THEN 1 ELSE 0)
ClientAt == Progress(c_round, c_state = "over")
ServerAt == Progress(round, s_state = "over")
LeadsTo(e) == Progress(e.round, e.kind = "MATCH_END")

\* The events under way lead the client step by step to where the server is.
EventsInv ==
    /\ Len(events) = ServerAt - ClientAt
    /\ \A k \in DOMAIN events : LeadsTo(events[k]) = ClientAt + k

\* Deltas arrive in the order of their numbers, and no number of an earlier
\* round is taken for one of the client's.
UpInv ==
    /\ Ascending(up)
    /\ \A d \in Entries(up) :
          /\ d.n < n
          /\ d.round <= c_round
          /\ d.round = c_round => first <= d.n

\* The ring holds numbers not heard of yet, fewer than half a circle; a
\* snapshot left over from an earlier round meets an empty ring.
ClientInv ==
    /\ first <= n
    /\ heard <= n
    /\ c_state # "over" => n <= first + MaxLag \/ n <= heard + MaxLag
    /\ ring # <<>> => c_state = "ready"
    /\ Ascending(ring)
    /\ \A e \in Entries(ring) : first <= e.n /\ heard <= e.n /\ e.n < n
    /\ stage # NoSnapshot =>
          /\ stage.round <= c_round
          /\ c_state = "ready" => stage.round = c_round
          /\ stage.round # c_round => heard <= first

\* What one acknowledgement says: it is of a number that was served, so every
\* delta under way and every queued input is newer.
SnapshotInv(s) ==
    /\ s.round <= round
    /\ s.valid =>
          /\ s.round <= c_round
          /\ s.ack < n
          /\ s.round = c_round => first <= s.ack /\ heard <= s.ack
          /\ s.round < c_round => s.ack < first
          /\ s.round = round => have_applied /\ s.ack <= applied
          /\ \A d \in Entries(up) : s.ack < d.n
          /\ \A e \in Entries(in_q) : s.ack < e.n

\* Of one round, the second acknowledges no less than the first.
InOrder(s, t) ==
    s.valid /\ t.valid /\ s.round = t.round => s.ack <= t.ack

DownInv ==
    /\ \A s \in Entries(down) : SnapshotInv(s)
    /\ stage # NoSnapshot => SnapshotInv(stage)
    /\ \A i, j \in DOMAIN down : i < j => InOrder(down[i], down[j])
    /\ stage # NoSnapshot => \A s \in Entries(down) : InOrder(stage, s)

\* What the server knows of this client's numbers.
ServerInv ==
    /\ c_round # round => ~have_delta
    /\ have_delta =>
          /\ first <= last_delta
          /\ last_delta < n
          /\ \A d \in Entries(up) : last_delta < d.n
    /\ c_round = round => heard <= first \/ (have_applied /\ heard <= applied)
    /\ have_applied =>
          /\ have_delta
          /\ first <= applied
          /\ applied <= last_delta
          /\ \A e \in Entries(in_q) : applied < e.n

\* The queue is in order, none of it is older than the round or newer than the
\* freshness baseline.
QueueInv ==
    /\ in_q # <<>> => have_delta /\ s_state = "playing"
    /\ Ascending(in_q)
    /\ \A e \in Entries(in_q) : first <= e.n /\ e.n <= last_delta

InputInv ==
    /\ TypeOK
    /\ EventsInv /\ UpInv /\ ClientInv /\ DownInv /\ ServerInv /\ QueueInv

----------------------------------------------------------------------------
(* Sequences of numbered packets                                           *)

LEMMA Appended ==
    ASSUME NEW S, NEW q \in Seq(S), NEW x \in S
    PROVE  /\ Append(q, x) \in Seq(S)
           /\ Len(Append(q, x)) = Len(q) + 1
           /\ \A k \in DOMAIN q : Append(q, x)[k] = q[k]
           /\ Append(q, x)[Len(q) + 1] = x
           /\ Entries(Append(q, x)) = Entries(q) \cup {x}
<1>1. /\ Append(q, x) \in Seq(S)
      /\ Len(Append(q, x)) = Len(q) + 1
      /\ \A k \in 1 .. Len(q) : Append(q, x)[k] = q[k]
      /\ Append(q, x)[Len(q) + 1] = x
      /\ Len(q) \in Nat
    BY AppendProperties, LenProperties
<1>2. DOMAIN q = 1 .. Len(q) /\ DOMAIN Append(q, x) = 1 .. Len(q) + 1
    BY <1>1, LenProperties
<1>3. DOMAIN Append(q, x) = DOMAIN q \cup {Len(q) + 1}
    BY <1>1, <1>2
<1> QED BY <1>1, <1>2, <1>3 DEF Entries

LEMMA AppendedAscends ==
    ASSUME NEW S, NEW q \in Seq(S), NEW x \in S, Ascending(q),
           \A e \in Entries(q) : e.n < x.n
    PROVE  Ascending(Append(q, x))
<1>1. /\ Len(q) \in Nat /\ DOMAIN q = 1 .. Len(q)
      /\ DOMAIN Append(q, x) = 1 .. Len(q) + 1
    BY Appended, LenProperties
<1>2. ASSUME NEW i \in 1 .. Len(q) + 1, NEW j \in 1 .. Len(q) + 1, i < j
      PROVE  Append(q, x)[i].n < Append(q, x)[j].n
  <2>1. i \in DOMAIN q /\ Append(q, x)[i] = q[i] /\ q[i] \in Entries(q)
      BY <1>1, <1>2, Appended DEF Entries
  <2>2. CASE j = Len(q) + 1
      BY <2>1, <2>2, Appended
  <2>3. CASE j # Len(q) + 1
    <3>1. j \in DOMAIN q /\ Append(q, x)[j] = q[j]
        BY <1>1, <1>2, <2>3, Appended
    <3> QED BY <1>2, <2>1, <3>1 DEF Ascending
  <2> QED BY <2>2, <2>3
<1> QED BY <1>1, <1>2 DEF Ascending

LEMMA Taken ==
    ASSUME NEW S, NEW q \in Seq(S), q # <<>>
    PROVE  /\ Head(q) \in S /\ Tail(q) \in Seq(S)
           /\ Len(q) \in Nat \ {0} /\ Len(Tail(q)) = Len(q) - 1
           /\ Head(q) = q[1] /\ 1 \in DOMAIN q
           /\ \A k \in DOMAIN Tail(q) :
                 k + 1 \in DOMAIN q /\ Tail(q)[k] = q[k + 1]
           /\ Head(q) \in Entries(q)
           /\ Entries(Tail(q)) \subseteq Entries(q)
           /\ Entries(q) = Entries(Tail(q)) \cup {Head(q)}
<1>1. /\ Len(q) \in Nat /\ Len(q) # 0 /\ DOMAIN q = 1 .. Len(q)
      /\ \A k \in 1 .. Len(q) : q[k] \in S
    BY LenProperties, EmptySeq, ElementOfSeq
<1>2. /\ Head(q) = q[1]
      /\ Tail(q) \in Seq(S) /\ Len(Tail(q)) = Len(q) - 1
      /\ \A k \in 1 .. Len(q) - 1 : Tail(q)[k] = q[k + 1]
    BY <1>1, HeadTailProperties
<1>3. DOMAIN Tail(q) = 1 .. Len(q) - 1
    BY <1>1, <1>2, LenProperties
<1>4. \A k \in DOMAIN q : k # 1 => k - 1 \in DOMAIN Tail(q) /\ (k - 1) + 1 = k
    BY <1>1, <1>3
<1>5. \A k \in DOMAIN Tail(q) :
          k \in 1 .. Len(q) - 1 /\ k + 1 \in DOMAIN q
    BY <1>1, <1>3
<1>6. /\ 1 \in DOMAIN q
      /\ \A k \in DOMAIN Tail(q) : k + 1 \in DOMAIN q /\ Tail(q)[k] = q[k + 1]
    BY <1>1, <1>2, <1>5
<1>7. Head(q) \in Entries(q) /\ Entries(Tail(q)) \subseteq Entries(q)
    BY <1>2, <1>6 DEF Entries
<1>8. ASSUME NEW e \in Entries(q), e # Head(q) PROVE e \in Entries(Tail(q))
  <2>1. PICK k \in DOMAIN q : e = q[k]
      BY DEF Entries
  <2>2. k - 1 \in DOMAIN Tail(q) /\ Tail(q)[k - 1] = e
      BY <1>2, <1>4, <1>6, <1>8, <2>1
  <2> QED BY <2>2 DEF Entries
<1> QED BY <1>1, <1>2, <1>6, <1>7, <1>8

LEMMA TakenAscends ==
    ASSUME NEW S, NEW q \in Seq(S), q # <<>>, Ascending(q)
    PROVE  /\ Ascending(Tail(q))
           /\ \A e \in Entries(Tail(q)) : Head(q).n < e.n
<1>1. DOMAIN Tail(q) \subseteq Nat \ {0}
    BY Taken, LenProperties
<1>2. ASSUME NEW i \in DOMAIN Tail(q), NEW j \in DOMAIN Tail(q), i < j
      PROVE  Tail(q)[i].n < Tail(q)[j].n
  <2>1. /\ i + 1 \in DOMAIN q /\ Tail(q)[i] = q[i + 1]
        /\ j + 1 \in DOMAIN q /\ Tail(q)[j] = q[j + 1]
        /\ i + 1 < j + 1
      BY <1>1, <1>2, Taken
  <2> QED BY <2>1 DEF Ascending
<1>3. ASSUME NEW e \in Entries(Tail(q)) PROVE Head(q).n < e.n
  <2>1. PICK k \in DOMAIN Tail(q) : e = Tail(q)[k]
      BY DEF Entries
  <2>2. /\ k + 1 \in DOMAIN q /\ e = q[k + 1] /\ 1 < k + 1
        /\ Head(q) = q[1] /\ 1 \in DOMAIN q
      BY <1>1, <2>1, Taken
  <2> QED BY <2>2 DEF Ascending
<1> QED BY <1>2, <1>3 DEF Ascending

LEMMA NoEntries == Entries(<<>>) = {} /\ Ascending(<<>>) /\ DOMAIN <<>> = {}
<1>1. DOMAIN <<>> = {}
    BY LenProperties, EmptySeq
<1> QED BY <1>1 DEF Entries, Ascending

----------------------------------------------------------------------------
(* Sequence numbers on their circle                                        *)

LEMMA HalfIsHalf == /\ SeqMod \in Nat \ {0} /\ Half \in Nat \ {0}
                    /\ 2 * Half = SeqMod /\ MaxLag \in Nat /\ MaxLag < Half
    BY InputAssumption DEF Half

LEMMA Remainder ==
    ASSUME NEW m \in Nat \ {0}, NEW a \in Nat
    PROVE  \E q \in Int : a = m * q + (a % m) /\ a % m \in 0 .. m - 1
<1>1. a = m * (a \div m) + (a % m)
    OBVIOUS
<1>2. a \div m \in Int /\ a % m \in 0 .. m - 1
    OBVIOUS
<1> QED BY <1>1, <1>2

LEMMA Multiples ==
    ASSUME NEW m \in Nat \ {0}, NEW k \in Int
    PROVE  /\ k <= -1 => m * k <= -m
           /\ k >= 2 => m * k >= 2 * m
           /\ k = 0 => m * k = 0
           /\ k = 1 => m * k = m
           /\ m * k \in Int
<1>1. k <= -1 => m * (-1 - k) >= 0
    OBVIOUS
<1>2. k >= 2 => m * (k - 2) >= 0
    OBVIOUS
<1> QED BY <1>1, <1>2

\* Less than a full circle apart, the bytes tell the distance.
LEMMA AheadIsDistance ==
    ASSUME NEW a \in Nat, NEW b \in Nat
    PROVE  /\ b <= a /\ a - b < SeqMod => AheadOf(a, b) = a - b
           /\ a < b /\ b - a < SeqMod => AheadOf(a, b) = SeqMod - (b - a)
<1>1. SeqMod \in Nat \ {0}
    BY HalfIsHalf
<1>2. PICK p \in Int : /\ a = SeqMod * p + (a % SeqMod)
                       /\ a % SeqMod \in 0 .. SeqMod - 1
    BY <1>1, Remainder
<1>3. PICK q \in Int : /\ b = SeqMod * q + (b % SeqMod)
                       /\ b % SeqMod \in 0 .. SeqMod - 1
    BY <1>1, Remainder
<1> DEFINE r == a % SeqMod
           s == b % SeqMod
           k == p - q
<1>4. /\ r \in 0 .. SeqMod - 1 /\ s \in 0 .. SeqMod - 1
      /\ k \in Int /\ SeqMod * k \in Int
      /\ a - b = SeqMod * k + (r - s)
  <2>1. SeqMod * (p - q) = SeqMod * p - SeqMod * q
      BY <1>1
  <2>2. SeqMod * p \in Int /\ SeqMod * q \in Int /\ p - q \in Int
      BY <1>1
  <2>3. /\ a = SeqMod * p + r /\ r \in 0 .. SeqMod - 1
        /\ b = SeqMod * q + s /\ s \in 0 .. SeqMod - 1
      BY <1>2, <1>3
  <2> HIDE DEF r, s
  <2> QED BY <1>1, <2>1, <2>2, <2>3
<1>5. /\ k <= -1 => SeqMod * k <= -SeqMod
      /\ k >= 2 => SeqMod * k >= 2 * SeqMod
      /\ k = 0 => SeqMod * k = 0
      /\ k = 1 => SeqMod * k = SeqMod
    BY <1>1, <1>4, Multiples
<1>6. AheadOf(a, b) = (r - s) % SeqMod
    BY DEF AheadOf, SeqNo
<1> HIDE DEF r, s, k
<1>7. (r - s) % SeqMod = IF r >= s THEN r - s ELSE SeqMod + (r - s)
  <2>1. CASE r >= s
      BY <1>1, <1>4, <2>1
  <2>2. CASE r < s
      BY <1>1, <1>4, <2>2
  <2> QED BY <1>4, <2>1, <2>2
<1>8. ASSUME b <= a, a - b < SeqMod PROVE AheadOf(a, b) = a - b
  <2>1. k = 0 \/ k = 1 \/ k <= -1 \/ k >= 2
      BY <1>4
  <2> QED BY <1>1, <1>4, <1>5, <1>6, <1>7, <1>8, <2>1
<1>9. ASSUME a < b, b - a < SeqMod PROVE AheadOf(a, b) = SeqMod - (b - a)
  <2>1. k = 0 \/ k = -1 \/ k <= -2 \/ k >= 1
      BY <1>4
  <2>2. k = -1 => SeqMod * k = -SeqMod
      BY <1>1, <1>4
  <2>3. /\ k <= -2 => SeqMod * k <= -(2 * SeqMod)
        /\ k >= 1 => SeqMod * k >= SeqMod
    <3>1. k >= 2 => SeqMod * k >= 2 * SeqMod
        BY <1>5
    <3>2. k + 1 <= -1 => SeqMod * (k + 1) <= -SeqMod
        BY <1>1, <1>4, Multiples
    <3>3. SeqMod * (k + 1) = SeqMod * k + SeqMod
        BY <1>1, <1>4
    <3> QED BY <1>1, <1>4, <1>5, <3>2, <3>3
  <2> QED BY <1>1, <1>4, <1>6, <1>7, <1>9, <2>1, <2>2, <2>3
<1> QED BY <1>8, <1>9

\* Within half a circle, an acknowledgement covers what is not newer.
LEMMA CoversNotNewer ==
    ASSUME NEW a \in Nat, NEW k \in Nat, a - k < Half, k - a < Half
    PROVE  Covers(a, k) <=> k <= a
<1>1. k <= a => AheadOf(a, k) = a - k
    BY HalfIsHalf, AheadIsDistance
<1>2. a < k => AheadOf(a, k) = SeqMod - (k - a)
    BY HalfIsHalf, AheadIsDistance
<1> QED BY <1>1, <1>2, HalfIsHalf DEF Covers

----------------------------------------------------------------------------
(* Types                                                                   *)

USE InputAssumption, StageAssumption

LEMMA EntriesInSet ==
    ASSUME NEW S, NEW q \in Seq(S)
    PROVE  Entries(q) \subseteq S
    BY LenProperties, ElementOfSeq DEF Entries

LEMMA Typed ==
    ASSUME TypeOK
    PROVE  /\ n \in Nat /\ n <= MaxSeq
           /\ first \in Nat /\ heard \in Nat
           /\ applied \in Nat /\ last_delta \in Nat
           /\ c_round \in Nat /\ round \in Nat
           /\ have_delta \in BOOLEAN /\ have_applied \in BOOLEAN
           /\ \A d \in Entries(up) :
                 d \in Delta /\ d.n \in Nat /\ d.round \in Nat
           /\ \A e \in Entries(ring) : e \in Input /\ e.n \in Nat
           /\ \A e \in Entries(in_q) : e \in Input /\ e.n \in Nat
           /\ \A s \in Entries(down) :
                 /\ s \in Snapshot
                 /\ s.ack \in Nat /\ s.round \in Nat /\ s.valid \in BOOLEAN
           /\ stage # NoSnapshot =>
                 /\ stage \in Snapshot
                 /\ stage.ack \in Nat /\ stage.round \in Nat
                 /\ stage.valid \in BOOLEAN
<1>1. /\ n \in Number /\ first \in Number /\ heard \in Number
      /\ applied \in Number /\ last_delta \in Number
      /\ c_round \in Round /\ round \in Round
      /\ have_delta \in BOOLEAN /\ have_applied \in BOOLEAN
      /\ stage # NoSnapshot => stage \in Snapshot
    BY DEF TypeOK
<1>2. /\ Entries(up) \subseteq Delta /\ Entries(ring) \subseteq Input
      /\ Entries(in_q) \subseteq Input /\ Entries(down) \subseteq Snapshot
    BY EntriesInSet DEF TypeOK
<1>3. /\ Number \subseteq Nat /\ Round \subseteq Nat
      /\ \A k \in Number : k <= MaxSeq
    BY DEF Number, Round
<1>4. \A d \in Delta : d.n \in Number /\ d.round \in Round
    BY DEF Delta
<1>5. \A e \in Input : e.n \in Number
    BY DEF Input
<1>6. \A s \in Snapshot :
         s.ack \in Number /\ s.round \in Round /\ s.valid \in BOOLEAN
    BY DEF Snapshot
<1> QED BY <1>1, <1>2, <1>3, <1>4, <1>5, <1>6

\* What the parts of the invariant read.
LEMMA PartsRead ==
    /\ EventsInv /\ UNCHANGED <<events, round, s_state, c_round>>
          /\ (c_state' = "over" <=> c_state = "over") => EventsInv'
    /\ UpInv /\ UNCHANGED <<up, n, c_round, first>> => UpInv'
    /\ ClientInv /\ UNCHANGED <<clientVars, first, heard>> => ClientInv'
    /\ DownInv /\ UNCHANGED <<down, stage, round, c_round, n, first, heard,
                              have_applied, applied, up, in_q>> => DownInv'
    /\ ServerInv /\ UNCHANGED <<round, c_round, n, first, heard, have_delta,
                                last_delta, have_applied, applied, up, in_q>>
          => ServerInv'
    /\ QueueInv /\ UNCHANGED <<in_q, have_delta, first, last_delta, s_state>>
          => QueueInv'
<1>1. ASSUME EventsInv, UNCHANGED <<events, round, s_state, c_round>>,
             c_state' = "over" <=> c_state = "over"
      PROVE  EventsInv'
  <2>1. ClientAt' = ClientAt /\ ServerAt' = ServerAt
      BY <1>1 DEF ClientAt, ServerAt, Progress
  <2> QED BY <1>1, <2>1 DEF EventsInv, LeadsTo, Progress
<1>2. UpInv /\ UNCHANGED <<up, n, c_round, first>> => UpInv'
    BY DEF UpInv, Ascending, Entries
<1>3. ClientInv /\ UNCHANGED <<clientVars, first, heard>> => ClientInv'
    BY DEF ClientInv, Ascending, Entries, clientVars
<1>4. ASSUME DownInv,
             UNCHANGED <<down, stage, round, c_round, n, first, heard,
                         have_applied, applied, up, in_q>>
      PROVE  DownInv'
  <2>1. ASSUME NEW s, SnapshotInv(s) PROVE SnapshotInv(s)'
      BY <1>4, <2>1 DEF SnapshotInv, Entries
  <2> QED BY <1>4, <2>1 DEF DownInv, InOrder, Entries
<1>5. ServerInv /\ UNCHANGED <<round, c_round, n, first, heard, have_delta,
                               last_delta, have_applied, applied, up, in_q>>
         => ServerInv'
    BY DEF ServerInv, Entries
<1>6. QueueInv /\ UNCHANGED <<in_q, have_delta, first, last_delta, s_state>>
         => QueueInv'
    BY DEF QueueInv, Ascending, Entries
<1> QED BY <1>1, <1>2, <1>3, <1>4, <1>5, <1>6

LEMMA InitInput == Init => InputInv
<1> SUFFICES ASSUME Init PROVE InputInv
    OBVIOUS
<1>1. /\ Entries(ring) = {} /\ Entries(up) = {} /\ Entries(down) = {}
      /\ Entries(in_q) = {}
      /\ Ascending(ring) /\ Ascending(up) /\ Ascending(in_q)
      /\ DOMAIN down = {} /\ DOMAIN events = {} /\ Len(events) = 0
    BY NoEntries, EmptySeq DEF Init
<1>2. TypeOK
  <2>1. /\ ring \in Seq(Input) /\ in_q \in Seq(Input) /\ up \in Seq(Delta)
        /\ down \in Seq(Snapshot)
        /\ events \in Seq([kind : {"MATCH_END", "ROUND_START"}, round : Round])
        /\ Len(ring) = 0 /\ Len(in_q) = 0
      BY EmptySeq DEF Init
  <2>2. 0 \in Number /\ 1 \in Round
      BY DEF Number, Round
  <2>3. 0 <= RingSize /\ 0 <= INPUT_QUEUE_MAX
      OBVIOUS
  <2> QED BY <2>1, <2>2, <2>3 DEF Init, TypeOK
<1>3. EventsInv
    BY <1>1 DEF Init, EventsInv, ClientAt, ServerAt, Progress
<1>4. UpInv /\ DownInv /\ QueueInv
    BY <1>1 DEF Init, UpInv, DownInv, QueueInv
<1>5. ClientInv /\ ServerInv
    BY <1>1 DEF Init, ClientInv, ServerInv
<1> QED BY <1>2, <1>3, <1>4, <1>5 DEF InputInv

----------------------------------------------------------------------------
(* The client's steps                                                      *)

\* A new input in the ring.
LEMMA PushedRing ==
    ASSUME TypeOK, ClientInv, NEW e \in Input, e.n = n
    PROVE  /\ Pushed(e) \in Seq(Input) /\ Len(Pushed(e)) <= RingSize
           /\ Ascending(Pushed(e))
           /\ Entries(Pushed(e)) \subseteq Entries(ring) \cup {e}
<1> DEFINE q == IF Len(ring) = RingSize THEN Tail(ring) ELSE ring
<1>1. /\ ring \in Seq(Input) /\ Len(ring) \in Nat /\ Len(ring) <= RingSize
    BY LenProperties DEF TypeOK
<1>2. /\ q \in Seq(Input) /\ Len(q) <= RingSize - 1 /\ Len(q) \in Nat
      /\ Ascending(q) /\ Entries(q) \subseteq Entries(ring)
  <2>1. CASE Len(ring) = RingSize
    <3>1. ring # <<>>
        BY <2>1, EmptySeq
    <3> QED BY <1>1, <2>1, <3>1, Taken, TakenAscends DEF ClientInv
  <2>2. CASE Len(ring) # RingSize
      BY <1>1, <2>2 DEF ClientInv
  <2> QED BY <2>1, <2>2
<1>3. Pushed(e) = Append(q, e)
    BY DEF Pushed
<1> HIDE DEF q
<1>4. \A x \in Entries(q) : x.n < e.n
    BY <1>2 DEF ClientInv
<1>5. Ascending(Append(q, e))
    BY <1>2, <1>4, AppendedAscends
<1>6. /\ Append(q, e) \in Seq(Input) /\ Len(Append(q, e)) = Len(q) + 1
      /\ Entries(Append(q, e)) = Entries(q) \cup {e}
    BY <1>2, Appended
<1> QED BY <1>2, <1>3, <1>5, <1>6

\* Using up a number: nothing that was said about older ones changes.
LEMMA NumberUsed ==
    ASSUME InputInv, n' = n + 1, MayUseNumber,
           UNCHANGED <<c_round, c_state, stage, serverVars, down, events,
                       first, heard>>,
           \A d \in Entries(up)' : d \in Entries(up) \/ d.n = n
    PROVE  /\ EventsInv' /\ DownInv' /\ ServerInv' /\ QueueInv'
           /\ n' \in Number
           /\ c_state # "over" => n' <= heard + MaxLag
<1>1. TypeOK
    BY DEF InputInv
<1>2. EventsInv' /\ QueueInv'
    BY PartsRead DEF InputInv, serverVars
<1>3. ASSUME NEW s, s.ack \in Nat, SnapshotInv(s) PROVE SnapshotInv(s)'
    BY <1>1, <1>3, Typed DEF SnapshotInv, Entries, serverVars
<1>4. DownInv'
  <2>1. \A s \in Entries(down) : SnapshotInv(s)'
      BY <1>1, <1>3, Typed DEF InputInv, DownInv
  <2>2. stage # NoSnapshot => SnapshotInv(stage)'
      BY <1>1, <1>3, Typed DEF InputInv, DownInv
  <2> QED BY <2>1, <2>2 DEF InputInv, DownInv, InOrder, Entries
<1>5. ServerInv'
    BY <1>1, Typed DEF InputInv, ServerInv, serverVars, Entries
<1>6. n' \in Number
    BY <1>1, Typed DEF MayUseNumber, Number
<1>7. c_state # "over" => n' <= heard + MaxLag
    BY <1>1, Typed DEF MayUseNumber
<1> QED BY <1>2, <1>4, <1>5, <1>6, <1>7

LEMMA TransmitOtherInput ==
    ASSUME InputInv, TransmitOther
    PROVE  InputInv'
<1>1. /\ n' = n + 1 /\ MayUseNumber
      /\ UNCHANGED <<c_round, c_state, ring, stage, serverVars, channelVars,
                     historyVars>>
    BY DEF TransmitOther
<1>2. /\ EventsInv' /\ DownInv' /\ ServerInv' /\ QueueInv'
      /\ n' \in Number
      /\ c_state # "over" => n' <= heard + MaxLag
    BY <1>1, NumberUsed DEF Entries, channelVars, historyVars
<1>3. TypeOK'
    BY <1>1, <1>2 DEF InputInv, TypeOK, serverVars, channelVars, historyVars
<1>4. UpInv'
    BY <1>1, Typed
    DEF InputInv, UpInv, channelVars, historyVars, Ascending, Entries
<1>5. ClientInv'
    BY <1>1, <1>2, Typed
    DEF InputInv, ClientInv, historyVars, Ascending, Entries
<1> QED BY <1>2, <1>3, <1>4, <1>5 DEF InputInv

LEMMA TransmitInput ==
    ASSUME InputInv, Transmit
    PROVE  InputInv'
<1>1. PICK joy \in Joy :
         /\ ring' = IF c_state = "ready" THEN Pushed([n |-> n, joy |-> joy])
                    ELSE ring
         /\ up' = Append(up, [n |-> n, joy |-> joy, round |-> c_round])
            \/ up' = up
         /\ dropped' \subseteq dropped \cup MovesOf([n |-> n, joy |-> joy])
    BY DEF Transmit, Joy, Kept
<1>2. /\ n' = n + 1 /\ MayUseNumber /\ served' \subseteq served
      /\ UNCHANGED <<c_round, c_state, stage, serverVars, down, events, first,
                     heard>>
    BY DEF Transmit, Kept
<1> DEFINE e == [n |-> n, joy |-> joy]
           d == [n |-> n, joy |-> joy, round |-> c_round]
<1>3. TypeOK /\ n \in Number /\ c_round \in Round /\ up \in Seq(Delta)
    BY DEF InputInv, TypeOK
<1>4. e \in Input /\ e.n = n /\ d \in Delta /\ d.n = n /\ d.round = c_round
    BY <1>3 DEF Input, Delta
<1> HIDE DEF e, d
<1>5. /\ up' \in Seq(Delta) /\ Ascending(up')
      /\ Entries(up') \subseteq Entries(up) \cup {d}
  <2>1. CASE up' = up
      BY <1>3, <2>1 DEF InputInv, UpInv
  <2>2. CASE up' = Append(up, d)
    <3>1. Ascending(up) /\ \A x \in Entries(up) : x.n < d.n
        BY <1>4 DEF InputInv, UpInv
    <3> QED BY <1>3, <1>4, <2>2, <3>1, Appended, AppendedAscends
  <2> QED BY <1>1, <2>1, <2>2 DEF d
<1>6. /\ ring' \in Seq(Input) /\ Len(ring') <= RingSize /\ Ascending(ring')
      /\ c_state = "ready" => Entries(ring') \subseteq Entries(ring) \cup {e}
      /\ c_state # "ready" => ring' = ring
  <2>1. CASE c_state = "ready"
      BY <1>1, <1>3, <1>4, <2>1, PushedRing DEF InputInv, e
  <2>2. CASE c_state # "ready"
      BY <1>1, <1>3, <2>2 DEF InputInv, ClientInv, TypeOK
  <2> QED BY <2>1, <2>2
<1>7. /\ EventsInv' /\ DownInv' /\ ServerInv' /\ QueueInv'
      /\ n' \in Number
      /\ c_state # "over" => n' <= heard + MaxLag
  <2>1. \A x \in Entries(up)' : x \in Entries(up) \/ x.n = n
      BY <1>4, <1>5 DEF Entries
  <2> QED BY <1>2, <2>1, NumberUsed
<1>8. TypeOK'
  <2>1. served' \subseteq Number
      BY <1>2, <1>3 DEF TypeOK
  <2>2. dropped' \subseteq Number
    <3>1. MovesOf(e) \subseteq Number
        BY <1>3, <1>4 DEF MovesOf
    <3>2. dropped' \subseteq dropped \cup MovesOf(e)
        BY <1>1 DEF e
    <3> QED BY <1>3, <3>1, <3>2 DEF TypeOK
  <2> QED BY <1>2, <1>3, <1>5, <1>6, <1>7, <2>1, <2>2 DEF TypeOK, serverVars
<1>9. UpInv'
  <2>1. \A x \in Entries(up') : /\ x.n < n'
                                /\ x.round <= c_round
                                /\ x.round = c_round => first <= x.n
      BY <1>2, <1>3, <1>4, <1>5, Typed DEF InputInv, UpInv, ClientInv
  <2> QED BY <1>2, <1>5, <2>1 DEF UpInv, Entries, Ascending
<1>10. ClientInv'
  <2>1. \A x \in Entries(ring') : first <= x.n /\ heard <= x.n /\ x.n < n'
      BY <1>2, <1>3, <1>4, <1>6, Typed DEF InputInv, ClientInv
  <2>2. first <= n' /\ heard <= n'
      BY <1>2, <1>3, Typed DEF InputInv, ClientInv
  <2>3. ring' # <<>> => c_state = "ready"
      BY <1>6 DEF InputInv, ClientInv
  <2> QED BY <1>2, <1>6, <1>7, <2>1, <2>2, <2>3
      DEF InputInv, ClientInv, Entries, Ascending
<1> QED BY <1>7, <1>8, <1>9, <1>10 DEF InputInv

LEMMA ReceiveSnapshotInput ==
    ASSUME InputInv, ReceiveSnapshot
    PROVE  InputInv'
<1>1. /\ down # <<>> /\ down' = Tail(down)
      /\ UNCHANGED <<n, c_round, ring, serverVars, up, events, first, heard,
                     served, dropped>>
      /\ \/ /\ Head(down).round = c_round
            /\ c_state # "over"
            /\ stage' = Head(down)
            /\ c_state' = "ready"
         \/ UNCHANGED <<stage, c_state>>
    BY DEF ReceiveSnapshot, historyVars
<1>2. /\ TypeOK /\ down \in Seq(Snapshot) /\ EventsInv /\ UpInv /\ ClientInv
      /\ DownInv /\ ServerInv /\ QueueInv
    BY DEF InputInv, TypeOK
<1>3. /\ Head(down) \in Snapshot /\ Head(down) \in Entries(down)
      /\ Tail(down) \in Seq(Snapshot)
      /\ Entries(Tail(down)) \subseteq Entries(down)
      /\ Head(down) # NoSnapshot
    BY <1>1, <1>2, Taken
<1>4. TypeOK'
    BY <1>1, <1>2, <1>3 DEF TypeOK, serverVars
<1>5. /\ c_state' = "over" <=> c_state = "over"
    BY <1>1
<1>6. EventsInv' /\ UpInv' /\ ServerInv' /\ QueueInv'
    BY <1>1, <1>2, <1>5, PartsRead DEF serverVars
<1>7. ClientInv'
    BY <1>1, <1>2, Typed DEF ClientInv, Ascending, Entries
<1>8. ASSUME NEW s, SnapshotInv(s) PROVE SnapshotInv(s)'
    BY <1>1, <1>8 DEF SnapshotInv, Entries, serverVars
<1>9. DownInv'
  <2>1. \A s \in Entries(down') : SnapshotInv(s)'
      BY <1>1, <1>2, <1>3, <1>8 DEF DownInv
  <2>2. (stage # NoSnapshot => SnapshotInv(stage))'
    <3>1. CASE stage' = stage
        BY <1>1, <1>2, <3>1 DEF DownInv, SnapshotInv, Entries, serverVars
    <3>2. CASE stage' = Head(down)
      <4>1. PICK h \in Entries(down) : h = Head(down)
          BY <1>3
      <4>2. SnapshotInv(h)'
          BY <1>2, <1>8 DEF DownInv
      <4> QED BY <3>2, <4>1, <4>2 DEF SnapshotInv
    <3> QED BY <1>1, <3>1, <3>2
  <2>3. ASSUME NEW i \in DOMAIN Tail(down), NEW j \in DOMAIN Tail(down), i < j
        PROVE  InOrder(Tail(down)[i], Tail(down)[j])
    <3>1. i \in Nat /\ j \in Nat
        BY <1>3, LenProperties
    <3>2. /\ i + 1 \in DOMAIN down /\ Tail(down)[i] = down[i + 1]
          /\ j + 1 \in DOMAIN down /\ Tail(down)[j] = down[j + 1]
        BY <1>1, <1>2, Taken
    <3> QED BY <1>2, <2>3, <3>1, <3>2 DEF DownInv
  <2>4. ASSUME NEW s \in Entries(Tail(down))
        PROVE  InOrder(Head(down), s)
    <3>1. PICK i \in DOMAIN Tail(down) : s = Tail(down)[i]
        BY DEF Entries
    <3>2. i \in Nat \ {0}
        BY <1>3, LenProperties
    <3>3. /\ i + 1 \in DOMAIN down /\ s = down[i + 1]
          /\ 1 \in DOMAIN down /\ Head(down) = down[1]
        BY <1>1, <1>2, <3>1, Taken
    <3> QED BY <1>2, <3>2, <3>3 DEF DownInv
  <2>5. stage' # NoSnapshot => \A s \in Entries(down') : InOrder(stage', s)
      BY <1>1, <1>2, <1>3, <2>4 DEF DownInv
  <2> QED BY <1>1, <2>1, <2>2, <2>3, <2>5 DEF DownInv
<1> QED BY <1>4, <1>6, <1>7, <1>9 DEF InputInv

\* The ring without its first entries.
LEMMA Discarded ==
    ASSUME TypeOK, NEW d \in 0 .. Len(ring)
    PROVE  LET q == SubSeq(ring, d + 1, Len(ring))
           IN  /\ q \in Seq(Input) /\ Len(q) = Len(ring) - d
               /\ Len(ring) \in Nat /\ DOMAIN ring = 1 .. Len(ring)
               /\ DOMAIN q = 1 .. Len(ring) - d
               /\ \A k \in 1 .. Len(ring) - d :
                     d + k \in DOMAIN ring /\ q[k] = ring[d + k]
<1> DEFINE q == SubSeq(ring, d + 1, Len(ring))
<1>1. /\ Len(ring) \in Nat /\ DOMAIN ring = 1 .. Len(ring)
      /\ \A k \in 1 .. Len(ring) : ring[k] \in Input
    BY LenProperties, ElementOfSeq DEF TypeOK
<1>2. \A k \in d + 1 .. Len(ring) : ring[k] \in Input
    BY <1>1
<1>3. /\ q \in Seq(Input)
      /\ Len(q) = IF d + 1 <= Len(ring) THEN Len(ring) - (d + 1) + 1 ELSE 0
      /\ \A k \in 1 .. Len(ring) - (d + 1) + 1 : q[k] = ring[(d + 1) + k - 1]
    BY <1>1, <1>2, SubSeqProperties
<1> HIDE DEF q
<1>4. Len(q) = Len(ring) - d /\ DOMAIN q = 1 .. Len(q)
  <2>1. Len(q) = Len(ring) - d
    <3>1. d \in Nat /\ d <= Len(ring) /\ Len(ring) \in Nat
        BY <1>1
    <3>2. CASE d + 1 <= Len(ring)
        BY <1>3, <3>1, <3>2
    <3>3. CASE d = Len(ring)
      <4>1. ~(d + 1 <= Len(ring)) /\ Len(ring) - d = 0
          BY <3>1, <3>3
      <4> QED BY <1>3, <4>1
    <3> QED BY <3>1, <3>2, <3>3
  <2> QED BY <1>3, <2>1, LenProperties
<1>5. ASSUME NEW k \in 1 .. Len(ring) - d
      PROVE  d + k \in DOMAIN ring /\ q[k] = ring[d + k]
  <2>1. /\ k \in 1 .. Len(ring) - (d + 1) + 1 /\ (d + 1) + k - 1 = d + k
        /\ d + k \in 1 .. Len(ring)
      BY <1>1
  <2>2. q[k] = ring[(d + 1) + k - 1]
      BY <1>3, <2>1
  <2> QED BY <1>1, <2>1, <2>2
<1> QED BY <1>1, <1>3, <1>4, <1>5 DEF q

\* A snapshot takes exactly what it acknowledges off the ring.
LEMMA DiscardIsExact ==
    ASSUME InputInv, stage # NoSnapshot, stage.valid,
           NEW d \in 0 .. Len(ring), IsDiscard(d, stage.ack)
    PROVE  \A k \in DOMAIN ring : k <= d <=> ring[k].n <= stage.ack
<1>1. /\ TypeOK /\ n \in Nat /\ first \in Nat /\ heard \in Nat
      /\ stage.ack \in Nat /\ MaxLag \in Nat /\ MaxLag < Half /\ Half \in Nat
      /\ Len(ring) \in Nat /\ DOMAIN ring = 1 .. Len(ring)
      /\ \A k \in DOMAIN ring : ring[k].n \in Nat
    BY Typed, LenProperties, HalfIsHalf DEF InputInv, TypeOK, Entries
<1>2. ASSUME NEW k \in DOMAIN ring
      PROVE  Covers(stage.ack, ring[k].n) <=> ring[k].n <= stage.ack
  <2>1. ring # <<>>
      BY <1>1, EmptySeq
  <2>2. /\ n <= first + MaxLag \/ n <= heard + MaxLag
        /\ stage.round = c_round
        /\ first <= ring[k].n /\ heard <= ring[k].n /\ ring[k].n < n
      BY <2>1 DEF InputInv, ClientInv, Entries
  <2>3. stage.ack < n /\ first <= stage.ack /\ heard <= stage.ack
      BY <2>2 DEF InputInv, DownInv, SnapshotInv
  <2>4. stage.ack - ring[k].n < Half /\ ring[k].n - stage.ack < Half
      BY <1>1, <2>2, <2>3
  <2> QED BY <1>1, <2>4, CoversNotNewer
<1>3. ASSUME NEW k \in DOMAIN ring, k <= d PROVE ring[k].n <= stage.ack
    BY <1>1, <1>2, <1>3 DEF IsDiscard
<1>4. ASSUME NEW k \in DOMAIN ring, d < k PROVE stage.ack < ring[k].n
  <2>1. d + 1 \in DOMAIN ring /\ d < Len(ring)
      BY <1>1, <1>4
  <2>2. stage.ack < ring[d + 1].n
      BY <1>1, <1>2, <2>1 DEF IsDiscard
  <2>3. d + 1 < k => ring[d + 1].n < ring[k].n
      BY <2>1 DEF InputInv, ClientInv, Ascending
  <2> QED BY <1>1, <1>4, <2>1, <2>2, <2>3
<1> QED BY <1>1, <1>3, <1>4

\* What the interrupt does to the ring.
LEMMA CommitRing ==
    ASSUME InputInv, Commit
    PROVE  /\ ring' \in Seq(Input) /\ Len(ring') <= Len(ring)
           /\ Ascending(ring') /\ Entries(ring') \subseteq Entries(ring)
           /\ stage.valid =>
                 /\ \A e \in Entries(ring') : stage.ack < e.n
                 /\ \A e \in Entries(ring) :
                       e.n \notin Numbers(ring') => e.n <= stage.ack
           /\ ~stage.valid => ring' = ring
<1>1. CASE ~stage.valid
  <2>1. ring' = ring
      BY <1>1 DEF Commit
  <2>2. ring \in Seq(Input) /\ Len(ring) \in Nat
      BY LenProperties DEF InputInv, TypeOK
  <2> QED BY <1>1, <2>1, <2>2 DEF InputInv, ClientInv
<1>2. CASE stage.valid
  <2>1. PICK d \in 0 .. Len(ring) :
           /\ IsDiscard(d, stage.ack)
           /\ ring' = SubSeq(ring, d + 1, Len(ring))
      BY <1>2 DEF Commit
  <2>2. /\ ring' \in Seq(Input) /\ Len(ring') = Len(ring) - d
        /\ Len(ring) \in Nat /\ DOMAIN ring = 1 .. Len(ring)
        /\ DOMAIN ring' = 1 .. Len(ring) - d
        /\ \A k \in 1 .. Len(ring) - d :
              d + k \in DOMAIN ring /\ ring'[k] = ring[d + k]
      BY <2>1, Discarded DEF InputInv
  <2>3. \A k \in DOMAIN ring : k <= d <=> ring[k].n <= stage.ack
      BY <1>2, <2>1, DiscardIsExact DEF Commit
  <2>4. /\ TypeOK /\ stage.ack \in Nat
        /\ \A k \in DOMAIN ring : ring[k].n \in Nat
      BY Typed DEF InputInv, Commit, Entries
  <2>5. Ascending(ring')
    <3> SUFFICES ASSUME NEW i \in 1 .. Len(ring) - d,
                        NEW j \in 1 .. Len(ring) - d, i < j
                 PROVE  ring[d + i].n < ring[d + j].n
        BY <2>2 DEF Ascending
    <3>1. d + i \in DOMAIN ring /\ d + j \in DOMAIN ring /\ d + i < d + j
        BY <2>2
    <3> QED BY <3>1 DEF InputInv, ClientInv, Ascending
  <2>6. Entries(ring') \subseteq Entries(ring)
      BY <2>2 DEF Entries
  <2>7. \A e \in Entries(ring') : stage.ack < e.n
    <3> SUFFICES ASSUME NEW k \in 1 .. Len(ring) - d
                 PROVE  stage.ack < ring[d + k].n
        BY <2>2 DEF Entries
    <3>1. d + k \in DOMAIN ring /\ ~(d + k <= d)
        BY <2>2
    <3> QED BY <2>3, <2>4, <3>1
  <2>8. ASSUME NEW e \in Entries(ring), e.n \notin Numbers(ring')
        PROVE  e.n <= stage.ack
    <3>1. PICK k \in DOMAIN ring : e = ring[k]
        BY DEF Entries
    <3>2. CASE k <= d
        BY <2>3, <3>1, <3>2
    <3>3. CASE d < k
      <4>1. k - d \in 1 .. Len(ring) - d /\ d + (k - d) = k
          BY <2>2, <3>3
      <4>2. ring'[k - d] = e
          BY <2>2, <3>1, <4>1
      <4>3. k - d \in DOMAIN ring'
          BY <2>2, <4>1
      <4> QED BY <2>8, <4>2, <4>3 DEF Numbers
    <3> QED BY <2>2, <3>2, <3>3
  <2>9. Len(ring') <= Len(ring)
      BY <2>2
  <2> QED BY <1>2, <2>2, <2>5, <2>6, <2>7, <2>8, <2>9
<1> QED BY <1>1, <1>2

LEMMA CommitInput ==
    ASSUME InputInv, Commit
    PROVE  InputInv'
<1>1. /\ stage # NoSnapshot /\ stage' = NoSnapshot
      /\ UNCHANGED <<n, c_round, c_state, serverVars, channelVars, first>>
      /\ heard' = IF stage.valid THEN stage.ack ELSE heard
      /\ served' \subseteq served /\ dropped' \subseteq dropped
    BY DEF Commit, Kept
<1>2. /\ TypeOK /\ EventsInv /\ UpInv /\ ClientInv
      /\ DownInv /\ ServerInv /\ QueueInv
    BY DEF InputInv
<1>3. /\ stage \in Snapshot /\ stage.ack \in Number /\ stage.ack \in Nat
      /\ n \in Nat /\ heard \in Nat /\ first \in Nat
      /\ stage.round \in Nat /\ c_round \in Nat /\ MaxLag \in Nat
      /\ heard \in Number /\ SnapshotInv(stage)
    BY <1>1, <1>2, Typed DEF TypeOK, Snapshot, DownInv
<1>4. TypeOK'
  <2>1. /\ ring' \in Seq(Input) /\ Len(ring') <= RingSize
    <3>1. ring \in Seq(Input) /\ Len(ring) \in Nat /\ Len(ring) <= RingSize
        BY <1>2, LenProperties DEF TypeOK
    <3>2. ring' \in Seq(Input) /\ Len(ring') <= Len(ring)
        BY CommitRing
    <3>3. Len(ring') \in Nat
        BY <3>2, LenProperties
    <3> QED BY <3>1, <3>2, <3>3
  <2>2. heard' \in Number
      BY <1>1, <1>3
  <2> QED BY <1>1, <1>2, <2>1, <2>2 DEF TypeOK, serverVars, channelVars
<1>5. EventsInv' /\ UpInv' /\ QueueInv'
    BY <1>1, <1>2, PartsRead DEF serverVars, channelVars
<1>6. stage.valid =>
         /\ stage.ack < n
         /\ stage.round = c_round => first <= stage.ack /\ heard <= stage.ack
         /\ stage.round < c_round => stage.ack < first /\ heard <= first
         /\ stage.round <= c_round
    BY <1>1, <1>2, <1>3 DEF SnapshotInv, ClientInv
<1>7. ClientInv'
  <2>1. heard' <= n
      BY <1>1, <1>2, <1>3, <1>6 DEF ClientInv
  <2>2. c_state # "over" => n <= first + MaxLag \/ n <= heard' + MaxLag
      BY <1>1, <1>2, <1>3, <1>6 DEF ClientInv
  <2>3. ring' # <<>> => c_state = "ready"
    <3>1. ASSUME ring = <<>> PROVE ring' = <<>>
      <4>1. Len(ring) = 0 /\ Len(ring') \in Nat /\ Len(ring') <= Len(ring)
            /\ ring' \in Seq(Input)
          BY <3>1, CommitRing, EmptySeq, LenProperties
      <4> QED BY <4>1, EmptySeq
    <3> QED BY <1>2, <3>1 DEF ClientInv
  <2>4. \A e \in Entries(ring') :
           first <= e.n /\ heard' <= e.n /\ e.n < n
    <3>1. \A e \in Entries(ring') : e \in Entries(ring) /\ e.n \in Nat
        BY <1>2, CommitRing, Typed
    <3>2. stage.valid => \A e \in Entries(ring') : stage.ack < e.n
        BY CommitRing
    <3> QED BY <1>1, <1>2, <1>3, <3>1, <3>2 DEF ClientInv
  <2>5. Ascending(ring')
      BY CommitRing
  <2> QED BY <1>1, <1>2, <2>1, <2>2, <2>3, <2>4, <2>5
      DEF ClientInv, Ascending, Entries
<1>8. DownInv'
  <2>1. ASSUME NEW s \in Entries(down) PROVE SnapshotInv(s)'
    <3>1. /\ SnapshotInv(s) /\ InOrder(stage, s)
          /\ s.ack \in Nat /\ s.round \in Nat
          /\ s.valid \in BOOLEAN /\ stage.valid \in BOOLEAN
        BY <1>1, <1>2, Typed DEF DownInv
    <3>2. s.valid /\ s.round = c_round => heard' <= s.ack
      <4>1. CASE stage.valid /\ stage.round = c_round
          BY <1>1, <3>1, <4>1 DEF InOrder
      <4>2. CASE stage.valid /\ stage.round < c_round
          BY <1>1, <1>3, <1>6, <3>1, <4>2 DEF SnapshotInv
      <4>3. CASE ~stage.valid
          BY <1>1, <3>1, <4>3 DEF SnapshotInv
      <4> QED BY <1>3, <1>6, <4>1, <4>2, <4>3
    <3> QED BY <1>1, <3>1, <3>2
        DEF SnapshotInv, Entries, serverVars, channelVars
  <2> QED BY <1>1, <1>2, <2>1 DEF DownInv, InOrder, Entries, channelVars
<1>9. ServerInv'
  <2>1. c_round = round =>
           heard' <= first \/ (have_applied /\ heard' <= applied)
    <3>1. applied \in Nat
        BY <1>2, Typed
    <3> QED BY <1>1, <1>2, <1>3, <1>6, <3>1 DEF ServerInv, SnapshotInv
  <2> QED BY <1>1, <1>2, <2>1 DEF ServerInv, Entries, serverVars, channelVars
<1> QED BY <1>4, <1>5, <1>7, <1>8, <1>9 DEF InputInv

LEMMA ClientNotAhead ==
    ASSUME InputInv
    PROVE  c_round <= round
<1>1. /\ c_round \in Nat /\ round \in Nat /\ Len(events) \in Nat
    BY Typed, LenProperties DEF InputInv, TypeOK
<1> QED BY <1>1 DEF InputInv, EventsInv, ClientAt, ServerAt, Progress

\* The next event takes the client one step on.
LEMMA EventDue ==
    ASSUME InputInv, events # <<>>
    PROVE  /\ Head(events)
                 \in [kind : {"MATCH_END", "ROUND_START"}, round : Round]
           /\ Head(events).kind = "MATCH_END" =>
                 c_state # "over" /\ Head(events).round = c_round
           /\ Head(events).kind = "ROUND_START" =>
                 /\ c_state = "over" /\ Head(events).round = c_round + 1
                 /\ c_round < round
           /\ Tail(events)
                 \in Seq([kind : {"MATCH_END", "ROUND_START"}, round : Round])
           /\ Len(Tail(events)) = Len(events) - 1 /\ Len(events) \in Nat
           /\ \A k \in DOMAIN Tail(events) :
                 LeadsTo(Tail(events)[k]) = (ClientAt + 1) + k
<1> DEFINE E == [kind : {"MATCH_END", "ROUND_START"}, round : Round]
           e == Head(events)
<1>1. events \in Seq(E) /\ c_round \in Nat /\ round \in Nat
    BY Typed DEF InputInv, TypeOK
<1>2. /\ e \in E /\ Tail(events) \in Seq(E)
      /\ Len(events) \in Nat \ {0} /\ Len(Tail(events)) = Len(events) - 1
      /\ e = events[1] /\ 1 \in DOMAIN events
      /\ \A k \in DOMAIN Tail(events) :
            k + 1 \in DOMAIN events /\ Tail(events)[k] = events[k + 1]
    BY <1>1, Taken
<1>3. e.kind \in {"MATCH_END", "ROUND_START"} /\ e.round \in Nat
    BY <1>2 DEF Round
<1>4. LeadsTo(e) = ClientAt + 1 /\ ClientAt < ServerAt
      /\ ClientAt \in Int /\ ServerAt \in Int
    BY <1>1, <1>2 DEF InputInv, EventsInv, ClientAt, ServerAt, Progress
<1> HIDE DEF e
<1>5. e.kind = "MATCH_END" => c_state # "over" /\ e.round = c_round
    BY <1>1, <1>3, <1>4 DEF LeadsTo, ClientAt, Progress
<1>6. e.kind = "ROUND_START" =>
         c_state = "over" /\ e.round = c_round + 1 /\ c_round < round
    BY <1>1, <1>3, <1>4 DEF LeadsTo, ClientAt, ServerAt, Progress
<1>7. ASSUME NEW k \in DOMAIN Tail(events)
      PROVE  LeadsTo(Tail(events)[k]) = (ClientAt + 1) + k
  <2>1. k \in Nat
      BY <1>2, LenProperties
  <2>2. LeadsTo(events[k + 1]) = ClientAt + (k + 1)
      BY <1>2 DEF InputInv, EventsInv
  <2> QED BY <1>2, <1>4, <2>1, <2>2
<1> QED BY <1>2, <1>5, <1>6, <1>7 DEF e

LEMMA ReceiveEventInput ==
    ASSUME InputInv, ReceiveEvent
    PROVE  InputInv'
<1> DEFINE e == Head(events)
<1>1. /\ events # <<>> /\ events' = Tail(events) /\ ring' = <<>>
      /\ served' = {} /\ dropped' = {}
      /\ UNCHANGED <<n, stage, serverVars, up, down>>
    BY DEF ReceiveEvent
<1>2. /\ TypeOK /\ EventsInv /\ UpInv /\ ClientInv
      /\ DownInv /\ ServerInv /\ QueueInv
    BY DEF InputInv
<1>3. \/ /\ e.kind = "MATCH_END" /\ c_state' = "over" /\ c_state # "over"
         /\ UNCHANGED <<c_round, first, heard>>
      \/ /\ e.kind = "ROUND_START" /\ c_state = "over" /\ c_state' = "waiting"
         /\ c_round' = c_round + 1 /\ c_round < round
         /\ first' = n /\ heard' = n
    BY <1>1, EventDue DEF ReceiveEvent
<1>4. /\ n \in Nat /\ n \in Number /\ c_round \in Nat /\ round \in Round
      /\ round \in Nat /\ c_round \in Round /\ first \in Nat /\ heard \in Nat
      /\ Entries(ring') = {} /\ Ascending(ring')
    BY <1>1, <1>2, Typed, NoEntries DEF TypeOK
<1>5. c_round' \in Round /\ c_round <= c_round' /\ c_round' \in Nat
    BY <1>3, <1>4 DEF Round
<1>6. TypeOK'
  <2>1. /\ events' \in Seq([kind : {"MATCH_END", "ROUND_START"}, round : Round])
        /\ ring' \in Seq(Input) /\ Len(ring') <= RingSize
      BY <1>1, EventDue, EmptySeq
  <2> QED BY <1>1, <1>2, <1>3, <1>4, <1>5, <2>1 DEF TypeOK, serverVars
<1>7. EventsInv'
  <2>1. ClientAt' = ClientAt + 1 /\ ServerAt' = ServerAt
        /\ ClientAt \in Int /\ ServerAt \in Int
      BY <1>1, <1>3, <1>4 DEF ClientAt, ServerAt, Progress, serverVars
  <2>2. Len(events') = ServerAt - (ClientAt + 1)
      BY <1>1, <1>2, <2>1, EventDue DEF EventsInv
  <2>3. \A k \in DOMAIN events' : LeadsTo(events'[k]) = (ClientAt + 1) + k
      BY <1>1, EventDue
  <2> QED BY <2>1, <2>2, <2>3 DEF EventsInv, LeadsTo, Progress
<1>8. UpInv'
    BY <1>1, <1>2, <1>3, <1>4, Typed DEF UpInv, Ascending, Entries
<1>9. ClientInv'
  <2>1. stage # NoSnapshot => stage.round \in Nat
      BY <1>2, Typed
  <2>2. Ascending(ring)' /\ Entries(ring)' = {}
      BY <1>4 DEF Ascending, Entries
  <2> QED BY <1>1, <1>2, <1>3, <1>4, <2>1, <2>2 DEF ClientInv
<1>10. DownInv'
  <2>1. ASSUME NEW s, s.round \in Nat, s.ack \in Nat, SnapshotInv(s)
        PROVE  SnapshotInv(s)'
      BY <1>1, <1>3, <1>4, <2>1 DEF SnapshotInv, Entries, serverVars
  <2>2. \A s \in Entries(down) : SnapshotInv(s)'
      BY <1>2, <2>1, Typed DEF DownInv
  <2>3. stage # NoSnapshot => SnapshotInv(stage)'
      BY <1>1, <1>2, <2>1, Typed DEF DownInv
  <2> QED BY <1>1, <1>2, <2>2, <2>3 DEF DownInv, Entries, InOrder
<1>11. ServerInv'
    BY <1>1, <1>2, <1>3, <1>4 DEF ServerInv, Entries, serverVars
<1>12. QueueInv'
  <2>1. e.kind = "ROUND_START" => Entries(in_q) = {}
    <3>1. e.kind = "ROUND_START" => in_q = <<>>
        BY <1>2, <1>3, <1>4 DEF ServerInv, QueueInv
    <3> QED BY <3>1, NoEntries
  <2> QED BY <1>1, <1>2, <1>3, <2>1
      DEF QueueInv, Entries, Ascending, serverVars
<1> QED BY <1>6, <1>7, <1>8, <1>9, <1>10, <1>11, <1>12 DEF InputInv

----------------------------------------------------------------------------
(* The server's steps                                                      *)

\* The queue with an input joined to its last entry, or with one more.
LEMMA Joined ==
    ASSUME TypeOK, QueueInv, NEW d \in Delta,
           \A e \in Entries(in_q) : e.n < d.n,
           \/ Foldable(d.joy) /\ in_q' = Folded(d.n)
           \/ /\ Len(in_q) < INPUT_QUEUE_MAX
              /\ in_q' = Append(in_q, [n |-> d.n, joy |-> d.joy])
           \/ in_q' = in_q
    PROVE  /\ in_q' \in Seq(Input) /\ Len(in_q') <= INPUT_QUEUE_MAX
           /\ Ascending(in_q')
           /\ \A e \in Entries(in_q') : e \in Entries(in_q) \/ e.n = d.n
<1> DEFINE x == [n |-> d.n, joy |-> d.joy]
           len == Len(in_q)
<1>1. /\ in_q \in Seq(Input) /\ len \in Nat /\ len <= INPUT_QUEUE_MAX
      /\ Ascending(in_q) /\ DOMAIN in_q = 1 .. len
      /\ \A k \in 1 .. len : in_q[k] \in Input
    BY LenProperties, ElementOfSeq DEF TypeOK, QueueInv
<1>2. x \in Input /\ x.n = d.n /\ d.n \in Number
    BY DEF Input, Delta
<1>3. CASE in_q' = in_q
    BY <1>1, <1>3
<1>4. CASE len < INPUT_QUEUE_MAX /\ in_q' = Append(in_q, x)
  <2>0. /\ in_q \in Seq(Input) /\ x \in Input /\ in_q' = Append(in_q, x)
        /\ Ascending(in_q) /\ \A e \in Entries(in_q) : e.n < x.n
      BY <1>1, <1>2, <1>4
  <2> HIDE DEF x
  <2>1. /\ in_q' \in Seq(Input) /\ Len(in_q') = len + 1
        /\ Entries(in_q') = Entries(in_q) \cup {x}
      BY <2>0, Appended
  <2>2. Ascending(in_q')
      BY <2>0, AppendedAscends
  <2>3. Len(in_q') <= INPUT_QUEUE_MAX
    <3>1. len \in Nat /\ len < INPUT_QUEUE_MAX /\ Len(in_q') = len + 1
        BY <1>1, <1>4, <2>1
    <3> HIDE DEF len
    <3> QED BY <3>1
  <2>4. \A e \in Entries(in_q') : e \in Entries(in_q) \/ e.n = d.n
      BY <1>2, <2>1
  <2> QED BY <2>1, <2>2, <2>3, <2>4
<1>5. CASE Foldable(d.joy) /\ in_q' = Folded(d.n)
  <2>1. len \in 1 .. len /\ in_q[len].joy = "neutral"
    <3>1. in_q # <<>> /\ in_q[len].joy = "neutral"
        BY <1>5 DEF Foldable
    <3>2. len # 0
        BY <1>1, <3>1, EmptySeq
    <3> QED BY <1>1, <3>1, <3>2
  <2>2. in_q' = [in_q EXCEPT ![len].n = d.n]
      BY <1>5 DEF Folded
  <2>3. /\ DOMAIN in_q' = 1 .. len
        /\ \A k \in 1 .. len : k # len => in_q'[k] = in_q[k]
        /\ in_q'[len] = [in_q[len] EXCEPT !.n = d.n]
      BY <1>1, <2>1, <2>2
  <2>4. in_q'[len] \in Input /\ in_q'[len].n = d.n
      BY <1>1, <1>2, <2>1, <2>3 DEF Input
  <2>5. in_q' \in Seq(Input) /\ Len(in_q') = len
    <3>1. in_q' = [in_q EXCEPT ![len] = in_q'[len]]
        BY <1>1, <2>1, <2>2
    <3>2. PICK y \in Input : y = in_q'[len]
        BY <2>4
    <3>3. len \in 1 .. Len(in_q)
        BY <2>1
    <3>4. /\ [in_q EXCEPT ![len] = y] \in Seq(Input)
          /\ Len([in_q EXCEPT ![len] = y]) = Len(in_q)
        BY <1>1, <3>3, ExceptSeq
    <3> QED BY <3>1, <3>2, <3>4
  <2>6. Ascending(in_q')
    <3> SUFFICES ASSUME NEW i \in 1 .. len, NEW j \in 1 .. len, i < j
                 PROVE  in_q'[i].n < in_q'[j].n
        BY <2>3 DEF Ascending
    <3>0. i # len
      <4>1. len \in Nat /\ i \in Nat /\ j \in Nat /\ j <= len
          BY <1>1
      <4> QED BY <4>1
    <3>1. in_q'[i] = in_q[i]
        BY <2>3, <3>0
    <3>4. in_q[i] \in Entries(in_q)
        BY <1>1 DEF Entries
    <3>2. CASE j = len
        BY <2>4, <3>1, <3>2, <3>4
    <3>3. CASE j # len
        BY <1>1, <2>3, <3>1, <3>3 DEF Ascending
    <3> QED BY <3>2, <3>3
  <2>7. ASSUME NEW e \in Entries(in_q') PROVE e \in Entries(in_q) \/ e.n = d.n
    <3>1. PICK k \in 1 .. len : e = in_q'[k]
        BY <2>3 DEF Entries
    <3>2. CASE k = len
        BY <2>4, <3>1, <3>2
    <3>3. CASE k # len
        BY <1>1, <2>3, <3>1, <3>3 DEF Entries
    <3> QED BY <3>2, <3>3
  <2> QED BY <1>1, <2>5, <2>6, <2>7
<1> QED BY <1>3, <1>4, <1>5

\* A packet is gone from the channel; the rest of the system has not moved.
LEMMA DeltaDropped ==
    ASSUME InputInv, up # <<>>, up' = Tail(up),
           UNCHANGED <<clientVars, serverVars, down, events, historyVars>>
    PROVE  InputInv'
<1>1. /\ TypeOK /\ EventsInv /\ UpInv /\ ClientInv
      /\ DownInv /\ ServerInv /\ QueueInv /\ up \in Seq(Delta)
    BY DEF InputInv, TypeOK
<1>2. /\ up' \in Seq(Delta) /\ Entries(up') \subseteq Entries(up)
      /\ Ascending(up')
    BY <1>1, Taken, TakenAscends DEF UpInv
<1>3. TypeOK'
    BY <1>1, <1>2 DEF TypeOK, clientVars, serverVars, historyVars
<1>4. EventsInv' /\ ClientInv' /\ QueueInv'
    BY <1>1, PartsRead DEF clientVars, serverVars, historyVars
<1>5. UpInv'
    BY <1>1, <1>2 DEF UpInv, clientVars, historyVars, Entries, Ascending
<1>6. DownInv'
  <2>1. ASSUME NEW s, SnapshotInv(s) PROVE SnapshotInv(s)'
      BY <1>2, <2>1
      DEF SnapshotInv, Entries, clientVars, serverVars, historyVars
  <2> QED BY <1>1, <2>1 DEF DownInv, InOrder, Entries, clientVars
<1>7. ServerInv'
    BY <1>1, <1>2 DEF ServerInv, Entries, clientVars, serverVars, historyVars
<1> QED BY <1>3, <1>4, <1>5, <1>6, <1>7 DEF InputInv

LEMMA ReceiveDeltaInput ==
    ASSUME InputInv, ReceiveDelta
    PROVE  InputInv'
<1> DEFINE d == Head(up)
<1>1. /\ up # <<>> /\ up' = Tail(up)
      /\ UNCHANGED <<clientVars, round, s_state, have_applied, applied, down,
                     events, first, heard, served>>
      /\ dropped' \subseteq dropped \cup MovesOf(d)
    BY DEF ReceiveDelta, Kept
<1>2. /\ TypeOK /\ EventsInv /\ UpInv /\ ClientInv
      /\ DownInv /\ ServerInv /\ QueueInv /\ up \in Seq(Delta)
    BY DEF InputInv, TypeOK
<1>3. CASE UNCHANGED <<have_delta, last_delta, in_q, dropped>>
    BY <1>1, <1>3, DeltaDropped DEF serverVars, historyVars
<1>4. CASE /\ OfThisRound(d) /\ have_delta' = TRUE /\ last_delta' = d.n
           /\ \/ /\ Foldable(d.joy) /\ in_q' = Folded(d.n)
              \/ /\ Len(in_q) < INPUT_QUEUE_MAX
                 /\ in_q' = Append(in_q, [n |-> d.n, joy |-> d.joy])
              \/ UNCHANGED in_q
  <2>1. /\ d \in Delta /\ d \in Entries(up)
        /\ up' \in Seq(Delta) /\ Entries(up') \subseteq Entries(up)
        /\ Ascending(up') /\ \A x \in Entries(up') : d.n < x.n
      BY <1>1, <1>2, Taken, TakenAscends DEF UpInv
  <2> HIDE DEF d
  <2>2. /\ d.n \in Number /\ d.n \in Nat /\ d.n < n
        /\ d.round = c_round /\ c_round = round /\ first <= d.n
        /\ s_state = "playing"
    <3>1. d.n \in Number /\ d.n \in Nat /\ d.n < n /\ d.round <= c_round
          /\ d.round = round /\ s_state = "playing"
          /\ c_round \in Nat /\ round \in Nat
        BY <1>2, <1>4, <2>1, Typed DEF UpInv, Delta, OfThisRound
    <3>2. c_round = round
        BY <3>1, ClientNotAhead
    <3> QED BY <1>2, <2>1, <3>1, <3>2 DEF UpInv
  <2>3. /\ first \in Nat /\ last_delta \in Nat /\ applied \in Nat
        /\ heard \in Nat /\ n \in Nat
        /\ \A e \in Entries(in_q) : e.n \in Nat
      BY <1>2, Typed
  <2>4. /\ \A e \in Entries(in_q) : e.n < d.n
        /\ have_applied => applied < d.n
    <3>1. have_delta => last_delta < d.n
        BY <1>2, <2>1 DEF ServerInv
    <3>2. Entries(in_q) # {} => have_delta
        BY <1>2, NoEntries DEF QueueInv
    <3> QED BY <1>2, <2>2, <2>3, <3>1, <3>2 DEF ServerInv, QueueInv
  <2>5. /\ in_q' \in Seq(Input) /\ Len(in_q') <= INPUT_QUEUE_MAX
        /\ Ascending(in_q')
        /\ \A e \in Entries(in_q') : e \in Entries(in_q) \/ e.n = d.n
      BY <1>2, <1>4, <2>1, <2>4, Joined
  <2>7. dropped' \subseteq Number
      BY <1>1, <1>2, <2>2 DEF MovesOf, TypeOK, d
  <2>8. TypeOK'
      BY <1>1, <1>2, <1>4, <2>1, <2>2, <2>5, <2>7 DEF TypeOK, clientVars
  <2>9. EventsInv' /\ ClientInv'
      BY <1>1, <1>2, PartsRead DEF clientVars
  <2>10. UpInv'
      BY <1>1, <1>2, <2>1 DEF UpInv, clientVars, Entries, Ascending
  <2>11. DownInv'
    <3>1. ASSUME NEW s, SnapshotInv(s) PROVE SnapshotInv(s)'
      <4>1. s.valid => \A e \in Entries(in_q') : s.ack < e.n
          BY <2>1, <2>5, <3>1 DEF SnapshotInv
      <4>2. s.valid => \A x \in Entries(up') : s.ack < x.n
          BY <2>1, <3>1 DEF SnapshotInv
      <4> QED BY <1>1, <3>1, <4>1, <4>2 DEF SnapshotInv, Entries, clientVars
    <3> QED BY <1>1, <1>2, <3>1 DEF DownInv, InOrder, Entries, clientVars
  <2>12. ServerInv'
    <3>1. have_applied => /\ first <= applied /\ applied <= d.n
                          /\ \A e \in Entries(in_q') : applied < e.n
        BY <1>2, <2>2, <2>3, <2>4, <2>5 DEF ServerInv
    <3> QED BY <1>1, <1>2, <1>4, <2>1, <2>2, <3>1
        DEF ServerInv, Entries, clientVars
  <2>13. QueueInv'
    <3>1. \A e \in Entries(in_q') : first <= e.n /\ e.n <= d.n
        BY <1>2, <2>2, <2>3, <2>4, <2>5 DEF QueueInv
    <3> QED BY <1>1, <1>4, <2>2, <2>5, <3>1
        DEF QueueInv, Entries, Ascending
  <2> QED BY <2>8, <2>9, <2>10, <2>11, <2>12, <2>13 DEF InputInv
<1> QED BY <1>3, <1>4 DEF ReceiveDelta

\* Serving the head of the queue, or nothing.
LEMMA Served ==
    ASSUME InputInv,
           \/ /\ in_q # <<>>
              /\ applied' = Head(in_q).n
              /\ have_applied' = TRUE
              /\ in_q' = Tail(in_q)
           \/ UNCHANGED <<in_q, applied, have_applied>>,
           UNCHANGED <<clientVars, round, s_state, have_delta, last_delta, up,
                       events, first, heard>>
    PROVE  /\ in_q' \in Seq(Input) /\ Len(in_q') <= INPUT_QUEUE_MAX
           /\ applied' \in Number /\ have_applied' \in BOOLEAN
           /\ Entries(in_q') \subseteq Entries(in_q)
           /\ have_applied => have_applied' /\ applied <= applied'
           /\ ServerInv' /\ QueueInv'
<1>1. /\ TypeOK /\ ServerInv /\ QueueInv
      /\ in_q \in Seq(Input) /\ Len(in_q) <= INPUT_QUEUE_MAX
      /\ applied \in Number /\ have_applied \in BOOLEAN
    BY DEF InputInv, TypeOK
<1>2. /\ applied \in Nat /\ last_delta \in Nat /\ first \in Nat
      /\ heard \in Nat /\ \A e \in Entries(in_q) : e.n \in Nat
    BY <1>1, Typed
<1>3. CASE UNCHANGED <<in_q, applied, have_applied>>
  <2>1. ServerInv' /\ QueueInv'
      BY <1>1, <1>3, PartsRead DEF clientVars
  <2> QED BY <1>1, <1>2, <1>3, <2>1
<1>4. CASE /\ in_q # <<>>
           /\ applied' = Head(in_q).n
           /\ have_applied' = TRUE
           /\ in_q' = Tail(in_q)
  <2> DEFINE h == Head(in_q)
  <2>1. /\ h \in Input /\ h \in Entries(in_q) /\ in_q' \in Seq(Input)
        /\ Len(in_q') = Len(in_q) - 1 /\ Len(in_q) \in Nat
        /\ Entries(in_q') \subseteq Entries(in_q)
        /\ Entries(in_q) = Entries(in_q') \cup {h}
        /\ Ascending(in_q') /\ \A e \in Entries(in_q') : h.n < e.n
      BY <1>1, <1>4, Taken, TakenAscends DEF QueueInv
  <2>2. h.n \in Number /\ h.n \in Nat
      BY <1>2, <2>1 DEF Input
  <2>3. /\ have_delta /\ first <= h.n /\ h.n <= last_delta
        /\ have_applied => applied < h.n
      BY <1>1, <1>4, <2>1 DEF ServerInv, QueueInv
  <2>4. applied' = h.n /\ have_applied' = TRUE
      BY <1>4
  <2> HIDE DEF h
  <2>5. ServerInv'
    <3>1. c_round = round => heard <= first \/ heard <= applied'
        BY <1>1, <1>2, <2>2, <2>3, <2>4 DEF ServerInv
    <3> QED BY <1>1, <2>1, <2>3, <2>4, <3>1 DEF ServerInv, Entries, clientVars
  <2>6. QueueInv'
    <3>1. in_q' # <<>> => have_delta /\ s_state = "playing"
        BY <1>1, <1>4 DEF QueueInv
    <3> QED BY <1>1, <2>1, <3>1 DEF QueueInv, Ascending, Entries
  <2>7. Len(in_q') <= INPUT_QUEUE_MAX
      BY <1>1, <2>1
  <2>8. have_applied => have_applied' /\ applied <= applied'
      BY <1>2, <2>2, <2>3, <2>4
  <2> QED BY <1>1, <2>1, <2>2, <2>4, <2>5, <2>6, <2>7, <2>8
<1> QED BY <1>3, <1>4

LEMMA TickInput ==
    ASSUME InputInv, Tick
    PROVE  InputInv'
<1>0. PICK t : t = [round |-> round, valid |-> have_applied', ack |-> applied']
    OBVIOUS
<1>1. /\ UNCHANGED <<clientVars, round, s_state, have_delta, last_delta, up,
                     events, first, heard, dropped>>
      /\ down' = Append(down, t) \/ down' = down
    BY <1>0 DEF Tick
<1>2. /\ in_q' \in Seq(Input) /\ Len(in_q') <= INPUT_QUEUE_MAX
      /\ applied' \in Number /\ have_applied' \in BOOLEAN
      /\ Entries(in_q') \subseteq Entries(in_q)
      /\ have_applied => have_applied' /\ applied <= applied'
      /\ ServerInv' /\ QueueInv'
    BY Served DEF Tick
<1>3. /\ TypeOK /\ EventsInv /\ UpInv /\ ClientInv /\ DownInv /\ ServerInv
      /\ down \in Seq(Snapshot) /\ round \in Round
    BY DEF InputInv, TypeOK
<1>4. /\ applied \in Nat /\ applied' \in Nat /\ last_delta \in Nat
      /\ first \in Nat /\ heard \in Nat /\ n \in Nat
      /\ round \in Nat /\ c_round \in Nat
    BY <1>2, <1>3, Typed DEF Number
<1>5. t \in Snapshot /\ t.round = round /\ t.valid = have_applied'
      /\ t.ack = applied'
    BY <1>0, <1>2, <1>3 DEF Snapshot
<1>6. /\ down' \in Seq(Snapshot)
      /\ Entries(down') \subseteq Entries(down) \cup {t}
  <2>1. /\ Append(down, t) \in Seq(Snapshot)
        /\ Entries(Append(down, t)) = Entries(down) \cup {t}
      BY <1>3, <1>5, Appended
  <2>2. CASE down' = Append(down, t)
      BY <2>1, <2>2
  <2>3. CASE down' = down
      BY <1>3, <2>3
  <2> QED BY <1>1, <2>2, <2>3
<1>7. TypeOK'
  <2>1. served' \subseteq Number
    <3>1. CASE served' = served
        BY <1>3, <3>1 DEF TypeOK
    <3>2. CASE in_q # <<>> /\ served' = served \cup Kept(MovesOf(Head(in_q)), ring)
      <4>1. Head(in_q) \in Input
          BY <1>3, <3>2, Taken DEF TypeOK
      <4>2. Kept(MovesOf(Head(in_q)), ring) \subseteq Number
          BY <4>1 DEF Input, Kept, MovesOf
      <4> QED BY <1>3, <3>2, <4>2 DEF TypeOK
    <3> QED BY <3>1, <3>2 DEF Tick
  <2> QED BY <1>1, <1>2, <1>3, <1>6, <2>1 DEF TypeOK, clientVars
<1>8. EventsInv' /\ UpInv' /\ ClientInv'
    BY <1>1, <1>3, PartsRead DEF clientVars
<1>9. ASSUME NEW s, s.ack \in Nat, SnapshotInv(s) PROVE SnapshotInv(s)'
  <2>1. s.valid /\ s.round = round => have_applied' /\ s.ack <= applied'
      BY <1>2, <1>4, <1>9 DEF SnapshotInv
  <2>2. s.valid => \A e \in Entries(in_q') : s.ack < e.n
      BY <1>2, <1>9 DEF SnapshotInv
  <2> QED BY <1>1, <1>9, <2>1, <2>2 DEF SnapshotInv, Entries, clientVars
<1>10. SnapshotInv(t)'
  <2> SUFFICES ASSUME have_applied' PROVE SnapshotInv(t)'
      BY <1>1, <1>4, <1>5 DEF SnapshotInv
  <2>1. /\ have_delta /\ first <= applied' /\ applied' <= last_delta
        /\ \A e \in Entries(in_q') : applied' < e.n
        /\ c_round = round /\ last_delta < n
        /\ \A x \in Entries(up) : last_delta < x.n
      BY <1>1, <1>2 DEF ServerInv, Entries, clientVars
  <2>2. heard <= applied'
      BY <1>1, <1>2, <1>4, <2>1 DEF ServerInv, clientVars
  <2>3. \A x \in Entries(up) : applied' < x.n
      BY <1>3, <1>4, <2>1, Typed
  <2> QED BY <1>1, <1>4, <1>5, <2>1, <2>2, <2>3
      DEF SnapshotInv, Entries, clientVars
<1>11. ASSUME NEW s, s.ack \in Nat, SnapshotInv(s) PROVE InOrder(s, t)
    BY <1>2, <1>4, <1>5, <1>11 DEF InOrder, SnapshotInv
<1>12. DownInv'
  <2>1. \A s \in Entries(down) : SnapshotInv(s) /\ s.ack \in Nat
      BY <1>3, Typed DEF DownInv
  <2>2. stage # NoSnapshot => SnapshotInv(stage) /\ stage.ack \in Nat
      BY <1>3, Typed DEF DownInv
  <2>3. \A s \in Entries(down') : SnapshotInv(s)'
    <3>1. \A s \in Entries(down) : SnapshotInv(s)'
        BY <1>9, <2>1
    <3>2. \A s \in {t} : SnapshotInv(s)'
        BY <1>10 DEF SnapshotInv
    <3> QED BY <1>6, <3>1, <3>2
  <2>4. (stage # NoSnapshot => SnapshotInv(stage))'
    <3>1. stage # NoSnapshot => SnapshotInv(stage)'
        BY <1>1, <1>9, <2>2 DEF clientVars
    <3> QED BY <1>1, <3>1 DEF clientVars
  <2>5. \A i, j \in DOMAIN down' : i < j => InOrder(down'[i], down'[j])
    <3>1. CASE down' = down
        BY <1>3, <3>1 DEF DownInv
    <3>2. CASE down' = Append(down, t)
      <4>1. /\ Len(down) \in Nat /\ DOMAIN down = 1 .. Len(down)
            /\ DOMAIN down' = 1 .. Len(down) + 1
            /\ \A k \in DOMAIN down : down'[k] = down[k]
            /\ down'[Len(down) + 1] = t
          BY <1>3, <1>5, <1>6, <3>2, Appended, LenProperties
      <4> SUFFICES ASSUME NEW i \in 1 .. Len(down) + 1,
                          NEW j \in 1 .. Len(down) + 1, i < j
                   PROVE  InOrder(down'[i], down'[j])
          BY <4>1
      <4>2. i \in DOMAIN down /\ down'[i] = down[i] /\ down[i] \in Entries(down)
        <5>1. i \in 1 .. Len(down)
            BY <4>1
        <5> QED BY <4>1, <5>1 DEF Entries
      <4>3. CASE j = Len(down) + 1
        <5>1. InOrder(down[i], t)
            BY <1>11, <2>1, <4>2
        <5> QED BY <4>1, <4>2, <4>3, <5>1
      <4>4. CASE j # Len(down) + 1
        <5>1. j \in DOMAIN down
            BY <4>1, <4>4
        <5> QED BY <1>3, <4>1, <4>2, <5>1 DEF DownInv
      <4> QED BY <4>3, <4>4
    <3> QED BY <1>1, <3>1, <3>2
  <2>6. stage # NoSnapshot => \A s \in Entries(down') : InOrder(stage, s)
    <3>1. stage # NoSnapshot => \A s \in Entries(down) : InOrder(stage, s)
        BY <1>3 DEF DownInv
    <3>2. stage # NoSnapshot => InOrder(stage, t)
        BY <1>11, <2>2
    <3> QED BY <1>6, <3>1, <3>2
  <2> QED BY <1>1, <2>3, <2>4, <2>5, <2>6
      DEF DownInv, Entries, InOrder, clientVars
<1> QED BY <1>2, <1>7, <1>8, <1>12 DEF InputInv

\* One more event: it leads to where the server is now.
LEMMA EventAnnounced ==
    ASSUME InputInv,
           NEW e \in [kind : {"MATCH_END", "ROUND_START"}, round : Round],
           events' = Append(events, e), UNCHANGED <<c_round, c_state>>,
           LeadsTo(e) = ServerAt', ServerAt' = ServerAt + 1
    PROVE  /\ events'
                 \in Seq([kind : {"MATCH_END", "ROUND_START"}, round : Round])
           /\ EventsInv'
<1> DEFINE E == [kind : {"MATCH_END", "ROUND_START"}, round : Round]
           len == Len(events)
<1>1. /\ events \in Seq(E) /\ len \in Nat /\ DOMAIN events = 1 .. len
      /\ c_round \in Nat /\ round \in Nat
    BY Typed, LenProperties DEF InputInv, TypeOK
<1>2. ClientAt \in Int /\ ServerAt \in Int /\ ClientAt' = ClientAt
    BY <1>1 DEF ClientAt, ServerAt, Progress
<1>3. /\ events' \in Seq(E) /\ Len(events') = len + 1
      /\ \A k \in 1 .. len : events'[k] = events[k]
      /\ events'[len + 1] = e
    BY <1>1, Appended
<1>4. DOMAIN events' = 1 .. len + 1
    BY <1>3, LenProperties
<1>5. len = ServerAt - ClientAt /\
      \A k \in 1 .. len : LeadsTo(events[k]) = ClientAt + k
    BY <1>1 DEF InputInv, EventsInv
<1>6. ASSUME NEW k \in 1 .. len + 1
      PROVE  LeadsTo(events'[k]) = ClientAt + k
  <2>1. CASE k = len + 1
      BY <1>1, <1>2, <1>3, <1>5, <2>1
  <2>2. CASE k # len + 1
    <3>1. k \in 1 .. len
        BY <1>1, <2>2
    <3> QED BY <1>3, <1>5, <3>1
  <2> QED BY <2>1, <2>2
<1>7. Len(events') = ServerAt' - ClientAt
    BY <1>1, <1>2, <1>3, <1>5
<1> QED BY <1>2, <1>3, <1>4, <1>6, <1>7 DEF EventsInv, LeadsTo, Progress

LEMMA RoundOverInput ==
    ASSUME InputInv, EnterRoundOver
    PROVE  InputInv'
<1> DEFINE e == [kind |-> "MATCH_END", round |-> round]
<1>1. /\ s_state = "playing" /\ s_state' = "over"
      /\ in_q' = <<>> /\ events' = Append(events, e)
      /\ UNCHANGED <<clientVars, round, have_delta, last_delta, have_applied,
                     applied, up, down, first, heard, served, dropped>>
    BY DEF EnterRoundOver, historyVars
<1>2. /\ TypeOK /\ UpInv /\ ClientInv /\ DownInv /\ ServerInv
      /\ round \in Round /\ round \in Nat
    BY Typed DEF InputInv, TypeOK
<1>3. e \in [kind : {"MATCH_END", "ROUND_START"}, round : Round]
    BY <1>2
<1>4. LeadsTo(e) = ServerAt' /\ ServerAt' = ServerAt + 1
    BY <1>1, <1>2 DEF LeadsTo, ServerAt, Progress
<1> HIDE DEF e
<1>5. /\ events' \in Seq([kind : {"MATCH_END", "ROUND_START"}, round : Round])
      /\ EventsInv'
    BY <1>1, <1>3, <1>4, EventAnnounced DEF clientVars
<1>6. /\ in_q' \in Seq(Input) /\ Len(in_q') = 0 /\ Entries(in_q') = {}
      /\ Ascending(in_q')
    BY <1>1, EmptySeq, NoEntries
<1>7. TypeOK'
    BY <1>1, <1>2, <1>5, <1>6 DEF TypeOK, clientVars
<1>8. UpInv' /\ ClientInv'
    BY <1>1, <1>2, PartsRead DEF clientVars
<1>9. DownInv'
  <2>1. ASSUME NEW s, SnapshotInv(s) PROVE SnapshotInv(s)'
      BY <1>1, <1>6, <2>1 DEF SnapshotInv, Entries, clientVars
  <2> QED BY <1>1, <1>2, <2>1 DEF DownInv, InOrder, Entries, clientVars
<1>10. ServerInv'
    BY <1>1, <1>2, <1>6 DEF ServerInv, Entries, clientVars
<1>11. QueueInv'
    BY <1>1, <1>6 DEF QueueInv, Entries, Ascending
<1> QED BY <1>5, <1>7, <1>8, <1>9, <1>10, <1>11 DEF InputInv

LEMMA ResetRoundInput ==
    ASSUME InputInv, ResetRound
    PROVE  InputInv'
<1> DEFINE e == [kind |-> "ROUND_START", round |-> round + 1]
<1>1. /\ s_state = "over" /\ round < MaxRounds
      /\ round' = round + 1 /\ s_state' = "playing"
      /\ have_delta' = FALSE /\ have_applied' = FALSE
      /\ in_q' = <<>> /\ events' = Append(events, e)
      /\ UNCHANGED <<clientVars, last_delta, applied, up, down, first, heard,
                     served, dropped>>
    BY DEF ResetRound, Baseline, historyVars
<1>2. /\ TypeOK /\ UpInv /\ ClientInv /\ DownInv /\ ServerInv /\ QueueInv
      /\ round \in Nat /\ c_round \in Nat /\ c_round <= round
    BY Typed, ClientNotAhead DEF InputInv, TypeOK
<1>3. round' \in Round /\ round' \in Nat
      /\ e \in [kind : {"MATCH_END", "ROUND_START"}, round : Round]
    BY <1>1, <1>2 DEF Round
<1>4. LeadsTo(e) = ServerAt' /\ ServerAt' = ServerAt + 1
    BY <1>1, <1>2 DEF LeadsTo, ServerAt, Progress
<1> HIDE DEF e
<1>5. /\ events' \in Seq([kind : {"MATCH_END", "ROUND_START"}, round : Round])
      /\ EventsInv'
    BY <1>1, <1>3, <1>4, EventAnnounced DEF clientVars
<1>6. /\ in_q' \in Seq(Input) /\ Len(in_q') = 0 /\ Entries(in_q') = {}
      /\ Ascending(in_q') /\ Entries(in_q) = {}
  <2>1. in_q = <<>>
      BY <1>1, <1>2 DEF QueueInv
  <2> QED BY <1>1, <2>1, EmptySeq, NoEntries
<1>7. TypeOK'
  <2>1. have_delta' \in BOOLEAN /\ have_applied' \in BOOLEAN
      BY <1>1
  <2>2. Len(in_q') <= INPUT_QUEUE_MAX
      BY <1>6
  <2> QED BY <1>1, <1>2, <1>3, <1>5, <1>6, <2>1, <2>2 DEF TypeOK, clientVars
<1>8. UpInv' /\ ClientInv'
    BY <1>1, <1>2, PartsRead DEF clientVars
<1>9. DownInv'
  <2>1. ASSUME NEW s, s.round \in Nat, SnapshotInv(s) PROVE SnapshotInv(s)'
      BY <1>1, <1>2, <1>6, <2>1 DEF SnapshotInv, Entries, clientVars
  <2>2. /\ \A s \in Entries(down) : SnapshotInv(s)'
        /\ stage # NoSnapshot => SnapshotInv(stage)'
      BY <1>1, <1>2, <2>1, Typed DEF DownInv, clientVars
  <2> QED BY <1>1, <1>2, <2>2 DEF DownInv, InOrder, Entries, clientVars
<1>10. ServerInv'
    BY <1>1, <1>2 DEF ServerInv, clientVars
<1>11. QueueInv'
    BY <1>1, <1>2, <1>6 DEF QueueInv, Entries, Ascending
<1> QED BY <1>5, <1>7, <1>8, <1>9, <1>10, <1>11 DEF InputInv

LEMMA StutterInput ==
    ASSUME InputInv, UNCHANGED vars
    PROVE  InputInv'
<1>1. TypeOK'
    BY DEF InputInv, TypeOK, vars, clientVars, serverVars, channelVars,
           historyVars
<1>2. /\ EventsInv' /\ UpInv' /\ ClientInv' /\ DownInv' /\ ServerInv'
      /\ QueueInv'
    BY PartsRead DEF InputInv, vars, clientVars, serverVars, channelVars,
                historyVars
<1> QED BY <1>1, <1>2 DEF InputInv

\* InputInv is an inductive invariant of the pipeline.
THEOREM InputInvariance == Spec => []InputInv
<1>1. InputInv /\ [Next]_vars => InputInv'
  <2> SUFFICES ASSUME InputInv, [Next]_vars PROVE InputInv'
      OBVIOUS
  <2>1. CASE Transmit
      BY <2>1, TransmitInput
  <2>2. CASE TransmitOther
      BY <2>2, TransmitOtherInput
  <2>3. CASE ReceiveSnapshot
      BY <2>3, ReceiveSnapshotInput
  <2>4. CASE Commit
      BY <2>4, CommitInput
  <2>5. CASE ReceiveEvent
      BY <2>5, ReceiveEventInput
  <2>6. CASE ReceiveDelta
      BY <2>6, ReceiveDeltaInput
  <2>7. CASE Tick
      BY <2>7, TickInput
  <2>8. CASE EnterRoundOver
      BY <2>8, RoundOverInput
  <2>9. CASE ResetRound
      BY <2>9, ResetRoundInput
  <2>10. CASE UNCHANGED vars
      BY <2>10, StutterInput
  <2> QED BY <2>1, <2>2, <2>3, <2>4, <2>5, <2>6, <2>7, <2>8, <2>9, <2>10
          DEF Next
<1> QED BY InitInput, <1>1, PTL DEF Spec

----------------------------------------------------------------------------
(* What the pipeline promises                                              *)

\* No input of an earlier round moves an actor in a later one, however late
\* it arrives and wherever the round changed under it (the round id of DELTA,
\* enter_round_over, reset_round).
THEOREM ServedCorrect == Spec => []ServedIsOfThisRound
<1>1. InputInv => ServedIsOfThisRound
  <2> SUFFICES ASSUME InputInv PROVE ServedIsOfThisRound
      OBVIOUS
  <2>1. c_round # round => in_q = <<>> /\ ~have_applied
      BY DEF InputInv, ServerInv, QueueInv
  <2>2. \A k \in Numbers(in_q) : k >= first
    <3> SUFFICES ASSUME NEW i \in DOMAIN in_q PROVE in_q[i].n >= first
        BY DEF Numbers
    <3>1. first <= in_q[i].n
        BY DEF InputInv, QueueInv, Entries
    <3> QED BY <3>1
  <2>3. have_applied => applied >= first
      BY DEF InputInv, ServerInv
  <2> QED BY <2>1, <2>2, <2>3 DEF ServedIsOfThisRound
<1> QED BY InputInvariance, <1>1, PTL

\* A delta of the running round is less than half a circle ahead of the
\* freshness baseline.
LEMMA NothingIsStale == InputInv => NeverStale
<1> SUFFICES ASSUME InputInv, up # <<>>, OfThisRound(Head(up)), have_delta
             PROVE  Fresh(Head(up).n)
    BY DEF NeverStale, Fresh
<1> DEFINE d == Head(up)
<1>1. /\ d \in Entries(up) /\ d.n \in Nat /\ d.round \in Nat
      /\ n \in Nat /\ first \in Nat /\ heard \in Nat /\ applied \in Nat
      /\ last_delta \in Nat /\ c_round \in Nat /\ round \in Nat
      /\ Half \in Nat /\ MaxLag \in Nat /\ MaxLag < Half
      /\ SeqMod = 2 * Half
  <2>1. TypeOK /\ d \in Entries(up)
      BY Taken DEF InputInv, TypeOK
  <2> QED BY <2>1, Typed, HalfIsHalf
<1>2. d.round = round /\ s_state = "playing"
    BY DEF OfThisRound
<1> HIDE DEF d
<1>3. c_round = round
  <2>1. d.round <= c_round
      BY <1>1 DEF InputInv, UpInv
  <2> QED BY <1>1, <1>2, <2>1, ClientNotAhead
<1>4. c_state # "over"
  <2>1. Len(events) \in Nat
      BY LenProperties DEF InputInv, TypeOK
  <2> QED BY <1>1, <1>2, <1>3, <2>1
          DEF InputInv, EventsInv, ClientAt, ServerAt, Progress
<1>5. /\ n <= first + MaxLag \/ n <= heard + MaxLag
      /\ d.n < n
    BY <1>1, <1>4 DEF InputInv, ClientInv, UpInv
<1>6. /\ first <= last_delta /\ last_delta < d.n
      /\ heard <= first \/ (heard <= applied /\ applied <= last_delta)
    BY <1>1, <1>3 DEF InputInv, ServerInv
<1>7. d.n - last_delta \in 1 .. Half - 1
    BY <1>1, <1>5, <1>6
<1>8. last_delta <= d.n /\ d.n - last_delta < SeqMod
    BY <1>1, <1>7
<1>9. AheadOf(d.n, last_delta) = d.n - last_delta
    BY <1>1, <1>8, AheadIsDistance
<1> QED BY <1>7, <1>9 DEF Fresh, d

\* A delta of the running round is never taken for a repetition, for any
\* number of heartbeats between rounds (delta_seq_is_fresh, reset_round).
THEOREM FreshCorrect == Spec => []NeverStale
<1> QED BY InputInvariance, NothingIsStale, PTL

\* Only the interrupt empties the stage.
LEMMA OnlyCommitEmpties ==
    ASSUME InputInv, Next, stage # NoSnapshot, stage' = NoSnapshot
    PROVE  Commit
<1>1. ASSUME ReceiveSnapshot PROVE FALSE
  <2>1. stage' = Head(down)
      BY <1>1 DEF ReceiveSnapshot
  <2>2. Head(down) \in Snapshot
      BY <1>1, Taken DEF InputInv, TypeOK, ReceiveSnapshot
  <2> QED BY <2>1, <2>2
<1>2. ASSUME stage' = stage PROVE FALSE
    BY <1>2
<1> QED BY <1>1, <1>2
        DEF Next, Transmit, TransmitOther, ReceiveEvent, ReceiveDelta, Tick,
            EnterRoundOver, ResetRound, clientVars

\* What is left in the ring after a snapshot is newer than what the snapshot's
\* position contains: no cell is walked twice (NET_LOCAL_ACK_DISCARD).
THEOREM ReplayCorrect == Spec => ReplayIsExact
<1>1. InputInv /\ [Next]_vars
         => [stage # NoSnapshot /\ stage' = NoSnapshot /\ stage.valid =>
                \A k \in 1 .. Len(ring') : ring'[k].n > stage.ack]_vars
  <2> SUFFICES ASSUME InputInv, Next, stage # NoSnapshot,
                      stage' = NoSnapshot, stage.valid,
                      NEW k \in 1 .. Len(ring')
               PROVE  ring'[k].n > stage.ack
      OBVIOUS
  <2>1. Commit
      BY OnlyCommitEmpties
  <2>2. k \in DOMAIN ring'
    <3>1. ring' \in Seq(Input)
        BY <2>1, CommitRing
    <3> QED BY <3>1, LenProperties
  <2>3. \A e \in Entries(ring') : stage.ack < e.n
      BY <2>1, CommitRing
  <2>4. stage.ack < ring'[k].n
      BY <2>2, <2>3 DEF Entries
  <2> QED BY <2>4
<1> QED BY InputInvariance, <1>1, PTL DEF Spec, ReplayIsExact

----------------------------------------------------------------------------
(* What becomes of the moves in the ring                                   *)

\* The server still serves the round that the client is in.
Serving == c_round = round /\ s_state = "playing"

\* A move that may still be served: it travels or it waits in the queue.
Waiting(k) ==
    \/ \E d \in Entries(up) : d.n = k /\ d.joy = "move" /\ d.round = c_round
    \/ \E e \in Entries(in_q) : e.n = k /\ e.joy = "move"

\* No acknowledgement of the client's round covers number k, nor will the
\* next snapshot's.
NotAcked(s, k) == s.valid /\ s.round = c_round => s.ack < k
Newer(k) ==
    /\ \A s \in Entries(down) : NotAcked(s, k)
    /\ stage # NoSnapshot => NotAcked(stage, k)
    /\ c_round = round /\ have_applied => applied < k

\* A move has been served, it never got into the queue, it may still be served,
\* or the end of the round has cleared it away unacknowledged.
Accounted(k) ==
    k \in served \cup dropped \/ Waiting(k) \/ (~Serving /\ Newer(k))
AccountInv == \A e \in Entries(ring) : e.joy = "move" => Accounted(e.n)

\* What travels or waits is newer than everything that was served.
LEMMA WaitingIsNewer ==
    ASSUME InputInv, NEW k, Waiting(k)
    PROVE  Newer(k)
<1>1. /\ TypeOK /\ DownInv /\ ServerInv /\ QueueInv
      /\ applied \in Nat /\ last_delta \in Nat
      /\ \A d \in Entries(up) : d.n \in Nat
    BY Typed DEF InputInv
<1>2. CASE \E d \in Entries(up) : d.n = k
  <2>1. have_applied => applied < k
      BY <1>1, <1>2 DEF ServerInv
  <2> QED BY <1>1, <1>2, <2>1 DEF DownInv, SnapshotInv, Newer, NotAcked
<1>3. CASE \E e \in Entries(in_q) : e.n = k
  <2>1. have_applied => applied < k
      BY <1>1, <1>3 DEF ServerInv
  <2> QED BY <1>1, <1>3, <2>1 DEF DownInv, SnapshotInv, Newer, NotAcked
<1> QED BY <1>2, <1>3 DEF Waiting

\* Where neither what waits nor what is acknowledged changes, a move needs no
\* new account.
LEMMA SameAccount ==
    ASSUME NEW k, Accounted(k),
           k \in served \cup dropped => k \in served' \cup dropped',
           Entries(up) \subseteq Entries(up'),
           Entries(down') \subseteq Entries(down),
           stage' # NoSnapshot =>
              stage' \in Entries(down) \/ (stage # NoSnapshot /\ stage' = stage),
           UNCHANGED <<c_round, serverVars>>
    PROVE  Accounted(k)'
<1>1. CASE k \in served \cup dropped
    BY <1>1 DEF Accounted
<1>2. CASE Waiting(k)
  <2>1. Waiting(k)'
      BY <1>2 DEF Waiting, Entries, serverVars
  <2> QED BY <2>1 DEF Accounted
<1>3. CASE ~Serving /\ Newer(k)
  <2>1. ~Serving'
      BY <1>3 DEF Serving, serverVars
  <2>2. \A s \in Entries(down') : NotAcked(s, k)'
      BY <1>3 DEF Newer, NotAcked
  <2>3. (stage # NoSnapshot => NotAcked(stage, k))'
      BY <1>3 DEF Newer, NotAcked
  <2>4. (c_round = round /\ have_applied => applied < k)'
      BY <1>3 DEF Newer, serverVars
  <2> QED BY <2>1, <2>2, <2>3, <2>4 DEF Accounted, Newer, Entries
<1> QED BY <1>1, <1>2, <1>3 DEF Accounted

\* Folding takes no move out of the queue.
LEMMA FoldKeepsMoves ==
    ASSUME TypeOK, NEW k, NEW joy, Foldable(joy), in_q' = Folded(k)
    PROVE  \A e \in Entries(in_q) : e.joy = "move" => e \in Entries(in_q')
<1> DEFINE len == Len(in_q)
<1>1. in_q \in Seq(Input) /\ len \in Nat /\ DOMAIN in_q = 1 .. len
    BY LenProperties DEF TypeOK
<1>2. in_q[len].joy = "neutral"
    BY DEF Foldable
<1>3. /\ DOMAIN in_q' = 1 .. len
      /\ \A i \in 1 .. len : i # len => in_q'[i] = in_q[i]
    BY <1>1 DEF Folded
<1> HIDE DEF len
<1>4. ASSUME NEW i \in 1 .. len, in_q[i].joy = "move"
      PROVE  in_q[i] \in Entries(in_q')
  <2>1. i # len
      BY <1>2, <1>4
  <2> QED BY <1>3, <2>1 DEF Entries
<1> QED BY <1>1, <1>4 DEF Entries

\* History is kept as long as the ring holds the move.
LEMMA HistoryKept ==
    ASSUME NEW e \in Entries(ring'),
           \/ UNCHANGED <<served, dropped>>
           \/ /\ served' = Kept(served, ring')
              /\ dropped \cap Numbers(ring') \subseteq dropped'
    PROVE  e.n \in served \cup dropped => e.n \in served' \cup dropped'
<1>1. e.n \in Numbers(ring')
    BY DEF Entries, Numbers
<1> QED BY <1>1 DEF Kept

LEMMA TransmitAccount ==
    ASSUME InputInv, AccountInv, Transmit
    PROVE  AccountInv'
<1>1. PICK joy \in Joy :
         /\ ring' = IF c_state = "ready" THEN Pushed([n |-> n, joy |-> joy])
                    ELSE ring
         /\ \/ /\ up' = Append(up, [n |-> n, joy |-> joy, round |-> c_round])
               /\ dropped' = Kept(dropped, ring')
            \/ /\ UNCHANGED up
               /\ dropped'
                     = Kept(dropped \cup MovesOf([n |-> n, joy |-> joy]), ring')
    BY DEF Transmit, Joy
<1>2. /\ served' = Kept(served, ring')
      /\ UNCHANGED <<c_round, stage, serverVars, down>>
    BY DEF Transmit
<1> DEFINE x == [n |-> n, joy |-> joy]
           d == [n |-> n, joy |-> joy, round |-> c_round]
<1>3. TypeOK /\ ClientInv /\ n \in Number /\ c_round \in Round /\ up \in Seq(Delta)
    BY DEF InputInv, TypeOK
<1>4. /\ x \in Input /\ x.n = n /\ x.joy = joy
      /\ d \in Delta /\ d.n = n /\ d.joy = joy /\ d.round = c_round
    BY <1>3 DEF Input, Delta
<1> HIDE DEF x, d
<1>5. Entries(ring') \subseteq Entries(ring) \cup {x}
  <2>1. c_state = "ready" => Entries(Pushed(x)) \subseteq Entries(ring) \cup {x}
      BY <1>3, <1>4, PushedRing
  <2> QED BY <1>1, <2>1 DEF x
<1>6. \/ up' = up \/ Entries(up') = Entries(up) \cup {d}
  <2>1. Entries(Append(up, d)) = Entries(up) \cup {d}
      BY <1>3, <1>4, Appended
  <2> QED BY <1>1, <2>1 DEF d
<1>7. ASSUME NEW e \in Entries(ring'), e.joy = "move" PROVE Accounted(e.n)'
  <2>1. CASE e \in Entries(ring)
    <3>1. Accounted(e.n)
        BY <1>7, <2>1 DEF AccountInv
    <3>2. e.n \in served \cup dropped => e.n \in served' \cup dropped'
      <4>1. dropped \cap Numbers(ring') \subseteq dropped'
          BY <1>1 DEF Kept
      <4> QED BY <1>2, <4>1, HistoryKept
    <3>3. Entries(up) \subseteq Entries(up') /\ Entries(down') \subseteq Entries(down)
        BY <1>2, <1>6
    <3> QED BY <1>2, <3>1, <3>2, <3>3, SameAccount
  <2>2. CASE e = x /\ Entries(up') = Entries(up) \cup {d}
    <3>1. /\ d \in Entries(up') /\ d.n = e.n /\ d.joy = "move"
          /\ d.round = c_round'
        BY <1>2, <1>4, <1>7, <2>2
    <3>2. Waiting(e.n)'
        BY <3>1 DEF Waiting, Entries
    <3> QED BY <3>2 DEF Accounted
  <2>3. CASE /\ e = x
             /\ dropped' = Kept(dropped \cup MovesOf(x), ring')
    <3>1. e.n \in Numbers(ring')
        BY DEF Entries, Numbers
    <3>2. e.n \in MovesOf(x)
        BY <1>7, <2>3 DEF MovesOf
    <3>3. e.n \in dropped'
        BY <2>3, <3>1, <3>2 DEF Kept
    <3> QED BY <3>3 DEF Accounted
  <2>4. \/ Entries(up') = Entries(up) \cup {d}
        \/ dropped' = Kept(dropped \cup MovesOf(x), ring')
    <3>1. up' = Append(up, d) \/ dropped' = Kept(dropped \cup MovesOf(x), ring')
        BY <1>1 DEF d, x
    <3>2. Entries(Append(up, d)) = Entries(up) \cup {d}
        BY <1>3, <1>4, Appended
    <3> QED BY <3>1, <3>2
  <2> QED BY <1>5, <2>1, <2>2, <2>3, <2>4
<1> QED BY <1>7 DEF AccountInv, Entries

\* The other steps that leave the client in its round.
LEMMA ClientAccount ==
    ASSUME InputInv, AccountInv, TransmitOther \/ ReceiveSnapshot \/ Commit
    PROVE  AccountInv'
<1>1. /\ Entries(ring') \subseteq Entries(ring)
      /\ UNCHANGED <<c_round, serverVars, up>>
      /\ \/ UNCHANGED <<served, dropped>>
         \/ /\ served' = Kept(served, ring')
            /\ dropped \cap Numbers(ring') \subseteq dropped'
  <2>1. CASE TransmitOther \/ ReceiveSnapshot
      BY <2>1 DEF TransmitOther, ReceiveSnapshot, channelVars, historyVars
  <2>2. CASE Commit
      BY <2>2, CommitRing DEF Commit, channelVars, Kept
  <2> QED BY <2>1, <2>2
<1>2. /\ Entries(down') \subseteq Entries(down)
      /\ stage' # NoSnapshot =>
            stage' \in Entries(down) \/ (stage # NoSnapshot /\ stage' = stage)
  <2>1. CASE ReceiveSnapshot
    <3>1. /\ Entries(Tail(down)) \subseteq Entries(down)
          /\ Head(down) \in Entries(down)
        BY <2>1, Taken DEF ReceiveSnapshot, InputInv, TypeOK
    <3> QED BY <2>1, <3>1 DEF ReceiveSnapshot
  <2>2. CASE TransmitOther \/ Commit
      BY <2>2 DEF TransmitOther, Commit, channelVars
  <2> QED BY <2>1, <2>2
<1>3. ASSUME NEW e \in Entries(ring'), e.joy = "move" PROVE Accounted(e.n)'
  <2>1. Accounted(e.n)
      BY <1>1, <1>3 DEF AccountInv
  <2>2. e.n \in served \cup dropped => e.n \in served' \cup dropped'
      BY <1>1, HistoryKept
  <2>3. Entries(up) \subseteq Entries(up')
      BY <1>1
  <2> QED BY <1>1, <1>2, <2>1, <2>2, <2>3, SameAccount
<1> QED BY <1>3 DEF AccountInv, Entries

LEMMA ReceiveEventAccount ==
    ASSUME ReceiveEvent
    PROVE  AccountInv'
<1>1. ring' = <<>>
    BY DEF ReceiveEvent
<1> QED BY <1>1, NoEntries DEF AccountInv, Entries

\* A delta of the running round is queued, folded into a neutral or dropped.
LEMMA ReceiveDeltaAccount ==
    ASSUME InputInv, AccountInv, ReceiveDelta
    PROVE  AccountInv'
<1> DEFINE d == Head(up)
<1>1. /\ up # <<>> /\ up' = Tail(up)
      /\ UNCHANGED <<ring, stage, c_round, round, s_state, have_applied, applied,
                     down, served>>
    BY DEF ReceiveDelta, clientVars
<1>2. TypeOK /\ QueueInv /\ ServerInv /\ up \in Seq(Delta)
    BY DEF InputInv, TypeOK
<1>3. /\ d \in Delta /\ d \in Entries(up)
      /\ Entries(up) = Entries(up') \cup {d}
    BY <1>1, <1>2, Taken
<1>4. \/ /\ ~OfThisRound(d) \/ ~Fresh(d.n)
         /\ UNCHANGED <<in_q, dropped>>
      \/ /\ Foldable(d.joy) /\ in_q' = Folded(d.n)
         /\ UNCHANGED dropped
      \/ /\ Len(in_q) < INPUT_QUEUE_MAX
         /\ in_q' = Append(in_q, [n |-> d.n, joy |-> d.joy])
         /\ UNCHANGED dropped
      \/ /\ in_q' = in_q
         /\ dropped' = dropped \cup Kept(MovesOf(d), ring)
    BY DEF ReceiveDelta
<1>5. OfThisRound(d) => Fresh(d.n)
    BY <1>1, NothingIsStale DEF NeverStale
<1> HIDE DEF d
<1>6. \A e \in Entries(in_q) : e.joy = "move" => e \in Entries(in_q')
  <2>1. CASE in_q' = in_q
      BY <2>1
  <2>2. CASE in_q' # in_q
    <3>1. \/ Foldable(d.joy) /\ in_q' = Folded(d.n)
          \/ /\ Len(in_q) < INPUT_QUEUE_MAX
             /\ in_q' = Append(in_q, [n |-> d.n, joy |-> d.joy])
        BY <1>4, <2>2
    <3>2. CASE Foldable(d.joy) /\ in_q' = Folded(d.n)
        BY <1>2, <3>2, FoldKeepsMoves
    <3>3. CASE in_q' = Append(in_q, [n |-> d.n, joy |-> d.joy])
      <4>1. [n |-> d.n, joy |-> d.joy] \in Input /\ in_q \in Seq(Input)
          BY <1>2, <1>3 DEF Delta, Input, TypeOK
      <4> QED BY <3>3, <4>1, Appended
    <3> QED BY <3>1, <3>2, <3>3
  <2> QED BY <2>1, <2>2
<1>7. dropped \subseteq dropped'
    BY <1>4
<1>8. ASSUME NEW e \in Entries(ring), e.joy = "move" PROVE Accounted(e.n)'
  <2>1. Accounted(e.n)
      BY <1>8 DEF AccountInv
  <2>2. CASE e.n \in served \cup dropped
      BY <1>1, <1>7, <2>2 DEF Accounted
  <2>3. CASE Waiting(e.n) /\ ~Waiting(e.n)'
    <3>1. d.n = e.n /\ d.joy = "move" /\ d.round = c_round
        BY <1>1, <1>3, <1>6, <2>3 DEF Waiting, Entries
    <3>2. CASE Serving
      <4>1. OfThisRound(d)
          BY <3>1, <3>2 DEF Serving, OfThisRound
      <4>2. ~(in_q' = Append(in_q, [n |-> d.n, joy |-> d.joy]))
        <5> SUFFICES ASSUME in_q' = Append(in_q, [n |-> d.n, joy |-> d.joy])
                     PROVE  Waiting(e.n)'
            BY <2>3
        <5>1. [n |-> d.n, joy |-> d.joy] \in Input /\ in_q \in Seq(Input)
            BY <1>2, <1>3 DEF Delta, Input, TypeOK
        <5>2. [n |-> d.n, joy |-> d.joy] \in Entries(in_q')
            BY <5>1, Appended
        <5> QED BY <3>1, <5>2 DEF Waiting, Entries
      <4>3. ~Foldable(d.joy)
          BY <3>1 DEF Foldable
      <4>4. dropped' = dropped \cup Kept(MovesOf(d), ring)
          BY <1>4, <1>5, <4>1, <4>2, <4>3
      <4>5. e.n \in Numbers(ring)
          BY DEF Entries, Numbers
      <4>6. e.n \in MovesOf(d)
          BY <3>1 DEF MovesOf
      <4>7. e.n \in dropped'
          BY <4>4, <4>5, <4>6 DEF Kept
      <4> QED BY <4>7 DEF Accounted
    <3>3. CASE ~Serving
      <4>1. Newer(e.n)
          BY <2>3, WaitingIsNewer
      <4> QED BY <1>1, <3>3, <4>1
              DEF Accounted, Serving, Newer, NotAcked, Entries
    <3> QED BY <3>2, <3>3
  <2>4. CASE Waiting(e.n)'
      BY <2>4 DEF Accounted
  <2>5. CASE ~Serving /\ Newer(e.n)
      BY <1>1, <2>5 DEF Accounted, Serving, Newer, NotAcked, Entries
  <2> QED BY <2>1, <2>2, <2>3, <2>4, <2>5 DEF Accounted
<1> QED BY <1>1, <1>8 DEF AccountInv, Entries

\* A tick serves the head of the queue; what waits behind it is not acked.
LEMMA TickAccount ==
    ASSUME InputInv, AccountInv, Tick
    PROVE  AccountInv'
<1>0. PICK t : t = [round |-> round, valid |-> have_applied', ack |-> applied']
    OBVIOUS
<1>1. /\ UNCHANGED <<ring, stage, c_round, round, s_state, up, dropped>>
      /\ down' = Append(down, t) \/ down' = down
    BY <1>0 DEF Tick, clientVars
<1>2. \/ /\ s_state = "playing" /\ in_q # <<>> /\ in_q' = Tail(in_q)
         /\ served' = served \cup Kept(MovesOf(Head(in_q)), ring)
      \/ UNCHANGED <<in_q, applied, have_applied, served>>
    BY DEF Tick
<1>3. /\ down \in Seq(Snapshot) /\ t \in Snapshot
      /\ t.round = round /\ t.valid = have_applied' /\ t.ack = applied'
  <2>1. applied' \in Number /\ have_applied' \in BOOLEAN
      BY TickInput DEF InputInv, TypeOK
  <2> QED BY <1>0, <2>1 DEF InputInv, TypeOK, Snapshot
<1>4. Entries(down') \subseteq Entries(down) \cup {t}
  <2>1. Entries(Append(down, t)) = Entries(down) \cup {t}
      BY <1>3, Appended
  <2> QED BY <1>1, <2>1
<1>5. ASSUME NEW e \in Entries(ring), e.joy = "move" PROVE Accounted(e.n)'
  <2>1. Accounted(e.n)
      BY <1>5 DEF AccountInv
  <2>2. CASE e.n \in served \cup dropped
      BY <1>1, <1>2, <2>2 DEF Accounted
  <2>3. CASE Waiting(e.n) /\ ~Waiting(e.n)'
    <3>1. PICK f \in Entries(in_q) :
             f.n = e.n /\ f.joy = "move" /\ f \notin Entries(in_q')
        BY <1>1, <2>3 DEF Waiting, Entries
    <3>2. /\ in_q # <<>>
          /\ served' = served \cup Kept(MovesOf(Head(in_q)), ring)
          /\ in_q' = Tail(in_q)
        BY <1>2, <3>1
    <3>3. Entries(in_q) = Entries(Tail(in_q)) \cup {Head(in_q)}
        BY <3>2, Taken DEF InputInv, TypeOK
    <3>4. f = Head(in_q)
        BY <3>1, <3>2, <3>3
    <3>5. e.n \in MovesOf(Head(in_q))
        BY <3>1, <3>4 DEF MovesOf
    <3>6. e.n \in Numbers(ring)
        BY DEF Entries, Numbers
    <3>7. e.n \in served'
        BY <3>2, <3>5, <3>6 DEF Kept
    <3> QED BY <3>7 DEF Accounted
  <2>4. CASE Waiting(e.n)'
      BY <2>4 DEF Accounted
  <2>5. CASE ~Serving /\ Newer(e.n)
    <3>1. ~Serving'
        BY <1>1, <2>5 DEF Serving
    <3>2. c_round = round => UNCHANGED <<applied, have_applied>>
        BY <1>2, <2>5 DEF Serving
    <3>3. c_round = round /\ have_applied' => applied' < e.n
        BY <2>5, <3>2 DEF Newer
    <3>4. \A s \in Entries(down') : NotAcked(s, e.n)
        BY <1>3, <1>4, <2>5, <3>3 DEF Newer, NotAcked
    <3> QED BY <1>1, <2>5, <3>1, <3>3, <3>4
            DEF Accounted, Newer, NotAcked, Entries
  <2> QED BY <2>1, <2>2, <2>3, <2>4, <2>5 DEF Accounted
<1> QED BY <1>1, <1>5 DEF AccountInv, Entries

\* The end of a round and the start of the next.
LEMMA RoundAccount ==
    ASSUME InputInv, AccountInv, EnterRoundOver \/ ResetRound
    PROVE  AccountInv'
<1>1. /\ UNCHANGED <<ring, stage, c_round, up, down, served, dropped>>
      /\ ~Serving'
    BY ClientNotAhead, Typed
    DEF EnterRoundOver, ResetRound, clientVars, historyVars, Serving, InputInv
<1>2. c_round' = round' /\ have_applied' =>
         c_round = round /\ have_applied /\ applied' = applied
    BY DEF EnterRoundOver, ResetRound, clientVars
<1>3. ASSUME NEW e \in Entries(ring), e.joy = "move" PROVE Accounted(e.n)'
  <2>1. Accounted(e.n)
      BY <1>3 DEF AccountInv
  <2>2. CASE e.n \in served \cup dropped
      BY <1>1, <2>2 DEF Accounted
  <2>3. CASE Newer(e.n)
      BY <1>1, <1>2, <2>3 DEF Accounted, Newer, NotAcked, Entries
  <2> QED BY <2>1, <2>2, <2>3, WaitingIsNewer DEF Accounted
<1> QED BY <1>1, <1>3 DEF AccountInv, Entries

THEOREM AccountInvariance == Spec => []AccountInv
<1>1. Init => AccountInv
    BY NoEntries DEF Init, AccountInv
<1>2. InputInv /\ AccountInv /\ [Next]_vars => AccountInv'
  <2> SUFFICES ASSUME InputInv, AccountInv, [Next]_vars PROVE AccountInv'
      OBVIOUS
  <2>1. CASE Transmit
      BY <2>1, TransmitAccount
  <2>2. CASE TransmitOther \/ ReceiveSnapshot \/ Commit
      BY <2>2, ClientAccount
  <2>3. CASE ReceiveEvent
      BY <2>3, ReceiveEventAccount
  <2>4. CASE ReceiveDelta
      BY <2>4, ReceiveDeltaAccount
  <2>5. CASE Tick
      BY <2>5, TickAccount
  <2>6. CASE EnterRoundOver \/ ResetRound
      BY <2>6, RoundAccount
  <2>7. CASE UNCHANGED vars
      BY <2>7
      DEF vars, clientVars, serverVars, channelVars, historyVars, AccountInv,
          Accounted, Waiting, Serving, Newer, NotAcked, Entries
  <2> QED BY <2>1, <2>2, <2>3, <2>4, <2>5, <2>6, <2>7 DEF Next
<1> QED BY InputInvariance, <1>1, <1>2, PTL DEF Spec

\* A move that the client forgets on an acknowledgement has been served by a
\* tick, or it was lost by the line or dropped by a full queue
\* (apply_queued_input, NET_LOCAL_ACK_DISCARD).
THEOREM AckedCorrect == Spec => AckedWasServedOrDropped
<1>1. InputInv /\ AccountInv /\ [Next]_vars
         => [stage # NoSnapshot /\ stage' = NoSnapshot =>
                \A k \in DOMAIN ring :
                   ring[k].joy = "move" /\ ring[k].n \notin Numbers(ring') =>
                      ring[k].n \in served \cup dropped]_vars
  <2> SUFFICES ASSUME InputInv, AccountInv, Next, stage # NoSnapshot,
                      stage' = NoSnapshot,
                      NEW k \in DOMAIN ring,
                      ring[k].joy = "move", ring[k].n \notin Numbers(ring')
               PROVE  ring[k].n \in served \cup dropped
      OBVIOUS
  <2>1. Commit
      BY OnlyCommitEmpties
  <2>2. ring[k] \in Entries(ring) /\ Accounted(ring[k].n)
      BY DEF Entries, AccountInv
  <2>3. stage.valid
    <3> SUFFICES ASSUME ~stage.valid PROVE FALSE
        OBVIOUS
    <3>1. ring' = ring
        BY <2>1, CommitRing
    <3> QED BY <3>1 DEF Numbers
  <2>4. ring[k].n <= stage.ack
      BY <2>1, <2>2, <2>3, CommitRing
  <2>5. ring[k].n \in Nat /\ stage.ack \in Nat
      BY <2>2, Typed DEF InputInv
  <2>6. stage.round = c_round
    <3>1. ring # <<>>
        BY NoEntries
    <3> QED BY <3>1 DEF InputInv, ClientInv
  <2>7. ~Newer(ring[k].n)
      BY <2>3, <2>4, <2>5, <2>6 DEF Newer, NotAcked
  <2> QED BY <2>2, <2>7, WaitingIsNewer DEF Accounted
<1> QED BY InputInvariance, AccountInvariance, <1>1, PTL
        DEF Spec, AckedWasServedOrDropped
=============================================================================
