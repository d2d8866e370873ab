-------------------------- MODULE TcpStreamProofs --------------------------
(***************************************************************************)
(* Whole frames back to back, no packet invented or reordered, and damage  *)
(* that stays where it happened: for all packets, block and buffer sizes   *)
(* and any number of damaged bytes.                                        *)
(***************************************************************************)
EXTENDS TcpStream, TLAPS, SequenceTheorems, WellFoundedInduction

----------------------------------------------------------------------------
(* Runs of a loop                                                          *)

\* Of some naturals one is the least.
LEMMA LeastExists ==
    ASSUME NEW S, S \subseteq Nat, S # {}
    PROVE  \E n \in S : \A m \in S : n <= m
<1> DEFINE R == {ss \in Nat \X Nat : ss[1] < ss[2]}
<1>1. OpToRel(<, Nat) = R
    BY Zenon DEF OpToRel
<1>2. IsWellFoundedOn(R, Nat)
    BY <1>1, NatLessThanWellFounded, Zenon
<1>3. \E n \in S : \A m \in S : <<m, n>> \notin R
  <2> HIDE DEF R
  <2> QED BY <1>2, WFMin, Zenon
<1>4. PICK n \in S : \A m \in S : <<m, n>> \notin R
    BY <1>3
<1>5. ASSUME NEW m \in S PROVE n <= m
  <2>1. m \in Nat /\ n \in Nat
      OBVIOUS
  <2>2. ~(m < n)
      BY <2>1, <1>4
  <2> QED BY <2>1, <2>2
<1> QED BY <1>5

\* The states g of a loop over 1 .. n that starts in base and steps by F.
IsRun(g, F, base, n) ==
    g = [k \in 0 .. n |-> IF k = 0 THEN base ELSE F[<<g[k - 1], k>>]]

\* What holds at the start and is kept by every turn holds after every turn.
LEMMA Turns ==
    ASSUME NEW n \in Nat, NEW P, 0 \in P,
           \A k \in 1 .. n : k - 1 \in P => k \in P
    PROVE  \A k \in 0 .. n : k \in P
<1> DEFINE Bad == {k \in 0 .. n : k \notin P}
<1>1. SUFFICES ASSUME Bad # {} PROVE FALSE
    OBVIOUS
<1>2. PICK k \in Bad : \A m \in Bad : k <= m
  <2>1. Bad \subseteq Nat
      OBVIOUS
  <2> HIDE DEF Bad
  <2> QED BY <1>1, <2>1, LeastExists
<1>3. k \in 1 .. n
    BY <1>2
<1>4. k - 1 \in 0 .. n /\ k - 1 \notin Bad
    BY <1>2, <1>3
<1> QED BY <1>2, <1>3, <1>4

\* A loop that starts among the good states and keeps to them ends among them.
LEMMA RunStaysIn ==
    ASSUME NEW n \in Nat, NEW Good, NEW g, g[0] \in Good,
           \A k \in 1 .. n : g[k - 1] \in Good => g[k] \in Good
    PROVE  \A k \in 0 .. n : g[k] \in Good
<1> DEFINE P == {k \in 0 .. n : g[k] \in Good}
<1>1. 0 \in P
    OBVIOUS
<1>2. \A k \in 1 .. n : k - 1 \in P => k \in P
    OBVIOUS
<1>3. \A k \in 0 .. n : k \in P
  <2> HIDE DEF P
  <2> QED BY <1>1, <1>2, Turns
<1> QED BY <1>3

\* A loop has a run, whatever its number of turns.
LEMMA RunExists ==
    ASSUME NEW n \in Nat, NEW F, NEW base
    PROVE  \E g : IsRun(g, F, base, n)
<1> DEFINE Bad == {m \in Nat : ~\E g : IsRun(g, F, base, m)}
<1>1. SUFFICES ASSUME Bad # {} PROVE FALSE
    OBVIOUS
<1>2. PICK m \in Bad : \A k \in Bad : m <= k
  <2>1. Bad \subseteq Nat
      OBVIOUS
  <2> HIDE DEF Bad
  <2> QED BY <1>1, <2>1, LeastExists
<1>3. CASE m = 0
  <2> DEFINE g == [k \in 0 .. 0 |-> base]
  <2>1. g = [k \in 0 .. 0 |-> IF k = 0 THEN base ELSE F[<<g[k - 1], k>>]]
    <3>1. \A k \in 0 .. 0 : base = IF k = 0 THEN base ELSE F[<<g[k - 1], k>>]
        OBVIOUS
    <3> QED BY <3>1
  <2>2. IsRun(g, F, base, 0)
    <3> HIDE DEF g
    <3> QED BY <2>1 DEF IsRun
  <2> QED BY <2>2, <1>2, <1>3
<1>4. CASE m # 0
  <2>1. m - 1 \in Nat /\ m - 1 \notin Bad
      BY <1>2, <1>4
  <2>2. PICK g : IsRun(g, F, base, m - 1)
      BY <2>1
  <2> DEFINE h == [k \in 0 .. m |-> IF k = m THEN F[<<g[m - 1], m>>] ELSE g[k]]
  <2>3. \A k \in 0 .. m - 1 : g[k] = IF k = 0 THEN base ELSE F[<<g[k - 1], k>>]
      BY <2>1, <2>2 DEF IsRun
  <2>4. ASSUME NEW k \in 0 .. m
        PROVE  h[k] = IF k = 0 THEN base ELSE F[<<h[k - 1], k>>]
    <3>1. CASE k = m
      <4>1. m - 1 \in 0 .. m /\ m - 1 # m
          BY <1>2, <2>1
      <4>2. h[m - 1] = g[m - 1]
          BY <4>1
      <4> QED BY <3>1, <4>2, <1>4
    <3>2. CASE k # m /\ k # 0
      <4>1. k \in 0 .. m - 1 /\ k - 1 \in 0 .. m /\ k - 1 # m
          BY <1>2, <3>2
      <4>2. h[k] = g[k] /\ h[k - 1] = g[k - 1]
          BY <3>2, <4>1
      <4> QED BY <2>3, <3>2, <4>1, <4>2
    <3>3. CASE k # m /\ k = 0
      <4>1. 0 \in 0 .. m - 1 /\ 0 \in 0 .. m
          BY <2>1, <1>2
      <4> QED BY <2>3, <3>3, <4>1
    <3> QED BY <3>1, <3>2, <3>3
  <2>5. IsRun(h, F, base, m)
    <3> HIDE DEF h
    <3>1. h = [k \in 0 .. m |-> h[k]]
        BY DEF h
    <3> QED BY <2>4, <3>1 DEF IsRun
  <2> QED BY <2>5, <1>2
<1> QED BY <1>3, <1>4

\* What the run of a loop is, turn by turn.
LEMMA RunIs ==
    ASSUME NEW n \in Nat, NEW F, NEW base, NEW g, IsRun(g, F, base, n)
    PROVE  /\ g[0] = base
           /\ \A k \in 1 .. n : g[k] = F[<<g[k - 1], k>>]
    BY DEF IsRun

----------------------------------------------------------------------------
(* Decoding                                                                *)

\* The receiver's loop while it decodes a frame of such symbols.
Decoding(S) == [left : Int, zero : BOOLEAN, out : Seq(S)]

DecodeStart == [left |-> 0, zero |-> FALSE, out |-> <<>>]

IsDecoding(g, frame) ==
    g = [rd \in 0 .. Len(frame) |->
            IF rd = 0 THEN [left |-> 0, zero |-> FALSE, out |-> <<>>]
            ELSE DecodeByte(g[rd - 1], frame[rd])]

\* One byte keeps the decoder's types.
LEMMA DecodeByteKeeps ==
    ASSUME NEW S, 0 \in S, S \subseteq Nat, NEW s \in Decoding(S), NEW b \in S
    PROVE  DecodeByte(s, b) \in Decoding(S)
<1>1. s.left \in Int /\ s.zero \in BOOLEAN /\ s.out \in Seq(S)
    BY DEF Decoding
<1>2. Append(s.out, 0) \in Seq(S) /\ Append(s.out, b) \in Seq(S)
    BY <1>1, AppendProperties
<1>3. CASE s.left = 0
  <2>1. b - 1 \in Int /\ (b # CodeMax) \in BOOLEAN
      OBVIOUS
  <2>2. (IF s.zero THEN Append(s.out, 0) ELSE s.out) \in Seq(S)
      BY <1>1, <1>2
  <2> QED BY <1>3, <2>1, <2>2 DEF DecodeByte, Decoding
<1>4. CASE s.left # 0
  <2>1. s.left - 1 \in Int
      BY <1>1
  <2> QED BY <1>2, <1>4, <2>1 DEF DecodeByte, Decoding
<1> QED BY <1>3, <1>4

\* The decoder's run over a frame of any length.
LEMMA DecodingExists ==
    ASSUME NEW S, 0 \in S, S \subseteq Nat, NEW frame \in Seq(S)
    PROVE  /\ \E g : IsDecoding(g, frame)
           /\ \A g : IsDecoding(g, frame) => \A rd \in 0 .. Len(frame) : g[rd] \in Decoding(S)
<1> DEFINE n == Len(frame)
           F == [x \in Decoding(S) \X (1 .. n) |-> DecodeByte(x[1], frame[x[2]])]
<1>1. n \in Nat /\ \A k \in 1 .. n : frame[k] \in S
    BY LenProperties, ElementOfSeq
<1>2. DecodeStart \in Decoding(S)
  <2>1. <<>> \in Seq(S)
      BY EmptySeq
  <2> QED BY <2>1 DEF DecodeStart, Decoding
<1> HIDE DEF n
<1>3. ASSUME NEW k \in 1 .. n, NEW s \in Decoding(S)
      PROVE  F[<<s, k>>] = DecodeByte(s, frame[k]) /\ DecodeByte(s, frame[k]) \in Decoding(S)
  <2>1. <<s, k>> \in Decoding(S) \X (1 .. n)
      OBVIOUS
  <2>2. F[<<s, k>>] = DecodeByte(s, frame[k])
      BY <2>1
  <2> QED BY <1>1, <2>2, DecodeByteKeeps
<1> HIDE DEF F
<1>4. PICK g : IsRun(g, F, DecodeStart, n)
    BY <1>1, RunExists
<1>5. g[0] = DecodeStart /\ \A k \in 1 .. n : g[k] = F[<<g[k - 1], k>>]
    BY <1>1, <1>4, RunIs
<1>6. \A k \in 0 .. n : g[k] \in Decoding(S)
  <2>1. ASSUME NEW k \in 1 .. n, g[k - 1] \in Decoding(S)
        PROVE  g[k] \in Decoding(S)
    <3>1. g[k] = F[<<g[k - 1], k>>]
        BY <1>5
    <3> QED BY <1>3, <2>1, <3>1
  <2> QED BY <1>1, <1>2, <1>5, <2>1, RunStaysIn
<1>7. ASSUME NEW k \in 1 .. n
      PROVE  g[k] = DecodeByte(g[k - 1], frame[k])
  <2>1. k - 1 \in 0 .. n
      BY <1>1
  <2>2. g[k - 1] \in Decoding(S)
      BY <1>6, <2>1
  <2> QED BY <1>3, <1>5, <2>2
<1>8. IsDecoding(g, frame)
  <2>1. g = [k \in 0 .. n |-> g[k]]
      BY <1>4 DEF IsRun
  <2>2. ASSUME NEW k \in 0 .. n
        PROVE  g[k] = IF k = 0 THEN DecodeStart ELSE DecodeByte(g[k - 1], frame[k])
    <3>1. k # 0 => k \in 1 .. n
        BY <1>1
    <3> QED BY <1>5, <1>7, <3>1
  <2> QED BY <2>1, <2>2 DEF IsDecoding, DecodeStart, n
<1>9. ASSUME NEW h, IsDecoding(h, frame), NEW rd \in 0 .. n
      PROVE  h[rd] \in Decoding(S)
  <2>1. h = [k \in 0 .. n |-> IF k = 0 THEN DecodeStart
                              ELSE DecodeByte(h[k - 1], frame[k])]
      BY <1>9 DEF IsDecoding, DecodeStart, n
  <2>2. h[0] = DecodeStart /\ \A k \in 1 .. n : h[k] = DecodeByte(h[k - 1], frame[k])
      BY <1>1, <2>1
  <2>3. ASSUME NEW k \in 1 .. n, h[k - 1] \in Decoding(S)
        PROVE  h[k] \in Decoding(S)
    <3>1. h[k] = DecodeByte(h[k - 1], frame[k])
        BY <2>2
    <3> QED BY <1>3, <2>3, <3>1
  <2>4. \A k \in 0 .. n : h[k] \in Decoding(S)
      BY <1>1, <1>2, <2>2, <2>3, RunStaysIn
  <2> QED BY <2>4
<1> QED BY <1>8, <1>9 DEF n

\* The run of the frame without its last byte is the same up to there.
LEMMA DecodedTyped ==
    ASSUME NEW S, 0 \in S, S \subseteq Nat, NEW frame \in Seq(S)
    PROVE  \E g : /\ IsDecoding(g, frame)
                  /\ Decoded(frame) = g[Len(frame)]
                  /\ Decoded(frame) \in Decoding(S)
<1> DEFINE g == CHOOSE h : IsDecoding(h, frame)
<1>1. Decoded(frame) = g[Len(frame)]
    BY Zenon DEF Decoded, IsDecoding
<1>2. IsDecoding(g, frame)
    BY DecodingExists
<1> HIDE DEF g
<1>3. Len(frame) \in 0 .. Len(frame)
    BY LenProperties
<1>4. g[Len(frame)] \in Decoding(S)
    BY <1>2, <1>3, DecodingExists
<1> QED BY <1>1, <1>2, <1>4

\* Nothing is decoded to nothing.
LEMMA DecodedEmpty == Decoded(<<>>) = DecodeStart
<1>1. <<>> \in Seq(Nat) /\ Len(<<>>) = 0
    BY EmptySeq
<1>2. PICK g : IsDecoding(g, <<>>) /\ Decoded(<<>>) = g[0]
    BY <1>1, DecodedTyped
<1> QED BY <1>1, <1>2 DEF IsDecoding, DecodeStart

\* One byte more is one turn of the decoder more.
LEMMA DecodedAppend ==
    ASSUME NEW S, 0 \in S, S \subseteq Nat, NEW frame \in Seq(S), NEW b \in S
    PROVE  Decoded(Append(frame, b)) = DecodeByte(Decoded(frame), b)
<1> DEFINE more == Append(frame, b)
           n == Len(frame)
<1>1. /\ more \in Seq(S) /\ Len(more) = n + 1 /\ more[n + 1] = b /\ n \in Nat
      /\ \A k \in 1 .. n : more[k] = frame[k]
    BY AppendProperties, LenProperties
<1>2. PICK g : IsDecoding(g, frame) /\ Decoded(frame) = g[n]
    BY DecodedTyped
<1> HIDE DEF more, n
<1>3. PICK h : IsDecoding(h, more) /\ Decoded(more) = h[n + 1]
    BY <1>1, DecodedTyped
<1>4. /\ g[0] = DecodeStart
      /\ \A k \in 1 .. n : g[k] = DecodeByte(g[k - 1], frame[k])
  <2>1. g = [k \in 0 .. n |-> IF k = 0 THEN DecodeStart ELSE DecodeByte(g[k - 1], frame[k])]
      BY <1>2 DEF IsDecoding, DecodeStart, n
  <2> QED BY <1>1, <2>1
<1>5. /\ h[0] = DecodeStart
      /\ \A k \in 1 .. n + 1 : h[k] = DecodeByte(h[k - 1], more[k])
  <2>1. h = [k \in 0 .. n + 1 |-> IF k = 0 THEN DecodeStart ELSE DecodeByte(h[k - 1], more[k])]
      BY <1>1, <1>3 DEF IsDecoding, DecodeStart
  <2> QED BY <1>1, <2>1
<1> DEFINE P == {k \in 0 .. n : g[k] = h[k]}
<1>6. 0 \in P
    BY <1>1, <1>4, <1>5
<1>7. ASSUME NEW k \in 1 .. n, k - 1 \in P
      PROVE  k \in P
  <2>1. g[k] = DecodeByte(g[k - 1], frame[k])
      BY <1>4
  <2>2. h[k] = DecodeByte(h[k - 1], more[k])
      BY <1>1, <1>5
  <2>3. g[k - 1] = h[k - 1] /\ more[k] = frame[k]
      BY <1>1, <1>7
  <2> QED BY <1>1, <2>1, <2>2, <2>3
<1>8. n \in P
  <2> HIDE DEF P
  <2>1. n \in 0 .. n
      BY <1>1
  <2> QED BY <1>1, <1>6, <1>7, <2>1, Turns
<1>9. h[n + 1] = DecodeByte(h[n], more[n + 1])
    BY <1>1, <1>5
<1> QED BY <1>1, <1>2, <1>3, <1>8, <1>9 DEF more
----------------------------------------------------------------------------
(* Encoding                                                                *)

\* What the encoder makes of such symbols: codes and symbols, but no zero.
Code(S) == (S \cup 1 .. CodeMax) \ {0}

\* Its loop: the open block has room for a byte.
Encoding(S) ==
    [done : Seq(Code(S)), block : {t \in Seq(Code(S)) : Len(t) + 1 < CodeMax}]

EncodeStart == [done |-> <<>>, block |-> <<>>]

IsEncoding(g, raw) ==
    g = [rd \in 0 .. Len(raw) |->
            IF rd = 0 THEN [done |-> <<>>, block |-> <<>>]
            ELSE EncodeByte(g[rd - 1], raw[rd])]

\* A closed block holds no zero.
LEMMA ClosedTyped ==
    ASSUME NEW S, S \subseteq Nat, NEW done \in Seq(Code(S)), NEW block \in Seq(Code(S)),
           Len(block) < CodeMax
    PROVE  Closed([done |-> done, block |-> block]) \in Seq(Code(S))
<1>1. Len(block) \in Nat
    BY LenProperties
<1>2. Len(block) + 1 \in Code(S)
    BY <1>1, StreamAssumption DEF Code
<1>3. <<Len(block) + 1>> \in Seq(Code(S))
    BY <1>2
<1>4. done \o <<Len(block) + 1>> \in Seq(Code(S))
    BY <1>3, ConcatProperties
<1>5. (done \o <<Len(block) + 1>>) \o block \in Seq(Code(S))
    BY <1>4, ConcatProperties
<1> QED BY <1>5 DEF Closed

\* One byte keeps the encoder's types.
LEMMA EncodeByteKeeps ==
    ASSUME NEW S, 0 \in S, S \subseteq Nat, NEW s \in Encoding(S), NEW b \in S
    PROVE  EncodeByte(s, b) \in Encoding(S)
<1> DEFINE grown == [s EXCEPT !.block = Append(s.block, b)]
<1>1. /\ s.done \in Seq(Code(S)) /\ s.block \in Seq(Code(S)) /\ Len(s.block) + 1 < CodeMax
      /\ s = [done |-> s.done, block |-> s.block]
    BY DEF Encoding
<1>2. <<>> \in Seq(Code(S)) /\ Len(<<>>) + 1 < CodeMax
    BY EmptySeq, StreamAssumption
<1>3. CASE b = 0
  <2>1. Closed(s) \in Seq(Code(S))
    <3>1. Len(s.block) < CodeMax
        BY <1>1, LenProperties, StreamAssumption
    <3>2. Closed([done |-> s.done, block |-> s.block]) \in Seq(Code(S))
        BY <1>1, <3>1, ClosedTyped
    <3> QED BY <1>1, <3>2
  <2>2. EncodeByte(s, b) = [done |-> Closed(s), block |-> <<>>]
      BY <1>3 DEF EncodeByte
  <2> QED BY <1>2, <2>1, <2>2 DEF Encoding
<1>4. CASE b # 0
  <2>1. b \in Code(S)
      BY <1>4 DEF Code
  <2>2. /\ Append(s.block, b) \in Seq(Code(S))
        /\ Len(Append(s.block, b)) = Len(s.block) + 1
        /\ Len(s.block) \in Nat
      BY <1>1, <2>1, AppendProperties, LenProperties
  <2>3. grown = [done |-> s.done, block |-> Append(s.block, b)]
    <3>1. PICK done, block : done = s.done /\ block = s.block
        OBVIOUS
    <3>2. s = [done |-> done, block |-> block]
        BY <1>1, <3>1
    <3>3. [s EXCEPT !.block = Append(block, b)] = [done |-> done, block |-> Append(block, b)]
        BY <3>2
    <3> QED BY <3>1, <3>3
  <2> HIDE DEF grown
  <2>4. CASE Len(grown.block) + 1 # CodeMax
    <3>1. EncodeByte(s, b) = grown
        BY <1>4, <2>4 DEF EncodeByte, grown
    <3>2. grown.block = Append(s.block, b)
        BY <2>3
    <3>3. Len(s.block) + 2 < CodeMax
        BY <1>1, <2>2, <2>4, <3>2, StreamAssumption
    <3> QED BY <1>1, <2>2, <2>3, <3>1, <3>3 DEF Encoding
  <2>5. CASE Len(grown.block) + 1 = CodeMax
    <3>1. EncodeByte(s, b) = [done |-> Closed(grown), block |-> <<>>]
        BY <1>4, <2>5 DEF EncodeByte, grown
    <3>2. Closed(grown) \in Seq(Code(S))
      <4>1. Len(Append(s.block, b)) < CodeMax
          BY <1>1, <2>2, StreamAssumption
      <4> QED BY <1>1, <2>2, <2>3, <4>1, ClosedTyped
    <3> QED BY <1>2, <3>1, <3>2 DEF Encoding
  <2> QED BY <2>4, <2>5
<1> QED BY <1>3, <1>4

\* The encoder's run over raw bytes of any length.
LEMMA EncodingExists ==
    ASSUME NEW S, 0 \in S, S \subseteq Nat, NEW raw \in Seq(S)
    PROVE  /\ \E g : IsEncoding(g, raw)
           /\ \A g : IsEncoding(g, raw) => \A rd \in 0 .. Len(raw) : g[rd] \in Encoding(S)
<1> DEFINE n == Len(raw)
           F == [x \in Encoding(S) \X (1 .. n) |-> EncodeByte(x[1], raw[x[2]])]
<1>1. n \in Nat /\ \A k \in 1 .. n : raw[k] \in S
    BY LenProperties, ElementOfSeq
<1>2. EncodeStart \in Encoding(S)
  <2>1. <<>> \in Seq(Code(S)) /\ Len(<<>>) + 1 < CodeMax
      BY EmptySeq, StreamAssumption
  <2> QED BY <2>1 DEF EncodeStart, Encoding
<1> HIDE DEF n
<1>3. ASSUME NEW k \in 1 .. n, NEW s \in Encoding(S)
      PROVE  F[<<s, k>>] = EncodeByte(s, raw[k]) /\ EncodeByte(s, raw[k]) \in Encoding(S)
  <2>1. <<s, k>> \in Encoding(S) \X (1 .. n)
      OBVIOUS
  <2>2. F[<<s, k>>] = EncodeByte(s, raw[k])
      BY <2>1
  <2> QED BY <1>1, <2>2, EncodeByteKeeps
<1> HIDE DEF F
<1>4. PICK g : IsRun(g, F, EncodeStart, n)
    BY <1>1, RunExists
<1>5. g[0] = EncodeStart /\ \A k \in 1 .. n : g[k] = F[<<g[k - 1], k>>]
    BY <1>1, <1>4, RunIs
<1>6. \A k \in 0 .. n : g[k] \in Encoding(S)
  <2>1. ASSUME NEW k \in 1 .. n, g[k - 1] \in Encoding(S)
        PROVE  g[k] \in Encoding(S)
    <3>1. g[k] = F[<<g[k - 1], k>>]
        BY <1>5
    <3> QED BY <1>3, <2>1, <3>1
  <2> QED BY <1>1, <1>2, <1>5, <2>1, RunStaysIn
<1>7. ASSUME NEW k \in 1 .. n
      PROVE  g[k] = EncodeByte(g[k - 1], raw[k])
  <2>1. k - 1 \in 0 .. n
      BY <1>1
  <2>2. g[k - 1] \in Encoding(S)
      BY <1>6, <2>1
  <2> QED BY <1>3, <1>5, <2>2
<1>8. IsEncoding(g, raw)
  <2>1. g = [k \in 0 .. n |-> g[k]]
      BY <1>4 DEF IsRun
  <2>2. ASSUME NEW k \in 0 .. n
        PROVE  g[k] = IF k = 0 THEN EncodeStart ELSE EncodeByte(g[k - 1], raw[k])
    <3>1. k # 0 => k \in 1 .. n
        BY <1>1
    <3> QED BY <1>5, <1>7, <3>1
  <2> QED BY <2>1, <2>2 DEF IsEncoding, EncodeStart, n
<1>9. ASSUME NEW h, IsEncoding(h, raw), NEW rd \in 0 .. n
      PROVE  h[rd] \in Encoding(S)
  <2>1. h = [k \in 0 .. n |-> IF k = 0 THEN EncodeStart
                              ELSE EncodeByte(h[k - 1], raw[k])]
      BY <1>9 DEF IsEncoding, EncodeStart, n
  <2>2. h[0] = EncodeStart /\ \A k \in 1 .. n : h[k] = EncodeByte(h[k - 1], raw[k])
      BY <1>1, <2>1
  <2>3. ASSUME NEW k \in 1 .. n, h[k - 1] \in Encoding(S)
        PROVE  h[k] \in Encoding(S)
    <3>1. h[k] = EncodeByte(h[k - 1], raw[k])
        BY <2>2
    <3> QED BY <1>3, <2>3, <3>1
  <2>4. \A k \in 0 .. n : h[k] \in Encoding(S)
      BY <1>1, <1>2, <2>2, <2>3, RunStaysIn
  <2> QED BY <2>4
<1> QED BY <1>8, <1>9 DEF n

----------------------------------------------------------------------------
(* What is encoded is decoded again                                        *)

\* Concatenation of bytes may be regrouped.
LEMMA Associates ==
    ASSUME NEW s \in Seq(Nat), NEW t \in Seq(Nat), NEW u \in Seq(Nat)
    PROVE  (s \o t) \o u = s \o (t \o u)
    BY ConcatAssociative

\* A byte behind the second part is a byte behind the whole.
LEMMA ConcatAppend ==
    ASSUME NEW s \in Seq(Nat), NEW t \in Seq(Nat), NEW x \in Nat
    PROVE  s \o Append(t, x) = Append(s \o t, x)
<1>1. <<x>> \in Seq(Nat) /\ s \o t \in Seq(Nat)
    BY ConcatProperties
<1>2. Append(t, x) = t \o <<x>> /\ Append(s \o t, x) = (s \o t) \o <<x>>
    BY <1>1, AppendIsConcat
<1>3. (s \o t) \o <<x>> = s \o (t \o <<x>>)
    BY <1>1, ConcatAssociative
<1> QED BY <1>2, <1>3

\* The first m elements are the first m - 1 and one more.
LEMMA SubSeqStep ==
    ASSUME NEW S, NEW s \in Seq(S), NEW m \in 1 .. Len(s)
    PROVE  /\ SubSeq(s, 1, m) = Append(SubSeq(s, 1, m - 1), s[m])
           /\ SubSeq(s, 1, m - 1) \in Seq(S) /\ s[m] \in S
<1>1. s[m] \in S /\ Len(s) \in Nat /\ \A i \in 1 .. Len(s) : s[i] \in S
    BY ElementOfSeq, LenProperties
<1>2. SubSeq(s, 1, m - 1) \in Seq(S)
  <2>1. \A i \in 1 .. m - 1 : s[i] \in S
      BY <1>1
  <2>2. 1 \in Int /\ m - 1 \in Int
      BY <1>1
  <2> QED BY <2>1, <2>2, SubSeqProperties
<1>3. SubSeq(s, 1, m) = SubSeq(s, 1, m - 1) \o <<s[m]>>
  <2>1. 1 \in 1 .. Len(s) /\ m \in 1 .. Len(s)
      BY <1>1
  <2> QED BY <2>1, SubSeqRecursiveSecond
<1> QED BY <1>1, <1>2, <1>3, AppendIsConcat

\* What a decoder puts out before the data of the next block.
Base(d) == IF d.zero THEN Append(d.out, 0) ELSE d.out

\* And that these are bytes.
LEMMA BaseTyped ==
    ASSUME NEW d \in Decoding(Nat)
    PROVE  Base(d) \in Seq(Nat)
<1>1. d.out \in Seq(Nat)
    BY DEF Decoding
<1>2. Append(d.out, 0) \in Seq(Nat)
    BY <1>1, AppendProperties
<1> QED BY <1>1, <1>2 DEF Base

\* A whole block behind whole blocks.
LEMMA BlockDecodes ==
    ASSUME NEW t \in Seq(Nat), NEW block \in Seq(Nat), Decoded(t).left = 0
    PROVE  Decoded(t \o <<Len(block) + 1>> \o block) =
              [left |-> 0, zero |-> Len(block) + 1 # CodeMax,
               out |-> Base(Decoded(t)) \o block]
<1> DEFINE n == Len(block)
           u == Append(t, n + 1)
           base == Base(Decoded(t))
           zero == n + 1 # CodeMax
           P == {m \in 0 .. n : Decoded(u \o SubSeq(block, 1, m)) =
                    [left |-> n - m, zero |-> zero, out |-> base \o SubSeq(block, 1, m)]}
<1>1. n \in Nat
    BY LenProperties
<1>2. u \in Seq(Nat) /\ u = t \o <<n + 1>>
    BY <1>1, AppendProperties, AppendIsConcat
<1>3. Decoded(t) \in Decoding(Nat)
    BY DecodedTyped
<1>4. base \in Seq(Nat)
    BY <1>3, BaseTyped
<1>5. Decoded(u) = [left |-> n, zero |-> zero, out |-> base]
  <2>1. Decoded(u) = DecodeByte(Decoded(t), n + 1)
      BY <1>1, DecodedAppend
  <2>2. (n + 1) - 1 = n
      BY <1>1
  <2> QED BY <2>1, <2>2 DEF DecodeByte, Base
<1>6. 0 \in P
  <2>1. SubSeq(block, 1, 0) = <<>>
      BY SubSeqEmpty
  <2>2. u \o <<>> = u /\ base \o <<>> = base
      BY <1>2, <1>4, ConcatEmptySeq
  <2>3. n - 0 = n /\ 0 \in 0 .. n
      BY <1>1
  <2> HIDE DEF u, base, n, zero
  <2> QED BY <1>5, <2>1, <2>2, <2>3
<1>7. ASSUME NEW m \in 1 .. n, m - 1 \in P
      PROVE  m \in P
  <2> DEFINE b == SubSeq(block, 1, m - 1)
  <2>1. SubSeq(block, 1, m) = Append(b, block[m]) /\ b \in Seq(Nat) /\ block[m] \in Nat
      BY SubSeqStep
  <2>2. u \o b \in Seq(Nat) /\ base \o b \in Seq(Nat)
      BY <1>2, <1>4, <2>1, ConcatProperties
  <2>3. Decoded(u \o b) = [left |-> n - (m - 1), zero |-> zero, out |-> base \o b]
      BY <1>7
  <2>4. /\ u \o Append(b, block[m]) = Append(u \o b, block[m])
        /\ base \o Append(b, block[m]) = Append(base \o b, block[m])
    <3> HIDE DEF u, b, base
    <3>1. u \o Append(b, block[m]) = Append(u \o b, block[m])
        BY <1>2, <2>1, ConcatAppend
    <3>2. base \o Append(b, block[m]) = Append(base \o b, block[m])
        BY <1>4, <2>1, ConcatAppend
    <3> QED BY <3>1, <3>2
  <2>5. Decoded(Append(u \o b, block[m])) = DecodeByte(Decoded(u \o b), block[m])
      BY <2>1, <2>2, DecodedAppend
  <2>6. n - (m - 1) # 0 /\ n - (m - 1) - 1 = n - m /\ m \in 0 .. n
      BY <1>1
  <2> HIDE DEF u, b, base, n, zero
  <2>7. ASSUME NEW s, s = [left |-> n - (m - 1), zero |-> zero, out |-> base \o b]
        PROVE  DecodeByte(s, block[m]) =
                  [left |-> n - m, zero |-> zero, out |-> Append(base \o b, block[m])]
    <3>1. s.left # 0 /\ s.left - 1 = n - m
        BY <2>6, <2>7
    <3>2. DecodeByte(s, block[m]) =
             [s EXCEPT !.left = s.left - 1, !.out = Append(s.out, block[m])]
        BY <3>1 DEF DecodeByte
    <3> QED BY <2>7, <3>1, <3>2
  <2>8. Decoded(u \o SubSeq(block, 1, m)) =
           [left |-> n - m, zero |-> zero, out |-> base \o SubSeq(block, 1, m)]
      BY <2>1, <2>3, <2>4, <2>5, <2>7
  <2> QED BY <2>6, <2>8
<1>8. n \in P
  <2> HIDE DEF P
  <2>1. n \in 0 .. n
      BY <1>1
  <2> QED BY <1>1, <1>6, <1>7, <2>1, Turns
<1>9. SubSeq(block, 1, n) = block
    BY SubSeqFull
<1>10. n - n = 0
    BY <1>1
<1> QED BY <1>2, <1>8, <1>9, <1>10
\* The encoder's state s stands for these raw bytes: a decoder that has read
\* the blocks in done goes on with the open one.
StandsFor(s, raw) ==
    /\ Decoded(s.done).left = 0
    /\ Base(Decoded(s.done)) \o s.block = raw

\* Closing the open block makes a frame of it.
LEMMA ClosedDecodes ==
    ASSUME NEW s, NEW raw, s.done \in Seq(Nat), s.block \in Seq(Nat), StandsFor(s, raw)
    PROVE  LET d == Decoded(Closed(s))
           IN  d.left = 0 /\ (d.zero <=> Len(s.block) + 1 # CodeMax) /\ d.out = raw
<1>1. Decoded(s.done).left = 0 /\ Base(Decoded(s.done)) \o s.block = raw
    BY DEF StandsFor
<1>2. Closed(s) = s.done \o <<Len(s.block) + 1>> \o s.block
    BY DEF Closed
<1>3. PICK done, block : done = s.done /\ block = s.block
    OBVIOUS
<1>4. PICK z \in BOOLEAN : z <=> Len(block) + 1 # CodeMax
    OBVIOUS
<1>5. Decoded(Closed(s)) = [left |-> 0, zero |-> z, out |-> raw]
  <2>1. Decoded(done \o <<Len(block) + 1>> \o block) =
           [left |-> 0, zero |-> Len(block) + 1 # CodeMax,
            out |-> Base(Decoded(done)) \o block]
      BY <1>1, <1>3, BlockDecodes
  <2>2. (Len(block) + 1 # CodeMax) = z
      BY <1>4
  <2> QED BY <1>1, <1>2, <1>3, <2>1, <2>2
<1> QED BY <1>3, <1>4, <1>5

\* One more raw byte is one more byte of what the state stands for.
LEMMA EncodeByteStands ==
    ASSUME NEW s \in Encoding(Nat), NEW raw \in Seq(Nat), NEW b \in Nat, StandsFor(s, raw)
    PROVE  StandsFor(EncodeByte(s, b), Append(raw, b))
<1> DEFINE grown == [s EXCEPT !.block = Append(s.block, b)]
<1>1. Decoded(s.done).left = 0 /\ Base(Decoded(s.done)) \o s.block = raw
    BY DEF StandsFor
<1>2. /\ s.done \in Seq(Nat) /\ s.block \in Seq(Nat)
      /\ Len(s.block) \in Nat /\ Len(s.block) + 1 < CodeMax
  <2>1. Code(Nat) \subseteq Nat
      BY StreamAssumption DEF Code
  <2>2. s.done \in Seq(Code(Nat)) /\ s.block \in Seq(Code(Nat)) /\ Len(s.block) + 1 < CodeMax
      BY DEF Encoding
  <2> QED BY <2>1, <2>2, SeqMonotonic, LenProperties
<1>3. Base(Decoded(s.done)) \in Seq(Nat)
    BY <1>2, DecodedTyped, BaseTyped
<1>4. Append(s.block, b) \in Seq(Nat) /\ Len(Append(s.block, b)) = Len(s.block) + 1
    BY <1>2, AppendProperties
<1>5. grown.done = s.done /\ grown.block = Append(s.block, b)
    BY DEF Encoding
<1>6. EncodeByte(s, b) = IF b = 0 THEN [done |-> Closed(s), block |-> <<>>]
                         ELSE IF Len(grown.block) + 1 # CodeMax THEN grown
                         ELSE [done |-> Closed(grown), block |-> <<>>]
    BY DEF EncodeByte
<1> HIDE DEF grown
<1>7. Base(Decoded(s.done)) \o Append(s.block, b) = Append(raw, b)
    BY <1>1, <1>2, <1>3, ConcatAppend
<1>8. StandsFor(grown, Append(raw, b))
    BY <1>1, <1>5, <1>7 DEF StandsFor
<1>9. Append(raw, b) \in Seq(Nat) /\ Append(raw, b) \o <<>> = Append(raw, b)
    BY AppendProperties, ConcatEmptySeq
<1>10. CASE b = 0
  <2>1. EncodeByte(s, b) = [done |-> Closed(s), block |-> <<>>]
      BY <1>6, <1>10
  <2>2. PICK d : d = Decoded(Closed(s))
      OBVIOUS
  <2>3. d.left = 0 /\ d.zero /\ d.out = raw
    <3>1. Len(s.block) + 1 # CodeMax
        BY <1>2, StreamAssumption
    <3> QED BY <1>2, <2>2, <3>1, ClosedDecodes
  <2>4. Base(Decoded(Closed(s))) = Append(raw, b) /\ Decoded(Closed(s)).left = 0
      BY <1>10, <2>2, <2>3 DEF Base
  <2>5. EncodeByte(s, b).done = Closed(s) /\ EncodeByte(s, b).block = <<>>
      BY <2>1
  <2> QED BY <1>9, <2>4, <2>5 DEF StandsFor
<1>11. CASE b # 0 /\ Len(grown.block) + 1 # CodeMax
    BY <1>6, <1>8, <1>11
<1>12. CASE b # 0 /\ Len(grown.block) + 1 = CodeMax
  <2>1. EncodeByte(s, b) = [done |-> Closed(grown), block |-> <<>>]
      BY <1>6, <1>12
  <2>2. PICK d : d = Decoded(Closed(grown))
      OBVIOUS
  <2>3. d.left = 0 /\ ~d.zero /\ d.out = Append(raw, b)
      BY <1>2, <1>4, <1>5, <1>8, <1>12, <2>2, ClosedDecodes
  <2>4. Base(Decoded(Closed(grown))) = Append(raw, b) /\ Decoded(Closed(grown)).left = 0
      BY <2>2, <2>3 DEF Base
  <2>5. EncodeByte(s, b).done = Closed(grown) /\ EncodeByte(s, b).block = <<>>
      BY <2>1
  <2> QED BY <1>9, <2>4, <2>5 DEF StandsFor
<1> QED BY <1>10, <1>11, <1>12
\* The encoder's result is that of its run.
LEMMA EncodedRun ==
    ASSUME NEW raw \in Seq(Nat)
    PROVE  \E h : /\ IsEncoding(h, raw)
                  /\ Encoded(raw) = h[Len(raw)]
                  /\ h[0] = EncodeStart
                  /\ \A rd \in 1 .. Len(raw) : h[rd] = EncodeByte(h[rd - 1], raw[rd])
                  /\ \A rd \in 0 .. Len(raw) : h[rd] \in Encoding(Nat)
<1> DEFINE h == CHOOSE g : IsEncoding(g, raw)
           n == Len(raw)
<1>1. Encoded(raw) = h[n]
    BY Zenon DEF Encoded, IsEncoding
<1>2. IsEncoding(h, raw)
    BY EncodingExists
<1>3. n \in Nat
    BY LenProperties
<1> HIDE DEF h
<1>4. \A rd \in 0 .. n : h[rd] \in Encoding(Nat)
    BY <1>2, EncodingExists
<1> HIDE DEF n
<1>5. h = [k \in 0 .. n |-> IF k = 0 THEN EncodeStart ELSE EncodeByte(h[k - 1], raw[k])]
    BY <1>2 DEF IsEncoding, EncodeStart, n
<1>6. h[0] = EncodeStart /\ \A rd \in 1 .. n : h[rd] = EncodeByte(h[rd - 1], raw[rd])
    BY <1>3, <1>5
<1> QED BY <1>1, <1>2, <1>4, <1>6 DEF n

\* cobs_encode leaves no zero, and tcp_frame_push_byte's loop undoes it.
LEMMA CobsRoundTrip ==
    ASSUME NEW raw \in Seq(Nat)
    PROVE  /\ CobsEncode(raw) \in Seq(Nat \ {0})
           /\ Decoded(CobsEncode(raw)).left = 0
           /\ Decoded(CobsEncode(raw)).out = raw
<1> DEFINE n == Len(raw)
<1>1. n \in Nat
    BY LenProperties
<1>2. PICK h : /\ Encoded(raw) = h[n]
               /\ h[0] = EncodeStart
               /\ \A rd \in 1 .. n : h[rd] = EncodeByte(h[rd - 1], raw[rd])
               /\ \A rd \in 0 .. n : h[rd] \in Encoding(Nat)
    BY EncodedRun
<1> DEFINE P == {k \in 0 .. n : StandsFor(h[k], SubSeq(raw, 1, k))}
<1>3. 0 \in P
  <2>1. SubSeq(raw, 1, 0) = <<>>
      BY SubSeqEmpty
  <2>2. Base(DecodeStart) = <<>>
      BY DEF Base, DecodeStart
  <2>3. <<>> \o <<>> = <<>>
      BY EmptySeq, ConcatEmptySeq
  <2>4. EncodeStart.done = <<>> /\ EncodeStart.block = <<>> /\ DecodeStart.left = 0
      BY DEF EncodeStart, DecodeStart
  <2>5. StandsFor(EncodeStart, <<>>)
      BY <2>2, <2>3, <2>4, DecodedEmpty DEF StandsFor
  <2>6. StandsFor(h[0], SubSeq(raw, 1, 0))
      BY <1>2, <2>1, <2>5
  <2> QED BY <1>1, <2>6
<1>4. ASSUME NEW k \in 1 .. n, k - 1 \in P
      PROVE  k \in P
  <2>1. /\ SubSeq(raw, 1, k) = Append(SubSeq(raw, 1, k - 1), raw[k])
        /\ SubSeq(raw, 1, k - 1) \in Seq(Nat) /\ raw[k] \in Nat
      BY SubSeqStep
  <2>2. h[k - 1] \in Encoding(Nat) /\ StandsFor(h[k - 1], SubSeq(raw, 1, k - 1))
      BY <1>2, <1>4
  <2>3. h[k] = EncodeByte(h[k - 1], raw[k])
      BY <1>2
  <2>4. StandsFor(h[k], SubSeq(raw, 1, k))
      BY <2>1, <2>2, <2>3, EncodeByteStands
  <2> QED BY <1>1, <2>4
<1>5. n \in P
  <2> HIDE DEF P
  <2>1. n \in 0 .. n
      BY <1>1
  <2> QED BY <1>1, <1>3, <1>4, <2>1, Turns
<1>6. StandsFor(Encoded(raw), raw) /\ Encoded(raw) \in Encoding(Nat)
  <2>1. n \in 0 .. n /\ SubSeq(raw, 1, n) = raw
      BY <1>1, SubSeqFull
  <2> QED BY <1>2, <1>5, <2>1
<1> DEFINE s == Encoded(raw)
<1> HIDE DEF n, P
<1>7. Code(Nat) = Nat \ {0}
    BY StreamAssumption DEF Code
<1>8. /\ s.done \in Seq(Nat \ {0}) /\ s.block \in Seq(Nat \ {0})
      /\ Len(s.block) + 1 < CodeMax
    BY <1>6, <1>7 DEF Encoding
<1>9. s.done \in Seq(Nat) /\ s.block \in Seq(Nat) /\ Len(s.block) < CodeMax
  <2>1. Len(s.block) \in Nat
      BY <1>8, LenProperties
  <2> QED BY <1>8, <2>1, SeqMonotonic, StreamAssumption
<1>10. Closed(s) \in Seq(Nat \ {0})
  <2>1. PICK done, block : done = s.done /\ block = s.block
      OBVIOUS
  <2>2. Closed([done |-> done, block |-> block]) \in Seq(Nat \ {0})
      BY <1>7, <1>8, <1>9, <2>1, ClosedTyped
  <2>3. Closed([done |-> done, block |-> block]) = Closed(s)
      BY <2>1 DEF Closed
  <2> QED BY <2>2, <2>3
<1>11. Decoded(Closed(s)).left = 0 /\ Decoded(Closed(s)).out = raw
    BY <1>6, <1>9, ClosedDecodes
<1> QED BY <1>10, <1>11 DEF CobsEncode
----------------------------------------------------------------------------
(* Frames                                                                  *)

\* The CRC of a packet that is sent is its own; of anything else, nobody's.
LEMMA CrcIs ==
    /\ \A k \in 1 .. Len(Packets) :
          NumberOf(Packets[k]) = k /\ Crc(Packets[k]) = CodeMax + k
    /\ \A p : p \notin Range(Packets) => Crc(p) = CodeMax + Len(Packets) + 1
<1>1. DOMAIN Packets = 1 .. Len(Packets) /\ Len(Packets) \in Nat
    BY PacketsAssumption, LenProperties
<1>2. ASSUME NEW k \in 1 .. Len(Packets)
      PROVE  NumberOf(Packets[k]) = k
  <2>1. \A j \in DOMAIN Packets : Packets[j] = Packets[k] => j = k
      BY <1>1, StreamAssumption DEF IsInjective
  <2> QED BY <1>1, <2>1 DEF NumberOf
<1>3. ASSUME NEW k \in 1 .. Len(Packets)
      PROVE  Crc(Packets[k]) = CodeMax + k
  <2>1. Packets[k] \in Range(Packets)
      BY <1>1 DEF Range
  <2> QED BY <1>2, <2>1 DEF Crc
<1>4. ASSUME NEW p, p \notin Range(Packets)
      PROVE  Crc(p) = CodeMax + Len(Packets) + 1
    BY <1>1, <1>4, StreamAssumption DEF Crc
<1> QED BY <1>2, <1>3, <1>4

\* A packet is a sequence of naturals, not an empty one.
LEMMA PacketIs ==
    ASSUME NEW k \in 1 .. Len(Packets)
    PROVE  /\ Packets[k] \in Seq(Byte) /\ Packets[k] \in Seq(Nat)
           /\ Len(Packets[k]) \in Nat \ {0}
<1>1. Packets[k] \in Seq(Byte) /\ Packets[k] # <<>>
  <2>1. k \in DOMAIN Packets
      BY PacketsAssumption, LenProperties
  <2> QED BY <2>1, PacketsAssumption, ElementOfSeq
<1>2. Byte \subseteq Nat
    BY StreamAssumption DEF Byte
<1> QED BY <1>1, <1>2, SeqMonotonic, EmptySeq

\* The symbol x occurs once in s, and everything else is a byte.
Once(s, x) ==
    \E at \in 1 .. Len(s) :
       s[at] = x /\ \A i \in 1 .. Len(s) : i # at => s[i] <= CodeMax

\* The CRC behind a packet stands there once.
LEMMA OnceLast ==
    ASSUME NEW s \in Seq(Byte), NEW x \in Nat
    PROVE  Append(s, x) \in Seq(Nat) /\ Once(Append(s, x), x)
<1>1. Byte \subseteq Nat /\ \A b \in Byte : b <= CodeMax
    BY StreamAssumption DEF Byte
<1>2. s \in Seq(Nat)
    BY <1>1, SeqMonotonic
<1>3. /\ Append(s, x) \in Seq(Nat) /\ Len(Append(s, x)) = Len(s) + 1
      /\ \A i \in 1 .. Len(s) : Append(s, x)[i] = s[i]
      /\ Append(s, x)[Len(s) + 1] = x
    BY <1>2, AppendProperties
<1>4. Len(s) \in Nat /\ \A i \in 1 .. Len(s) : s[i] \in Byte
    BY LenProperties, ElementOfSeq
<1>5. \A i \in 1 .. Len(s) + 1 : i # Len(s) + 1 => Append(s, x)[i] <= CodeMax
    BY <1>1, <1>3, <1>4
<1> QED BY <1>3, <1>4, <1>5 DEF Once

\* A code or a data byte behind it changes nothing of that.
LEMMA OnceMore ==
    ASSUME NEW s \in Seq(Nat), NEW x \in Nat, NEW b \in Nat, b <= CodeMax, Once(s, x)
    PROVE  Append(s, b) \in Seq(Nat) /\ Once(Append(s, b), x)
<1>1. /\ Append(s, b) \in Seq(Nat) /\ Len(Append(s, b)) = Len(s) + 1
      /\ \A i \in 1 .. Len(s) : Append(s, b)[i] = s[i]
      /\ Append(s, b)[Len(s) + 1] = b
    BY AppendProperties
<1>2. Len(s) \in Nat
    BY LenProperties
<1>3. PICK at \in 1 .. Len(s) :
         s[at] = x /\ \A i \in 1 .. Len(s) : i # at => s[i] <= CodeMax
    BY DEF Once
<1>4. at \in 1 .. Len(s) + 1 /\ Append(s, b)[at] = x
    BY <1>1, <1>2, <1>3
<1>5. \A i \in 1 .. Len(s) + 1 : i # at => Append(s, b)[i] <= CodeMax
    BY <1>1, <1>2, <1>3
<1> QED BY <1>1, <1>4, <1>5 DEF Once
\* The encoded packet carries its CRC once, among bytes.
LEMMA EncodedPacket ==
    ASSUME NEW k \in 1 .. Len(Packets)
    PROVE  LET c == CobsEncode(Checked(Packets[k]))
           IN  c \in Seq(Nat) /\ Once(c, CodeMax + k)
<1> DEFINE p == Packets[k]
           n == Len(p)
           x == CodeMax + k
           raw == Checked(p)
<1>1. x \in Nat /\ x > CodeMax /\ x # 0
    BY StreamAssumption
<1>2. p \in Seq(Byte) /\ p \in Seq(Nat) /\ n \in Nat \ {0}
    BY PacketIs
<1>3. raw = Append(p, x)
    BY CrcIs DEF Checked
<1>4. /\ raw \in Seq(Nat) /\ Len(raw) = n + 1 /\ raw[n + 1] = x
      /\ \A i \in 1 .. n : raw[i] = p[i]
    BY <1>1, <1>2, <1>3, AppendProperties
<1>5. \A i \in 1 .. n : raw[i] \in Byte
    BY <1>2, <1>4, ElementOfSeq
<1> HIDE DEF p, n, x, raw
<1>6. PICK h : /\ Encoded(raw) = h[n + 1]
               /\ h[0] = EncodeStart
               /\ \A rd \in 1 .. n + 1 : h[rd] = EncodeByte(h[rd - 1], raw[rd])
  <2>1. PICK h : /\ Encoded(raw) = h[Len(raw)]
                 /\ h[0] = EncodeStart
                 /\ \A rd \in 1 .. Len(raw) : h[rd] = EncodeByte(h[rd - 1], raw[rd])
      BY <1>4, EncodedRun
  <2> QED BY <1>4, <2>1
<1>7. 0 \in Byte /\ Byte \subseteq Nat
    BY StreamAssumption DEF Byte
<1>8. h[n] \in Encoding(Byte)
  <2>1. EncodeStart \in Encoding(Byte)
    <3>1. <<>> \in Seq(Code(Byte)) /\ Len(<<>>) + 1 < CodeMax
        BY EmptySeq, StreamAssumption
    <3> QED BY <3>1 DEF EncodeStart, Encoding
  <2>2. ASSUME NEW i \in 1 .. n, h[i - 1] \in Encoding(Byte)
        PROVE  h[i] \in Encoding(Byte)
    <3>1. h[i] = EncodeByte(h[i - 1], raw[i])
        BY <1>2, <1>6
    <3> QED BY <1>5, <1>7, <2>2, <3>1, EncodeByteKeeps
  <2>3. \A i \in 0 .. n : h[i] \in Encoding(Byte)
      BY <1>2, <1>6, <2>1, <2>2, RunStaysIn
  <2> QED BY <1>2, <2>3
<1> DEFINE s == h[n]
           grown == [s EXCEPT !.block = Append(s.block, x)]
<1>9. Code(Byte) \subseteq Byte
    BY StreamAssumption DEF Code, Byte
<1>10. s.done \in Seq(Byte) /\ s.block \in Seq(Byte) /\ Len(s.block) + 1 < CodeMax
       /\ Len(s.block) \in Nat
  <2>1. /\ s.done \in Seq(Code(Byte)) /\ s.block \in Seq(Code(Byte))
        /\ Len(s.block) + 1 < CodeMax
      BY <1>8 DEF Encoding
  <2> QED BY <1>9, <2>1, SeqMonotonic, LenProperties
<1>11. s.done \in Seq(Nat) /\ s.block \in Seq(Nat)
    BY <1>7, <1>10, SeqMonotonic
<1>12. /\ Append(s.block, x) \in Seq(Nat)
       /\ Len(Append(s.block, x)) = Len(s.block) + 1
    BY <1>1, <1>11, AppendProperties
<1>13. grown.done = s.done /\ grown.block = Append(s.block, x)
  <2>1. s \in Encoding(Byte)
      BY <1>8
  <2> HIDE DEF s
  <2> QED BY <2>1 DEF Encoding
<1>14. h[n + 1] = IF Len(grown.block) + 1 # CodeMax THEN grown
                  ELSE [done |-> Closed(grown), block |-> <<>>]
  <2>1. n + 1 \in 1 .. n + 1 /\ (n + 1) - 1 = n
      BY <1>2
  <2>2. h[n + 1] = EncodeByte(s, x)
      BY <1>4, <1>6, <2>1
  <2> QED BY <1>1, <2>2 DEF EncodeByte
<1> HIDE DEF s, grown
<1> DEFINE head == s.done \o <<Len(s.block) + 2>>
<1>15. head \in Seq(Byte) /\ head \o s.block \in Seq(Byte)
  <2>1. Len(s.block) + 2 \in Byte
      BY <1>10, StreamAssumption DEF Byte
  <2>2. <<Len(s.block) + 2>> \in Seq(Byte)
      BY <2>1
  <2>3. head \in Seq(Byte)
      BY <1>10, <2>2, ConcatProperties
  <2> QED BY <1>10, <2>3, ConcatProperties
<1>16. Closed(grown) = head \o Append(s.block, x)
  <2>1. Len(grown.block) + 1 = Len(s.block) + 2
      BY <1>10, <1>12, <1>13
  <2> QED BY <1>13, <2>1 DEF Closed
<1> HIDE DEF head
<1>17. Closed(grown) = Append(head \o s.block, x)
  <2>1. head \in Seq(Nat)
      BY <1>7, <1>15, SeqMonotonic
  <2>2. head \o Append(s.block, x) = Append(head \o s.block, x)
      BY <1>1, <1>11, <2>1, ConcatAppend
  <2> QED BY <1>16, <2>2
<1>18. Closed(grown) \in Seq(Nat) /\ Once(Closed(grown), x)
    BY <1>1, <1>15, <1>17, OnceLast
<1>19. CobsEncode(raw) \in Seq(Nat) /\ Once(CobsEncode(raw), x)
  <2>1. CASE Len(grown.block) + 1 # CodeMax
    <3>1. CobsEncode(raw) = Closed(grown)
        BY <1>6, <1>14, <2>1 DEF CobsEncode
    <3> QED BY <1>18, <3>1
  <2>2. CASE Len(grown.block) + 1 = CodeMax
    <3>1. Encoded(raw).done = Closed(grown) /\ Encoded(raw).block = <<>>
        BY <1>6, <1>14, <2>2
    <3>2. CobsEncode(raw) = Closed(grown) \o <<1>> \o <<>>
      <4>1. Len(Encoded(raw).block) + 1 = 1
          BY <3>1, EmptySeq
      <4> QED BY <3>1, <4>1 DEF CobsEncode, Closed
    <3>3. Closed(grown) \o <<1>> = Append(Closed(grown), 1)
      <4>1. 1 \in Nat
          OBVIOUS
      <4> QED BY <1>18, <4>1, AppendIsConcat
    <3>4. Append(Closed(grown), 1) \in Seq(Nat) /\ Once(Append(Closed(grown), 1), x)
        BY <1>1, <1>18, StreamAssumption, OnceMore
    <3>5. Append(Closed(grown), 1) \o <<>> = Append(Closed(grown), 1)
        BY <3>4, ConcatEmptySeq
    <3> QED BY <3>2, <3>3, <3>4, <3>5
  <2> QED BY <2>1, <2>2
<1> QED BY <1>19 DEF raw, p, x

\* A frame: no zero but its last byte, one CRC, and room for it in rx.
LEMMA FrameIs ==
    ASSUME NEW k \in 1 .. Len(Packets)
    PROVE  LET f == Framed(Packets[k])
           IN  /\ f \in Seq(Nat) /\ Len(f) \in Nat \ {0} /\ Len(f) <= FrameMax + 1
               /\ f[Len(f)] = 0
               /\ \A i \in 1 .. Len(f) : i # Len(f) => f[i] # 0
               /\ Once(f, CodeMax + k)
<1> DEFINE c == CobsEncode(Checked(Packets[k]))
           f == Framed(Packets[k])
<1>1. Checked(Packets[k]) \in Seq(Nat)
  <2>1. Packets[k] \in Seq(Nat) /\ CodeMax + k \in Nat
      BY PacketIs, StreamAssumption
  <2> QED BY <2>1, CrcIs, AppendProperties DEF Checked
<1>2. c \in Seq(Nat) /\ Once(c, CodeMax + k)
    BY EncodedPacket
<1>3. c \in Seq(Nat \ {0})
    BY <1>1, CobsRoundTrip
<1>4. Len(c) \in Nat /\ \A i \in 1 .. Len(c) : c[i] # 0
    BY <1>3, LenProperties, ElementOfSeq
<1>5. Len(c) <= FrameMax
  <2>1. k \in DOMAIN Packets
      BY PacketsAssumption, LenProperties
  <2> QED BY <2>1, FramesFit
<1>6. f = Append(c, 0)
    BY DEF Framed
<1> HIDE DEF c, f
<1>7. f \in Seq(Nat) /\ Once(f, CodeMax + k)
  <2>1. CodeMax + k \in Nat /\ 0 \in Nat /\ 0 <= CodeMax
      BY StreamAssumption
  <2> QED BY <1>2, <1>6, <2>1, OnceMore
<1>8. /\ Len(f) = Len(c) + 1 /\ f[Len(c) + 1] = 0
      /\ \A i \in 1 .. Len(c) : f[i] = c[i]
    BY <1>2, <1>6, AppendProperties
<1>9. \A i \in 1 .. Len(f) : i # Len(f) => f[i] # 0
    BY <1>4, <1>8
<1>10. Len(f) \in Nat \ {0} /\ Len(f) <= FrameMax + 1
    BY <1>4, <1>5, <1>8, StreamAssumption
<1> QED BY <1>7, <1>8, <1>9, <1>10 DEF f
----------------------------------------------------------------------------
(* Types, and what the transmit buffer does                                *)

TypeInv ==
    /\ queued \in 0 .. Len(Packets)
    /\ tx \in [data : Seq(Nat), failed : BOOLEAN] /\ Len(tx.data) <= TxCap
    /\ put \in Seq(Nat)
    /\ pipe \in Seq(Nat) /\ Len(pipe) <= PipeMax
    /\ rx \in [frame : Seq(Nat \ {0}), discarding : BOOLEAN]
    /\ Len(rx.frame) <= FrameMax
    /\ delivered \in Seq(Nat)
    /\ damaged \in 0 .. DamageMax

\* What the constants are.
LEMMA Bounds ==
    /\ Len(Packets) \in Nat /\ DOMAIN Packets = 1 .. Len(Packets)
    /\ FrameMax \in Nat \ {0} /\ TxCap \in Nat \ {0} /\ PipeMax \in Nat \ {0}
    /\ DamageMax \in Nat /\ CodeMax \in Nat /\ CodeMax > 2
    /\ Byte \subseteq Nat /\ \A b \in Byte : b <= CodeMax
    BY StreamAssumption, PacketsAssumption, LenProperties DEF Byte

\* What was taken and what remains make up what there was.
LEMMA Parts ==
    ASSUME NEW s \in Seq(Nat), NEW n \in 0 .. Len(s)
    PROVE  /\ SubSeq(s, 1, n) \in Seq(Nat) /\ Len(SubSeq(s, 1, n)) = n
           /\ SubSeq(s, n + 1, Len(s)) \in Seq(Nat)
           /\ Len(SubSeq(s, n + 1, Len(s))) = Len(s) - n
           /\ SubSeq(s, 1, n) \o SubSeq(s, n + 1, Len(s)) = s
<1>1. Len(s) \in Nat /\ \A i \in 1 .. Len(s) : s[i] \in Nat
    BY LenProperties, ElementOfSeq
<1>2. SubSeq(s, 1, n) \in Seq(Nat) /\ Len(SubSeq(s, 1, n)) = n
  <2>1. 1 \in Int /\ n \in Int /\ \A i \in 1 .. n : s[i] \in Nat
      BY <1>1
  <2>2. /\ SubSeq(s, 1, n) \in Seq(Nat)
        /\ Len(SubSeq(s, 1, n)) = IF 1 <= n THEN n - 1 + 1 ELSE 0
      BY <2>1, SubSeqProperties
  <2> QED BY <1>1, <2>2
<1>3. /\ SubSeq(s, n + 1, Len(s)) \in Seq(Nat)
      /\ Len(SubSeq(s, n + 1, Len(s))) = Len(s) - n
  <2>1. n + 1 \in Int /\ Len(s) \in Int /\ \A i \in n + 1 .. Len(s) : s[i] \in Nat
      BY <1>1
  <2>2. /\ SubSeq(s, n + 1, Len(s)) \in Seq(Nat)
        /\ Len(SubSeq(s, n + 1, Len(s))) =
              IF n + 1 <= Len(s) THEN Len(s) - (n + 1) + 1 ELSE 0
      BY <2>1, SubSeqProperties
  <2> QED BY <1>1, <2>2
<1>4. SubSeq(s, 1, n) \o SubSeq(s, n + 1, Len(s)) = s
  <2>1. /\ 1 \in 1 .. Len(s) + 1 /\ n \in 1 - 1 .. Len(s)
        /\ Len(s) \in n .. Len(s)
      BY <1>1
  <2>2. SubSeq(s, 1, n) \o SubSeq(s, n + 1, Len(s)) = SubSeq(s, 1, Len(s))
      BY <2>1, ConcatAdjacentSubSeq
  <2> QED BY <2>2, SubSeqFull
<1> QED BY <1>2, <1>3, <1>4

\* The two fields of struct tcp_tx.
LEMMA BufferIs ==
    ASSUME NEW d \in Seq(Nat), NEW f \in BOOLEAN
    PROVE  /\ Buffer(d, f).data = d /\ Buffer(d, f).failed = f
           /\ Buffer(d, f) \in [data : Seq(Nat), failed : BOOLEAN]
    BY DEF Buffer

\* A flush moves the front of the buffer to the wire.
LEMMA FlushDoes ==
    ASSUME TypeInv, Flush
    PROVE  /\ ~tx.failed
           /\ tx' \in [data : Seq(Nat), failed : BOOLEAN] /\ Len(tx'.data) <= TxCap
           /\ \E a \in Seq(Nat) :
                 /\ tx.data = a \o tx'.data
                 /\ put' = put \o a /\ pipe' = pipe \o a
                 /\ Len(pipe) + Len(a) <= PipeMax
           /\ UNCHANGED <<queued, rx, delivered, damaged>>
<1>1. PICK n \in 0 .. PipeMax, fails \in BOOLEAN :
         /\ Takes(tx, n) /\ tx' = Drained(tx, n, fails)
         /\ put' = put \o Moved(tx, n) /\ pipe' = pipe \o Moved(tx, n)
    BY DEF Flush
<1>2. /\ tx.data \in Seq(Nat) /\ Len(tx.data) \in Nat /\ n \in 0 .. Len(tx.data)
      /\ Len(tx.data) <= TxCap
    BY <1>1, LenProperties, Bounds DEF TypeInv, Takes
<1> DEFINE rest == SubSeq(tx.data, n + 1, Len(tx.data))
<1>3. /\ rest \in Seq(Nat) /\ Len(rest) = Len(tx.data) - n
      /\ Moved(tx, n) \in Seq(Nat) /\ Len(Moved(tx, n)) = n
      /\ Moved(tx, n) \o rest = tx.data
    BY <1>2, Parts DEF Moved
<1>4. tx' = Buffer(rest, fails)
    BY <1>1 DEF Drained
<1> HIDE DEF rest
<1>5. tx'.data = rest /\ tx' \in [data : Seq(Nat), failed : BOOLEAN]
    BY <1>3, <1>4, BufferIs
<1>6. Len(tx'.data) <= TxCap
    BY <1>2, <1>3, <1>5, Bounds
<1>7. Len(pipe) + Len(Moved(tx, n)) <= PipeMax
    BY <1>1, <1>3 DEF Takes
<1>8. tx.data = Moved(tx, n) \o tx'.data
    BY <1>3, <1>5
<1> QED BY <1>1, <1>3, <1>5, <1>6, <1>7, <1>8 DEF Flush

\* A packet goes behind the buffer, whole, or the connection fails.
LEMMA QueueDoes ==
    ASSUME TypeInv, Queue
    PROVE  /\ ~tx.failed /\ queued' = queued + 1 /\ queued' \in 1 .. Len(Packets)
           /\ tx' \in [data : Seq(Nat), failed : BOOLEAN] /\ Len(tx'.data) <= TxCap
           /\ \E a \in Seq(Nat) :
                 /\ \/ tx.data \o Framed(Packets[queued + 1]) = a \o tx'.data
                    \/ tx.data = a \o tx'.data /\ tx'.failed
                 /\ put' = put \o a /\ pipe' = pipe \o a
                 /\ Len(pipe) + Len(a) <= PipeMax
           /\ UNCHANGED <<rx, delivered, damaged>>
<1> DEFINE F == Framed(Packets[queued + 1])
<1>1. queued + 1 \in 1 .. Len(Packets) /\ queued' = queued + 1 /\ ~tx.failed
    BY Bounds DEF TypeInv, Queue
<1>2. PICK n \in 0 .. PipeMax, m \in 0 .. PipeMax, fails \in BOOLEAN :
         /\ Takes(tx, n)
         /\ LET early == Drained(tx, n, FALSE)
                full == Appended(early, F)
                bytes == Moved(tx, n) \o Moved(full, m)
            IN  /\ m <= Len(full.data)
                /\ full.failed => m = 0
                /\ n + m + Len(pipe) <= PipeMax
                /\ tx' = IF full.failed THEN full ELSE Drained(full, m, fails)
                /\ put' = put \o bytes
                /\ pipe' = pipe \o bytes
    BY DEF Queue
<1> DEFINE full == Appended(Drained(tx, n, FALSE), F)
           a == SubSeq(tx.data, 1, n)
           b == SubSeq(tx.data, n + 1, Len(tx.data))
<1>3. /\ tx.data \in Seq(Nat) /\ Len(tx.data) \in Nat /\ n \in 0 .. Len(tx.data)
      /\ Len(tx.data) <= TxCap
    BY <1>2, LenProperties, Bounds DEF TypeInv, Takes
<1>4. /\ a \in Seq(Nat) /\ Len(a) = n /\ b \in Seq(Nat) /\ Len(b) = Len(tx.data) - n
      /\ a \o b = tx.data
    BY <1>3, Parts
<1>5. F \in Seq(Nat) /\ Len(F) \in Nat
    BY <1>1, FrameIs
<1>6. full = IF Len(b) + Len(F) > TxCap THEN Buffer(b, TRUE)
             ELSE Buffer(b \o F, FALSE)
  <2>1. PICK e : e = Buffer(b, FALSE)
      OBVIOUS
  <2>2. e = Drained(tx, n, FALSE)
      BY <2>1 DEF Drained
  <2>3. FALSE \in BOOLEAN
      OBVIOUS
  <2> HIDE DEF b, F
  <2>4. e.data = b /\ e.failed = FALSE
      BY <1>4, <2>1, <2>3, BufferIs
  <2>5. Appended(e, F) = IF Len(b) + Len(F) > TxCap THEN Buffer(b, TRUE)
                         ELSE Buffer(b \o F, FALSE)
      BY <2>4 DEF Appended
  <2> QED BY <2>2, <2>5
<1>7. /\ m <= Len(full.data)
      /\ full.failed => m = 0
      /\ n + m + Len(pipe) <= PipeMax
      /\ tx' = IF full.failed THEN full ELSE Drained(full, m, fails)
      /\ put' = put \o (a \o Moved(full, m))
      /\ pipe' = pipe \o (a \o Moved(full, m))
    BY <1>2 DEF Moved
<1> HIDE DEF a, b, F, full
<1>8. Len(pipe) \in Nat /\ n \in Nat /\ m \in Nat
    BY <1>2, LenProperties, Bounds DEF TypeInv
<1>9. CASE Len(b) + Len(F) > TxCap
  <2>1. full.data = b /\ full.failed /\ m = 0 /\ tx' = full
    <3>1. full = Buffer(b, TRUE) /\ TRUE \in BOOLEAN
        BY <1>6, <1>9
    <3>2. full.data = b /\ (full.failed <=> TRUE)
        BY <1>4, <3>1, BufferIs
    <3>3. full.failed
        BY <3>2
    <3> QED BY <1>7, <3>2, <3>3
  <2>2. Moved(full, m) = <<>>
      BY <2>1, SubSeqEmpty DEF Moved
  <2>3. a \o Moved(full, m) = a
      BY <1>4, <2>2, ConcatEmptySeq
  <2>4. tx'.data = b /\ tx'.failed
      BY <2>1
  <2>5. tx' \in [data : Seq(Nat), failed : BOOLEAN]
    <3>1. full = Buffer(b, TRUE) /\ TRUE \in BOOLEAN
        BY <1>6, <1>9
    <3> QED BY <1>4, <2>1, <3>1, BufferIs
  <2>6. Len(b) <= TxCap /\ Len(pipe) + Len(a) <= PipeMax
      BY <1>3, <1>4, <1>7, <1>8, <2>1, Bounds
  <2>7. tx' \in [data : Seq(Nat), failed : BOOLEAN] /\ Len(tx'.data) <= TxCap
      BY <1>4, <2>4, <2>5, <2>6
  <2>8. tx.data = a \o tx'.data
      BY <1>4, <2>4
  <2>9. put' = put \o a /\ pipe' = pipe \o a
      BY <1>7, <2>3
  <2> QED BY <1>1, <1>4, <2>4, <2>6, <2>7, <2>8, <2>9 DEF Queue
<1>10. CASE ~(Len(b) + Len(F) > TxCap)
  <2> DEFINE d == b \o F
             c == SubSeq(d, 1, m)
             rest == SubSeq(d, m + 1, Len(d))
  <2>1. d \in Seq(Nat) /\ Len(d) = Len(b) + Len(F)
      BY <1>4, <1>5, ConcatProperties
  <2>2. full.data = d /\ full.failed = FALSE
    <3>1. full = Buffer(d, FALSE) /\ FALSE \in BOOLEAN
        BY <1>6, <1>10
    <3> HIDE DEF d
    <3> QED BY <2>1, <3>1, BufferIs
  <2>3. Moved(full, m) = c /\ m \in 0 .. Len(d)
    <3>1. Len(d) \in Nat
        BY <2>1, LenProperties
    <3> HIDE DEF d
    <3> QED BY <1>7, <1>8, <2>2, <3>1 DEF Moved
  <2>4. /\ c \in Seq(Nat) /\ Len(c) = m /\ rest \in Seq(Nat)
        /\ Len(rest) = Len(d) - m /\ c \o rest = d
    <3> HIDE DEF d
    <3> QED BY <2>1, <2>3, Parts
  <2>5. tx' = Buffer(rest, fails)
    <3>1. tx' = Drained(full, m, fails)
        BY <1>7, <2>2
    <3> QED BY <2>2, <3>1 DEF Drained
  <2> HIDE DEF d, c, rest
  <2>6. tx'.data = rest /\ tx' \in [data : Seq(Nat), failed : BOOLEAN]
      BY <2>4, <2>5, BufferIs
  <2>7. tx' \in [data : Seq(Nat), failed : BOOLEAN] /\ Len(tx'.data) <= TxCap
    <3>1. Len(d) <= TxCap
        BY <1>4, <1>5, <1>10, <2>1, LenProperties, Bounds
    <3>2. Len(rest) <= TxCap
        BY <2>1, <2>3, <2>4, <3>1, LenProperties, Bounds
    <3> QED BY <2>6, <3>2
  <2>8. a \o c \in Seq(Nat) /\ Len(a \o c) = n + m
      BY <1>4, <2>4, ConcatProperties
  <2>9. tx.data \o F = (a \o c) \o rest
    <3>1. (a \o b) \o F = a \o d
        BY <1>4, <1>5, Associates DEF d
    <3>2. a \o (c \o rest) = (a \o c) \o rest
        BY <1>4, <2>4, Associates
    <3> QED BY <1>4, <2>4, <3>1, <3>2
  <2>10. Len(pipe) + Len(a \o c) <= PipeMax
      BY <1>7, <1>8, <2>8
  <2>11. put' = put \o (a \o c) /\ pipe' = pipe \o (a \o c)
      BY <1>7, <2>3
  <2>12. tx.data \o Framed(Packets[queued + 1]) = (a \o c) \o tx'.data
      BY <2>6, <2>9 DEF F
  <2> QED BY <1>1, <2>7, <2>8, <2>10, <2>11, <2>12 DEF Queue
<1> QED BY <1>9, <1>10

----------------------------------------------------------------------------
(* The frames written                                                      *)

IsWriting(g) ==
    g = [k \in 0 .. Len(Packets) |->
            IF k = 0 THEN <<>> ELSE g[k - 1] \o Framed(Packets[k])]

\* Written, frame by frame.
LEMMA WrittenIs ==
    /\ Written[0] = <<>>
    /\ \A k \in 0 .. Len(Packets) : Written[k] \in Seq(Nat)
    /\ \A k \in 1 .. Len(Packets) : Written[k] = Written[k - 1] \o Framed(Packets[k])
<1> DEFINE n == Len(Packets)
           F == [x \in Seq(Nat) \X (1 .. n) |-> x[1] \o Framed(Packets[x[2]])]
<1>1. n \in Nat
    BY Bounds
<1> HIDE DEF n
<1>2. ASSUME NEW k \in 1 .. n, NEW s \in Seq(Nat)
      PROVE  F[<<s, k>>] = s \o Framed(Packets[k]) /\ s \o Framed(Packets[k]) \in Seq(Nat)
  <2>1. <<s, k>> \in Seq(Nat) \X (1 .. n)
      OBVIOUS
  <2>2. F[<<s, k>>] = s \o Framed(Packets[k])
      BY <2>1
  <2>3. Framed(Packets[k]) \in Seq(Nat)
      BY FrameIs DEF n
  <2> QED BY <2>2, <2>3, ConcatProperties
<1> HIDE DEF F
<1>3. <<>> \in Seq(Nat)
    BY EmptySeq
<1>4. PICK g : IsRun(g, F, <<>>, n)
    BY <1>1, RunExists
<1>5. g[0] = <<>> /\ \A k \in 1 .. n : g[k] = F[<<g[k - 1], k>>]
    BY <1>1, <1>4, RunIs
<1>6. \A k \in 0 .. n : g[k] \in Seq(Nat)
  <2>1. ASSUME NEW k \in 1 .. n, g[k - 1] \in Seq(Nat)
        PROVE  g[k] \in Seq(Nat)
    <3>1. g[k] = F[<<g[k - 1], k>>]
        BY <1>5
    <3> QED BY <1>2, <2>1, <3>1
  <2> QED BY <1>1, <1>3, <1>5, <2>1, RunStaysIn
<1>7. IsWriting(g)
  <2>1. g = [k \in 0 .. n |-> g[k]]
      BY <1>4 DEF IsRun
  <2>2. ASSUME NEW k \in 0 .. n
        PROVE  g[k] = IF k = 0 THEN <<>> ELSE g[k - 1] \o Framed(Packets[k])
    <3>1. CASE k = 0
        BY <1>5, <3>1
    <3>2. CASE k # 0
      <4>1. k \in 1 .. n /\ k - 1 \in 0 .. n
          BY <1>1, <3>2
      <4>2. g[k - 1] \in Seq(Nat)
          BY <1>6, <4>1
      <4> QED BY <1>2, <1>5, <3>2, <4>1, <4>2
    <3> QED BY <3>1, <3>2
  <2> QED BY <2>1, <2>2 DEF IsWriting, n
<1>8. IsWriting(Written)
  <2>1. Written = CHOOSE h : IsWriting(h)
      BY Zenon DEF Written, IsWriting
  <2> QED BY <1>7, <2>1
<1>9. /\ Written[0] = <<>>
      /\ \A k \in 1 .. n : Written[k] = Written[k - 1] \o Framed(Packets[k])
  <2>1. Written = [k \in 0 .. n |->
                      IF k = 0 THEN <<>> ELSE Written[k - 1] \o Framed(Packets[k])]
      BY <1>8 DEF IsWriting, n
  <2> HIDE DEF Written
  <2> QED BY <1>1, <2>1
<1>10. \A k \in 0 .. n : Written[k] \in Seq(Nat)
  <2>1. ASSUME NEW k \in 1 .. n, Written[k - 1] \in Seq(Nat)
        PROVE  Written[k] \in Seq(Nat)
    <3>1. Written[k] = Written[k - 1] \o Framed(Packets[k])
        BY <1>9
    <3> QED BY <1>2, <2>1, <3>1
  <2> QED BY <1>1, <1>3, <1>9, <2>1, RunStaysIn
<1> QED BY <1>9, <1>10 DEF n

----------------------------------------------------------------------------
(* The receiver                                                            *)

\* A delivery is a number or nothing.
LEMMA DeliveryTyped ==
    ASSUME NEW p
    PROVE  Delivery(p) \in Seq(Nat)
<1>1. CASE p = <<>>
    BY <1>1, EmptySeq DEF Delivery
<1>2. CASE p # <<>> /\ p \in Range(Packets)
  <2>1. PICK k \in 1 .. Len(Packets) : p = Packets[k]
      BY <1>2, Bounds DEF Range
  <2>2. Delivery(p) = <<k>> /\ k \in Nat
      BY <1>2, <2>1, CrcIs DEF Delivery
  <2> QED BY <2>2
<1>3. CASE p # <<>> /\ p \notin Range(Packets)
    BY <1>3 DEF Delivery
<1> QED BY <1>1, <1>2, <1>3

\* One byte arrives: it is collected, or dropped, or ends the frame.
LEMMA ReceiveDoes ==
    ASSUME TypeInv, Receive
    PROVE  LET b == Head(pipe)
           IN  /\ Len(pipe) \in Nat \ {0} /\ b = pipe[1] /\ b \in Nat
               /\ pipe' = Tail(pipe) /\ pipe' \in Seq(Nat) /\ Len(pipe') = Len(pipe) - 1
               /\ pipe = <<b>> \o pipe'
               /\ UNCHANGED <<queued, tx, put, damaged>>
               /\ rx' \in [frame : Seq(Nat \ {0}), discarding : BOOLEAN]
               /\ Len(rx'.frame) <= FrameMax
               /\ \/ /\ b # 0 /\ delivered' = delivered
                     /\ \/ /\ rx.discarding \/ Len(rx.frame) = FrameMax
                           /\ rx'.frame = rx.frame /\ rx'.discarding
                        \/ /\ ~rx.discarding /\ Len(rx.frame) < FrameMax
                           /\ rx'.frame = Append(rx.frame, b) /\ ~rx'.discarding
                  \/ /\ b = 0 /\ rx'.frame = <<>> /\ ~rx'.discarding
                     /\ \/ delivered' = delivered
                        \/ /\ ~rx.discarding /\ IsFrame(Decoded(rx.frame))
                           /\ delivered' = delivered
                                 \o Delivery(Payload(Decoded(rx.frame).out))
               /\ b = 0 /\ ~rx.discarding /\ IsFrame(Decoded(rx.frame)) =>
                     delivered' = delivered \o Delivery(Payload(Decoded(rx.frame).out))
<1> DEFINE b == Head(pipe)
<1>1. /\ pipe \in Seq(Nat) /\ pipe # <<>>
      /\ Len(pipe) \in Nat \ {0}
  <2>1. pipe \in Seq(Nat) /\ pipe # <<>>
      BY DEF TypeInv, Receive
  <2> QED BY <2>1, EmptySeq, LenProperties
<1>2. /\ b = pipe[1] /\ b \in Nat /\ pipe' = Tail(pipe) /\ pipe' \in Seq(Nat)
      /\ Len(pipe') = Len(pipe) - 1
  <2>1. pipe' = Tail(pipe)
      BY DEF Receive
  <2> QED BY <1>1, <2>1, HeadTailProperties, ElementOfSeq
<1>3. pipe = <<b>> \o pipe'
    BY <1>1, <1>2, HeadTailProperties
<1>4. /\ rx.frame \in Seq(Nat \ {0}) /\ rx.discarding \in BOOLEAN
      /\ Len(rx.frame) <= FrameMax /\ Len(rx.frame) \in Nat
      /\ rx \in [frame : Seq(Nat \ {0}), discarding : BOOLEAN]
    BY LenProperties DEF TypeInv
<1>5. /\ rx' = Push(rx, b).rx
      /\ delivered' = delivered \o Delivery(Push(rx, b).got)
    BY DEF Receive
<1>6. UNCHANGED <<queued, tx, put, damaged>>
    BY DEF Receive
<1>7. delivered \o Delivery(<<>>) = delivered
  <2>1. Delivery(<<>>) = <<>> /\ delivered \in Seq(Nat)
      BY DEF Delivery, TypeInv
  <2> QED BY <2>1, ConcatEmptySeq
<1> HIDE DEF b
<1>8. CASE b # 0 /\ rx.discarding
  <2>1. Push(rx, b) = [rx |-> rx, got |-> <<>>]
      BY <1>8 DEF Push
  <2>2. rx' = rx /\ delivered' = delivered
      BY <1>5, <1>7, <2>1
  <2> QED BY <1>1, <1>2, <1>3, <1>4, <1>6, <1>8, <2>2 DEF b
<1>9. CASE b # 0 /\ ~rx.discarding
  <2>1. Push(rx, b) = [rx |-> Collected(rx, b), got |-> <<>>]
      BY <1>9 DEF Push
  <2>2. rx' = Collected(rx, b) /\ delivered' = delivered
      BY <1>5, <1>7, <2>1
  <2>3. CASE Len(rx.frame) = FrameMax
    <3>1. rx'.frame = rx.frame /\ rx'.discarding
          /\ rx' \in [frame : Seq(Nat \ {0}), discarding : BOOLEAN]
        BY <1>4, <2>2, <2>3 DEF Collected
    <3> QED BY <1>1, <1>2, <1>3, <1>4, <1>6, <1>9, <2>2, <2>3, <3>1 DEF b
  <2>4. CASE Len(rx.frame) # FrameMax
    <3>1. /\ Append(rx.frame, b) \in Seq(Nat \ {0})
          /\ Len(Append(rx.frame, b)) = Len(rx.frame) + 1
        BY <1>2, <1>4, <1>9, AppendProperties
    <3>2. rx'.frame = Append(rx.frame, b) /\ rx'.discarding = rx.discarding
          /\ rx' \in [frame : Seq(Nat \ {0}), discarding : BOOLEAN]
        BY <1>4, <2>2, <2>4, <3>1 DEF Collected
    <3>3. Len(rx.frame) < FrameMax /\ Len(rx'.frame) <= FrameMax
        BY <1>4, <2>4, <3>1, <3>2, Bounds
    <3> QED BY <1>1, <1>2, <1>3, <1>4, <1>6, <1>9, <2>2, <3>2, <3>3 DEF b
  <2> QED BY <2>3, <2>4
<1>10. ASSUME b = 0
       PROVE  /\ rx'.frame = <<>> /\ ~rx'.discarding /\ Len(rx'.frame) <= FrameMax
              /\ rx' \in [frame : Seq(Nat \ {0}), discarding : BOOLEAN]
              /\ IF ~rx.discarding /\ IsFrame(Decoded(rx.frame))
                 THEN delivered' = delivered \o Delivery(Payload(Decoded(rx.frame).out))
                 ELSE delivered' = delivered
  <2>1. Push(rx, b).rx = Empty
      BY <1>10 DEF Push, Restarted
  <2>2. <<>> \in Seq(Nat \ {0}) /\ Len(<<>>) = 0
      BY EmptySeq
  <2>3. rx'.frame = <<>> /\ ~rx'.discarding
        /\ rx' \in [frame : Seq(Nat \ {0}), discarding : BOOLEAN]
      BY <1>5, <2>1, <2>2 DEF Empty
  <2>4. Len(rx'.frame) <= FrameMax
      BY <2>2, <2>3, Bounds
  <2>5. CASE ~rx.discarding /\ IsFrame(Decoded(rx.frame))
    <3>1. Push(rx, b).got = Payload(Decoded(rx.frame).out)
        BY <1>10, <2>5 DEF Push
    <3> QED BY <1>5, <2>3, <2>4, <2>5, <3>1
  <2>6. CASE ~(~rx.discarding /\ IsFrame(Decoded(rx.frame)))
    <3>1. Push(rx, b).got = <<>>
        BY <1>10, <2>6 DEF Push
    <3> QED BY <1>5, <1>7, <2>3, <2>4, <2>6, <3>1
  <2> QED BY <2>5, <2>6
<1>11. CASE b = 0
    BY <1>1, <1>2, <1>3, <1>6, <1>10, <1>11 DEF b
<1> QED BY <1>4, <1>8, <1>9, <1>11

\* The line loses, gains or changes the byte that comes next, nothing else.
LEMMA DamageDoes ==
    ASSUME TypeInv, Damage
    PROVE  LET b == Head(pipe)
               rest == Tail(pipe)
           IN  /\ b \in Nat /\ rest \in Seq(Nat) /\ pipe = <<b>> \o rest
               /\ Len(rest) \in Nat /\ Len(pipe) = Len(rest) + 1
               /\ damaged' = damaged + 1 /\ damaged < DamageMax
               /\ pipe' \in Seq(Nat) /\ Len(pipe') <= PipeMax
               /\ \/ pipe' = rest
                  \/ \E c \in Byte : pipe' = <<c>> \o pipe
                  \/ \E c \in Byte : pipe' = <<c>> \o rest
               /\ UNCHANGED <<queued, tx, put, rx, delivered>>
<1> DEFINE b == Head(pipe)
           rest == Tail(pipe)
<1>1. /\ pipe \in Seq(Nat) /\ pipe # <<>>
      /\ Len(pipe) \in Nat \ {0} /\ Len(pipe) <= PipeMax
  <2>1. pipe \in Seq(Nat) /\ pipe # <<>> /\ Len(pipe) <= PipeMax
      BY DEF TypeInv, Damage
  <2> QED BY <2>1, EmptySeq, LenProperties
<1>2. /\ b \in Nat /\ rest \in Seq(Nat) /\ Len(rest) = Len(pipe) - 1
      /\ pipe = <<b>> \o rest
  <2>1. b = pipe[1]
      BY <1>1, HeadTailProperties
  <2> QED BY <1>1, <2>1, HeadTailProperties, ElementOfSeq
<1>3. /\ damaged < DamageMax /\ damaged' = damaged + 1
      /\ UNCHANGED <<queued, tx, put, rx, delivered>>
    BY DEF Damage
<1>4. \/ pipe' = rest
      \/ \E c \in Byte : Len(pipe) < PipeMax /\ pipe' = <<c>> \o pipe
      \/ \E c \in Byte : pipe' = <<c>> \o rest
    BY DEF Damage
<1> HIDE DEF b, rest
<1>5. ASSUME NEW c \in Byte
      PROVE  /\ <<c>> \in Seq(Nat) /\ Len(<<c>>) = 1
             /\ <<c>> \o pipe \in Seq(Nat) /\ Len(<<c>> \o pipe) = Len(pipe) + 1
             /\ <<c>> \o rest \in Seq(Nat) /\ Len(<<c>> \o rest) = Len(pipe)
  <2>1. c \in Nat
      BY Bounds
  <2>2. <<c>> \in Seq(Nat) /\ Len(<<c>>) = 1
      BY <2>1
  <2> QED BY <1>1, <1>2, <2>2, ConcatProperties
<1>6. ASSUME pipe' = rest
      PROVE  pipe' \in Seq(Nat) /\ Len(pipe') <= PipeMax
    BY <1>1, <1>2, <1>6, Bounds
<1>7. ASSUME NEW c \in Byte, Len(pipe) < PipeMax, pipe' = <<c>> \o pipe
      PROVE  pipe' \in Seq(Nat) /\ Len(pipe') <= PipeMax
    BY <1>1, <1>5, <1>7, Bounds
<1>8. ASSUME NEW c \in Byte, pipe' = <<c>> \o rest
      PROVE  pipe' \in Seq(Nat) /\ Len(pipe') <= PipeMax
    BY <1>1, <1>5, <1>8
<1>9. /\ pipe' \in Seq(Nat) /\ Len(pipe') <= PipeMax
      /\ \/ pipe' = rest
         \/ \E c \in Byte : pipe' = <<c>> \o pipe
         \/ \E c \in Byte : pipe' = <<c>> \o rest
    BY <1>4, <1>6, <1>7, <1>8
<1>10. Len(rest) \in Nat /\ Len(pipe) = Len(rest) + 1
    BY <1>1, <1>2
<1> QED BY <1>2, <1>3, <1>9, <1>10 DEF b, rest

\* The types hold at the start and after every step.
LEMMA TypeStarts ==
    ASSUME Init
    PROVE  TypeInv
<1>1. /\ <<>> \in Seq(Nat) /\ <<>> \in Seq(Nat \ {0}) /\ Len(<<>>) = 0 /\ FALSE \in BOOLEAN
    BY EmptySeq
<1>2. tx \in [data : Seq(Nat), failed : BOOLEAN] /\ tx.data = <<>>
    BY <1>1, BufferIs DEF Init
<1>3. rx \in [frame : Seq(Nat \ {0}), discarding : BOOLEAN] /\ rx.frame = <<>>
    BY <1>1 DEF Init, Empty
<1>4. /\ queued = 0 /\ put = <<>> /\ pipe = <<>> /\ delivered = <<>> /\ damaged = 0
    BY DEF Init
<1>5. Len(tx.data) <= TxCap /\ Len(rx.frame) <= FrameMax /\ Len(pipe) <= PipeMax
    BY <1>1, <1>2, <1>3, <1>4, Bounds
<1>6. queued \in 0 .. Len(Packets) /\ damaged \in 0 .. DamageMax
    BY <1>4, Bounds
<1> QED BY <1>1, <1>2, <1>3, <1>4, <1>5, <1>6 DEF TypeInv

\* Every step keeps the types.
LEMMA TypeKept ==
    ASSUME TypeInv, [Next]_vars
    PROVE  TypeInv'
<1>1. CASE Queue
  <2>1. /\ queued' \in 0 .. Len(Packets)
        /\ tx' \in [data : Seq(Nat), failed : BOOLEAN] /\ Len(tx'.data) <= TxCap
        /\ UNCHANGED <<rx, delivered, damaged>>
      BY <1>1, QueueDoes, Bounds
  <2>2. PICK a \in Seq(Nat) : /\ put' = put \o a /\ pipe' = pipe \o a
                              /\ Len(pipe) + Len(a) <= PipeMax
      BY <1>1, QueueDoes
  <2>3. put' \in Seq(Nat) /\ pipe' \in Seq(Nat) /\ Len(pipe') <= PipeMax
    <3>1. put \in Seq(Nat) /\ pipe \in Seq(Nat)
        BY DEF TypeInv
    <3> QED BY <2>2, <3>1, ConcatProperties
  <2> QED BY <2>1, <2>3 DEF TypeInv
<1>2. CASE Flush
  <2>1. /\ tx' \in [data : Seq(Nat), failed : BOOLEAN] /\ Len(tx'.data) <= TxCap
        /\ UNCHANGED <<queued, rx, delivered, damaged>>
      BY <1>2, FlushDoes
  <2>2. PICK a \in Seq(Nat) : /\ put' = put \o a /\ pipe' = pipe \o a
                              /\ Len(pipe) + Len(a) <= PipeMax
      BY <1>2, FlushDoes
  <2>3. put' \in Seq(Nat) /\ pipe' \in Seq(Nat) /\ Len(pipe') <= PipeMax
    <3>1. put \in Seq(Nat) /\ pipe \in Seq(Nat)
        BY DEF TypeInv
    <3> QED BY <2>2, <3>1, ConcatProperties
  <2> QED BY <2>1, <2>3 DEF TypeInv
<1>3. CASE Receive
  <2>1. /\ pipe' \in Seq(Nat) /\ Len(pipe') = Len(pipe) - 1 /\ Len(pipe) \in Nat
        /\ UNCHANGED <<queued, tx, put, damaged>>
        /\ rx' \in [frame : Seq(Nat \ {0}), discarding : BOOLEAN]
        /\ Len(rx'.frame) <= FrameMax
      BY <1>3, ReceiveDoes
  <2>2. Len(pipe') <= PipeMax
      BY <2>1, Bounds DEF TypeInv
  <2>3. delivered' \in Seq(Nat)
    <3>1. delivered \in Seq(Nat)
        BY DEF TypeInv
    <3>2. delivered' = delivered \o Delivery(Push(rx, Head(pipe)).got)
        BY <1>3 DEF Receive
    <3>3. Delivery(Push(rx, Head(pipe)).got) \in Seq(Nat)
        BY DeliveryTyped
    <3> QED BY <3>1, <3>2, <3>3, ConcatProperties
  <2> QED BY <2>1, <2>2, <2>3 DEF TypeInv
<1>4. CASE Damage
  <2>1. /\ damaged' = damaged + 1 /\ damaged < DamageMax
        /\ pipe' \in Seq(Nat) /\ Len(pipe') <= PipeMax
        /\ UNCHANGED <<queued, tx, put, rx, delivered>>
      BY <1>4, DamageDoes
  <2>2. damaged' \in 0 .. DamageMax
      BY <2>1, Bounds DEF TypeInv
  <2> QED BY <2>1, <2>2 DEF TypeInv
<1>5. CASE UNCHANGED vars
    BY <1>5 DEF TypeInv, vars
<1> QED BY <1>1, <1>2, <1>3, <1>4, <1>5 DEF Next, Idle

\* Types and bounds: the queue, the pipe and the frame never outgrow their
\* buffers (struct tcp_tx, struct tcp_rx) and a frame holds no delimiter.
THEOREM TypesHold == Spec => []TypeOK
<1>1. Init => TypeInv
    BY TypeStarts
<1>2. TypeInv /\ [Next]_vars => TypeInv'
    BY TypeKept
<1>3. ASSUME TypeInv
      PROVE  TypeOK
  <2>1. 0 \notin Range(rx.frame)
    <3>1. rx.frame \in Seq(Nat \ {0})
        BY <1>3 DEF TypeInv
    <3>2. ASSUME NEW i \in DOMAIN rx.frame
          PROVE  rx.frame[i] # 0
        BY <3>1, ElementOfSeq, LenProperties
    <3> QED BY <3>2 DEF Range
  <2> QED BY <1>3, <2>1 DEF TypeInv, TypeOK
<1> QED BY <1>1, <1>2, <1>3, PTL DEF Spec

----------------------------------------------------------------------------
(* Nothing follows a cut                                                   *)

\* The bytes the socket took and, while the connection lives, those behind
\* them are the frames back to back.
CutInv ==
    IF tx.failed THEN \E rest \in Seq(Nat) : put \o rest = Written[queued]
    ELSE put \o tx.data = Written[queued]

\* Nothing was put, and no frame was written.
LEMMA CutStarts ==
    ASSUME Init
    PROVE  CutInv
<1>1. ~tx.failed /\ tx.data = <<>> /\ put = <<>> /\ queued = 0
  <2>1. <<>> \in Seq(Nat) /\ FALSE \in BOOLEAN
      BY EmptySeq
  <2>2. PICK f \in BOOLEAN : f = FALSE
      OBVIOUS
  <2>3. tx = Buffer(<<>>, f)
      BY <2>2 DEF Init
  <2>4. tx.data = <<>> /\ tx.failed = f
      BY <2>1, <2>3, BufferIs
  <2> QED BY <2>2, <2>4 DEF Init
<1>2. <<>> \o <<>> = <<>>
    BY EmptySeq, ConcatEmptySeq
<1> QED BY <1>1, <1>2, WrittenIs DEF CutInv

\* A step takes from the front of the buffer and adds whole frames behind it,
\* or it ends the stream.
LEMMA CutKept ==
    ASSUME TypeInv, TypeInv', CutInv, [Next]_vars
    PROVE  CutInv'
<1>1. CASE Queue
  <2>1. /\ ~tx.failed /\ queued' = queued + 1 /\ queued' \in 1 .. Len(Packets)
        /\ queued \in 0 .. Len(Packets)
      BY <1>1, QueueDoes DEF TypeInv
  <2>2. PICK a \in Seq(Nat) :
           /\ \/ tx.data \o Framed(Packets[queued + 1]) = a \o tx'.data
              \/ tx.data = a \o tx'.data /\ tx'.failed
           /\ put' = put \o a
      BY <1>1, QueueDoes
  <2> DEFINE F == Framed(Packets[queued + 1])
  <2>3. F \in Seq(Nat) /\ Written[queued'] = Written[queued] \o F
    <3>1. queued' - 1 = queued
        BY <2>1, Bounds
    <3> QED BY <2>1, <3>1, FrameIs, WrittenIs
  <2>4. put \in Seq(Nat) /\ tx.data \in Seq(Nat) /\ tx'.data \in Seq(Nat)
      BY DEF TypeInv
  <2> HIDE DEF F
  <2>6. PICK old \in Seq(Nat), new \in Seq(Nat) : old = tx.data /\ new = tx'.data
      BY <2>4
  <2>5. put \o old = Written[queued]
      BY <2>1, <2>6 DEF CutInv
  <2>7. put \in Seq(Nat)
      BY <2>4
  <2>8. CASE old \o F = a \o new
    <3>1. (put \o old) \o F = put \o (old \o F)
        BY <2>3, <2>7, Associates
    <3>2. Written[queued'] = put \o (old \o F)
        BY <2>3, <2>5, <3>1
    <3>3. put \o (a \o new) = (put \o a) \o new
        BY <2>7, Associates
    <3>4. put' \o new = Written[queued']
        BY <2>2, <2>8, <3>2, <3>3
    <3> QED BY <2>6, <2>7, <3>4 DEF CutInv
  <2>9. CASE old = a \o new /\ tx'.failed
    <3>1. (put \o a) \o new = Written[queued]
        BY <2>5, <2>7, <2>9, Associates
    <3>2. PICK s \in Seq(Nat) : s = put \o a
      <4>1. put \o a \in Seq(Nat)
          BY <2>7, ConcatProperties
      <4> QED BY <4>1
    <3>3. (s \o new) \o F = s \o (new \o F) /\ new \o F \in Seq(Nat)
        BY <2>3, Associates, ConcatProperties
    <3>4. put' \o (new \o F) = Written[queued']
        BY <2>2, <2>3, <3>1, <3>2, <3>3
    <3> QED BY <2>9, <3>3, <3>4 DEF CutInv
  <2> QED BY <2>2, <2>6, <2>8, <2>9 DEF F
<1>2. CASE Flush
  <2>1. ~tx.failed /\ queued' = queued
      BY <1>2, FlushDoes
  <2>2. PICK a \in Seq(Nat) : tx.data = a \o tx'.data /\ put' = put \o a
      BY <1>2, FlushDoes
  <2>3. put \in Seq(Nat) /\ tx'.data \in Seq(Nat)
      BY DEF TypeInv
  <2>4. put \o tx.data = Written[queued]
      BY <2>1 DEF CutInv
  <2>5. PICK new \in Seq(Nat) : new = tx'.data
      BY <2>3
  <2>6. put' \o new = Written[queued']
    <3>1. put \o (a \o new) = (put \o a) \o new
        BY <2>3, Associates
    <3> QED BY <2>1, <2>2, <2>4, <2>5, <3>1
  <2> QED BY <2>3, <2>5, <2>6 DEF CutInv
<1>3. CASE UNCHANGED <<queued, tx, put>>
    BY <1>3 DEF CutInv
<1> QED BY <1>1, <1>2, <1>3 DEF Next, Receive, Damage, Idle, vars

\* tcp_tx_queue's overflow test and tcp_tx_flush's remainder: the socket is
\* given whole frames back to back, and nothing behind a frame that was cut.
THEOREM WholeFrames == Spec => []NothingFollowsACut
<1>1. Init => TypeInv /\ CutInv
    BY TypeStarts, CutStarts
<1>2. TypeInv /\ CutInv /\ [Next]_vars => (TypeInv /\ CutInv)'
    BY TypeKept, CutKept
<1>3. ASSUME TypeInv, CutInv
      PROVE  NothingFollowsACut
  <2>1. CASE tx.failed
    <3>1. PICK rest \in Seq(Nat) : put \o rest = Written[queued]
        BY <1>3, <2>1 DEF CutInv
    <3>2. put \in Seq(Nat) /\ Len(put) \in Nat /\ Len(rest) \in Nat
        BY <1>3, LenProperties DEF TypeInv
    <3>3. Len(put \o rest) = Len(put) + Len(rest)
        BY <3>1, <3>2, ConcatProperties
    <3>4. put = SubSeq(put \o rest, 1, Len(put))
        BY <3>1, <3>2, ConcatProperties
    <3> QED BY <2>1, <3>1, <3>2, <3>3, <3>4 DEF NothingFollowsACut, IsStart
  <2>2. CASE ~tx.failed
      BY <1>3, <2>2 DEF CutInv, NothingFollowsACut
  <2> QED BY <2>1, <2>2
<1> QED BY <1>1, <1>2, <1>3, PTL DEF Spec

----------------------------------------------------------------------------
(* Only what was sent                                                      *)

\* The CRCs among the symbols of s, and that their packets come in order.
Marks(s) == {x \in Range(s) : x > CodeMax}

Before(S, T) == \A x \in S, y \in T : x < y

Climbing(s) ==
    \A i, j \in 1 .. Len(s) :
        i < j /\ s[i] > CodeMax /\ s[j] > CodeMax => s[i] < s[j]

\* The CRCs of s are those of its symbols that are larger than a byte.
LEMMA MarkIs ==
    ASSUME NEW s \in Seq(Nat)
    PROVE  /\ \A i \in 1 .. Len(s) : s[i] > CodeMax => s[i] \in Marks(s)
           /\ \A x \in Marks(s) : x \in Nat /\ x > CodeMax
                                  /\ \E i \in 1 .. Len(s) : s[i] = x
<1>1. DOMAIN s = 1 .. Len(s) /\ \A i \in 1 .. Len(s) : s[i] \in Nat
    BY LenProperties, ElementOfSeq
<1> QED BY <1>1 DEF Marks, Range

\* Two sequences in a row climb when each does and the first is before the second.
LEMMA MarksJoin ==
    ASSUME NEW s \in Seq(Nat), NEW t \in Seq(Nat)
    PROVE  /\ Marks(s \o t) = Marks(s) \cup Marks(t)
           /\ Climbing(s \o t) <=>
                 Climbing(s) /\ Climbing(t) /\ Before(Marks(s), Marks(t))
<1>1. Len(s) \in Nat /\ Len(t) \in Nat
    BY LenProperties
<1>2. PICK u \in Seq(Nat) : u = s \o t
  <2>1. s \o t \in Seq(Nat)
      BY ConcatProperties
  <2> QED BY <2>1
<1>3. /\ Len(u) = Len(s) + Len(t)
      /\ \A i \in 1 .. Len(s) : u[i] = s[i]
      /\ \A i \in 1 .. Len(t) : u[Len(s) + i] = t[i]
  <2>1. /\ Len(u) = Len(s) + Len(t)
        /\ \A i \in 1 .. Len(s) + Len(t) :
              u[i] = IF i <= Len(s) THEN s[i] ELSE t[i - Len(s)]
      BY <1>2, ConcatProperties
  <2>2. ASSUME NEW i \in 1 .. Len(s)
        PROVE  u[i] = s[i]
      BY <1>1, <2>1
  <2>3. ASSUME NEW i \in 1 .. Len(t)
        PROVE  u[Len(s) + i] = t[i]
    <3>1. /\ Len(s) + i \in 1 .. Len(s) + Len(t) /\ ~(Len(s) + i <= Len(s))
          /\ (Len(s) + i) - Len(s) = i
        BY <1>1
    <3> QED BY <2>1, <3>1
  <2> QED BY <2>1, <2>2, <2>3
<1>4. /\ \A i \in 1 .. Len(s) : s[i] \in Nat
      /\ \A i \in 1 .. Len(t) : t[i] \in Nat
    BY ElementOfSeq
<1>5. ASSUME NEW i \in 1 .. Len(u)
      PROVE  \/ i \in 1 .. Len(s) /\ u[i] = s[i]
             \/ i - Len(s) \in 1 .. Len(t) /\ u[i] = t[i - Len(s)]
  <2>1. i - Len(s) \in 1 .. Len(t) => Len(s) + (i - Len(s)) = i
      BY <1>1
  <2>2. i \in 1 .. Len(s) \/ i - Len(s) \in 1 .. Len(t)
      BY <1>1, <1>3
  <2> QED BY <1>3, <2>1, <2>2
<1>6. Marks(u) = Marks(s) \cup Marks(t)
  <2>1. ASSUME NEW x \in Marks(u)
        PROVE  x \in Marks(s) \cup Marks(t)
    <3>1. PICK i \in 1 .. Len(u) : u[i] = x /\ x > CodeMax
        BY MarkIs
    <3>2. CASE i \in 1 .. Len(s) /\ u[i] = s[i]
        BY <3>1, <3>2, MarkIs
    <3>3. CASE i - Len(s) \in 1 .. Len(t) /\ u[i] = t[i - Len(s)]
        BY <3>1, <3>3, MarkIs
    <3> QED BY <1>5, <3>2, <3>3
  <2>2. ASSUME NEW x \in Marks(s)
        PROVE  x \in Marks(u)
    <3>1. PICK i \in 1 .. Len(s) : s[i] = x /\ x > CodeMax
        BY MarkIs
    <3>2. i \in 1 .. Len(u) /\ u[i] = x
        BY <1>1, <1>3, <3>1
    <3> QED BY <3>1, <3>2, MarkIs
  <2>3. ASSUME NEW x \in Marks(t)
        PROVE  x \in Marks(u)
    <3>1. PICK i \in 1 .. Len(t) : t[i] = x /\ x > CodeMax
        BY MarkIs
    <3>2. Len(s) + i \in 1 .. Len(u) /\ u[Len(s) + i] = x
        BY <1>1, <1>3, <3>1
    <3> QED BY <3>1, <3>2, MarkIs
  <2> QED BY <2>1, <2>2, <2>3
<1>7. ASSUME Climbing(s), Climbing(t), Before(Marks(s), Marks(t))
      PROVE  Climbing(u)
  <2>1. SUFFICES ASSUME NEW i \in 1 .. Len(u), NEW j \in 1 .. Len(u), i < j,
                        u[i] > CodeMax, u[j] > CodeMax
                 PROVE  u[i] < u[j]
      BY DEF Climbing
  <2>2. CASE i \in 1 .. Len(s) /\ u[i] = s[i] /\ j \in 1 .. Len(s) /\ u[j] = s[j]
      BY <1>7, <2>1, <2>2 DEF Climbing
  <2>3. CASE i \in 1 .. Len(s) /\ u[i] = s[i]
             /\ j - Len(s) \in 1 .. Len(t) /\ u[j] = t[j - Len(s)]
    <3>1. s[i] \in Marks(s) /\ t[j - Len(s)] \in Marks(t)
        BY <2>1, <2>3, MarkIs
    <3> QED BY <1>7, <2>3, <3>1 DEF Before
  <2>4. CASE /\ i - Len(s) \in 1 .. Len(t) /\ u[i] = t[i - Len(s)]
             /\ j - Len(s) \in 1 .. Len(t) /\ u[j] = t[j - Len(s)]
    <3>1. i - Len(s) < j - Len(s)
        BY <1>1, <2>1
    <3> QED BY <1>7, <2>1, <2>4, <3>1 DEF Climbing
  <2>5. ~(i - Len(s) \in 1 .. Len(t) /\ j \in 1 .. Len(s))
      BY <1>1, <2>1
  <2> QED BY <1>5, <2>2, <2>3, <2>4, <2>5
<1>8. ASSUME Climbing(u)
      PROVE  Climbing(s) /\ Climbing(t) /\ Before(Marks(s), Marks(t))
  <2>1. ASSUME NEW i \in 1 .. Len(s), NEW j \in 1 .. Len(s), i < j,
               s[i] > CodeMax, s[j] > CodeMax
        PROVE  s[i] < s[j]
    <3>1. i \in 1 .. Len(u) /\ j \in 1 .. Len(u) /\ u[i] = s[i] /\ u[j] = s[j]
        BY <1>1, <1>3
    <3> QED BY <1>8, <2>1, <3>1 DEF Climbing
  <2>2. ASSUME NEW i \in 1 .. Len(t), NEW j \in 1 .. Len(t), i < j,
               t[i] > CodeMax, t[j] > CodeMax
        PROVE  t[i] < t[j]
    <3>1. u[Len(s) + i] = t[i] /\ u[Len(s) + j] = t[j]
        BY <1>3
    <3>2. PICK a, b : a = Len(s) + i /\ b = Len(s) + j
        OBVIOUS
    <3>3. a \in 1 .. Len(u) /\ b \in 1 .. Len(u) /\ a < b
        BY <1>1, <1>3, <2>2, <3>2
    <3> QED BY <1>8, <2>2, <3>1, <3>2, <3>3 DEF Climbing
  <2>3. ASSUME NEW x \in Marks(s), NEW y \in Marks(t)
        PROVE  x < y
    <3>1. PICK i \in 1 .. Len(s) : s[i] = x /\ x > CodeMax
        BY MarkIs
    <3>2. PICK j \in 1 .. Len(t) : t[j] = y /\ y > CodeMax
        BY MarkIs
    <3>3. u[i] = x /\ u[Len(s) + j] = y
        BY <1>3, <3>1, <3>2
    <3>4. PICK b : b = Len(s) + j
        OBVIOUS
    <3>5. i \in 1 .. Len(u) /\ b \in 1 .. Len(u) /\ i < b
        BY <1>1, <1>3, <3>4
    <3> QED BY <1>8, <3>1, <3>2, <3>3, <3>4, <3>5 DEF Climbing
  <2> QED BY <2>1, <2>2, <2>3 DEF Climbing, Before
<1> QED BY <1>2, <1>6, <1>7, <1>8

\* A byte is no mark.
LEMMA NoMark ==
    ASSUME NEW b \in Nat
    PROVE  /\ <<b>> \in Seq(Nat) /\ Climbing(<<b>>)
           /\ b <= CodeMax => Marks(<<b>>) = {}
<1>1. <<b>> \in Seq(Nat) /\ Len(<<b>>) = 1 /\ <<b>>[1] = b
    OBVIOUS
<1>2. Climbing(<<b>>)
    BY <1>1 DEF Climbing
<1>3. PICK s \in Seq(Nat) : s = <<b>>
    BY <1>1
<1>4. ASSUME b <= CodeMax, NEW x \in Marks(s)
      PROVE  FALSE
  <2>1. x > CodeMax /\ \E i \in 1 .. Len(s) : s[i] = x
      BY MarkIs
  <2> QED BY <1>1, <1>3, <1>4, <2>1, StreamAssumption
<1> QED BY <1>1, <1>2, <1>3, <1>4

\* A packet's frame has one mark, the packet's.
LEMMA FrameMark ==
    ASSUME NEW k \in 1 .. Len(Packets)
    PROVE  /\ Framed(Packets[k]) \in Seq(Nat) /\ Climbing(Framed(Packets[k]))
           /\ \A x \in Marks(Framed(Packets[k])) : x = CodeMax + k
<1>1. PICK f \in Seq(Nat) : f = Framed(Packets[k])
    BY FrameIs
<1>2. PICK at \in 1 .. Len(f) :
         f[at] = CodeMax + k /\ \A i \in 1 .. Len(f) : i # at => f[i] <= CodeMax
    BY <1>1, FrameIs DEF Once
<1>3. \A i \in 1 .. Len(f) : f[i] \in Nat
    BY ElementOfSeq
<1>4. CodeMax \in Nat
    BY StreamAssumption
<1>5. \A i \in 1 .. Len(f) : f[i] > CodeMax => i = at
    BY <1>2, <1>3, <1>4
<1>6. Climbing(f)
    BY <1>5 DEF Climbing
<1>7. ASSUME NEW x \in Marks(f)
      PROVE  x = CodeMax + k
  <2>1. PICK i \in 1 .. Len(f) : f[i] = x /\ x > CodeMax
      BY MarkIs
  <2> QED BY <1>2, <1>5, <2>1
<1> QED BY <1>1, <1>6, <1>7

\* A frame that passes is a packet's, and carries its mark.
LEMMA FrameSays ==
    ASSUME NEW frame \in Seq(Nat \ {0}), IsFrame(Decoded(frame)),
           \A x \in Marks(frame) : x <= CodeMax + Len(Packets)
    PROVE  \E k \in 1 .. Len(Packets) :
              /\ CodeMax + k \in Marks(frame)
              /\ Delivery(Payload(Decoded(frame).out)) = <<k>>
<1> DEFINE S == Range(frame) \cup {0}
<1>1. frame \in Seq(Nat) /\ frame \in Seq(S) /\ S \subseteq Nat
  <2>1. /\ DOMAIN frame = 1 .. Len(frame) /\ Len(frame) \in Nat
        /\ \A i \in 1 .. Len(frame) : frame[i] \in Nat
        /\ frame = [i \in 1 .. Len(frame) |-> frame[i]]
      BY LenProperties, ElementOfSeq
  <2>2. Range(frame) \subseteq Nat
      BY <2>1 DEF Range
  <2>3. \A i \in 1 .. Len(frame) : frame[i] \in S
      BY <2>1 DEF Range
  <2>4. frame \in [1 .. Len(frame) -> Nat] /\ frame \in [1 .. Len(frame) -> S]
      BY <2>1, <2>3
  <2>5. frame \in Seq(Nat) /\ frame \in Seq(S)
      BY <2>1, <2>4, SeqDef
  <2> QED BY <2>2, <2>5
<1>2. Decoded(frame).out \in Seq(S)
  <2>1. 0 \in S
      OBVIOUS
  <2> HIDE DEF S
  <2>2. Decoded(frame) \in Decoding(S)
      BY <1>1, <2>1, DecodedTyped
  <2> QED BY <2>2 DEF Decoding
<1>3. PICK out \in Seq(S) : out = Decoded(frame).out
    BY <1>2
<1>4. Len(out) \in Nat /\ Len(out) >= 2 /\ out = Checked(Payload(out))
    BY <1>3, LenProperties DEF IsFrame
<1> DEFINE p == Payload(out)
<1>5. p \in Seq(S) /\ Len(p) = Len(out) - 1
  <2>1. 1 \in Int /\ Len(out) - 1 \in Int
        /\ \A i \in 1 .. Len(out) - 1 : out[i] \in S
      BY <1>4, ElementOfSeq
  <2>2. /\ SubSeq(out, 1, Len(out) - 1) \in Seq(S)
        /\ Len(SubSeq(out, 1, Len(out) - 1)) =
              IF 1 <= Len(out) - 1 THEN (Len(out) - 1) - 1 + 1 ELSE 0
      BY <2>1, SubSeqProperties
  <2> QED BY <1>4, <2>2 DEF Payload
<1> HIDE DEF p
<1>6. out = Append(p, Crc(p))
    BY <1>4 DEF p, Checked
<1>7. Crc(p) \in S
  <2>1. Append(p, Crc(p))[Len(p) + 1] = Crc(p)
    <3>1. p \in Seq(S \cup {Crc(p)})
        BY <1>5, SeqMonotonic
    <3> QED BY <3>1, AppendProperties
  <2>2. Len(out) \in 1 .. Len(out) /\ Len(out) = Len(p) + 1
      BY <1>4, <1>5
  <2> QED BY <1>6, <2>1, <2>2, ElementOfSeq
<1>8. ASSUME Crc(p) > CodeMax
      PROVE  Crc(p) \in Marks(frame)
  <2>1. Crc(p) # 0
      BY <1>8, StreamAssumption
  <2> QED BY <1>7, <1>8, <2>1 DEF Marks
<1>9. PICK k \in 1 .. Len(Packets) : p = Packets[k]
  <2>1. CASE p \in Range(Packets)
      BY <2>1, Bounds DEF Range
  <2>2. CASE p \notin Range(Packets)
    <3>1. Crc(p) = CodeMax + Len(Packets) + 1
        BY <2>2, CrcIs
    <3>2. Crc(p) > CodeMax /\ ~(Crc(p) <= CodeMax + Len(Packets))
        BY <3>1, Bounds
    <3> QED BY <1>8, <3>2
  <2> QED BY <2>1, <2>2
<1>10. CodeMax + k \in Marks(frame)
  <2>1. Crc(p) = CodeMax + k
      BY <1>9, CrcIs
  <2> QED BY <1>8, <2>1, Bounds
<1>11. Delivery(p) = <<k>>
  <2>1. p # <<>>
      BY <1>9, PacketIs, EmptySeq
  <2>2. p \in Range(Packets)
      BY <1>9, Bounds DEF Range
  <2> QED BY <1>9, <2>1, <2>2, CrcIs DEF Delivery
<1> QED BY <1>3, <1>10, <1>11 DEF p

----------------------------------------------------------------------------
(* The bytes behind the receiver                                           *)

Stream == pipe \o tx.data

\* It is a sequence of naturals.
LEMMA StreamTyped ==
    ASSUME TypeInv
    PROVE  Stream \in Seq(Nat) /\ Len(Stream) \in Nat
<1>1. pipe \in Seq(Nat) /\ tx.data \in Seq(Nat)
    BY DEF TypeInv
<1>2. Stream \in Seq(Nat)
    BY <1>1, ConcatProperties DEF Stream
<1> QED BY <1>2, LenProperties

\* Queueing adds a whole frame behind them, or fails.
LEMMA StreamQueue ==
    ASSUME TypeInv, TypeInv', Queue
    PROVE  \/ Stream' = Stream \o Framed(Packets[queued + 1])
           \/ Stream' = Stream /\ tx'.failed
<1> DEFINE F == Framed(Packets[queued + 1])
<1>1. PICK old \in Seq(Nat), new \in Seq(Nat) : old = tx.data /\ new = tx'.data
    BY DEF TypeInv
<1>2. PICK a \in Seq(Nat) :
         /\ tx.data \o F = a \o tx'.data \/ (tx.data = a \o tx'.data /\ tx'.failed)
         /\ pipe' = pipe \o a
    BY QueueDoes
<1>3. F \in Seq(Nat)
  <2>1. queued + 1 \in 1 .. Len(Packets)
      BY QueueDoes
  <2> QED BY <2>1, FrameIs
<1> HIDE DEF F
<1>4. pipe \in Seq(Nat)
    BY DEF TypeInv
<1>5. (pipe \o a) \o new = pipe \o (a \o new)
    BY <1>4, Associates
<1>6. (pipe \o old) \o F = pipe \o (old \o F)
    BY <1>3, <1>4, Associates
<1>7. Stream = pipe \o old /\ Stream' = (pipe \o a) \o new
    BY <1>1, <1>2 DEF Stream
<1>8. \/ old \o F = a \o new
      \/ old = a \o new /\ tx'.failed
    BY <1>1, <1>2
<1> QED BY <1>5, <1>6, <1>7, <1>8 DEF F

\* Flushing moves bytes along and changes none.
LEMMA StreamFlush ==
    ASSUME TypeInv, TypeInv', Flush
    PROVE  Stream' = Stream
<1>1. PICK old \in Seq(Nat), new \in Seq(Nat) : old = tx.data /\ new = tx'.data
    BY DEF TypeInv
<1>2. PICK a \in Seq(Nat) : tx.data = a \o tx'.data /\ pipe' = pipe \o a
    BY FlushDoes
<1>3. pipe \in Seq(Nat)
    BY DEF TypeInv
<1>4. (pipe \o a) \o new = pipe \o (a \o new)
    BY <1>3, Associates
<1> QED BY <1>1, <1>2, <1>4 DEF Stream

\* The receiver takes the first of them.
LEMMA StreamReceive ==
    ASSUME TypeInv, TypeInv', Receive
    PROVE  Stream = <<Head(pipe)>> \o Stream'
<1>1. PICK b \in Nat : b = Head(pipe)
    BY ReceiveDoes
<1>2. PICK rest \in Seq(Nat), d \in Seq(Nat) : rest = pipe' /\ d = tx.data
    BY DEF TypeInv
<1>3. <<b>> \in Seq(Nat)
    OBVIOUS
<1>4. pipe = <<b>> \o rest /\ tx' = tx
    BY <1>1, <1>2, ReceiveDoes
<1>5. Stream = (<<b>> \o rest) \o d /\ Stream' = rest \o d
    BY <1>2, <1>4 DEF Stream
<1>6. (<<b>> \o rest) \o d = <<b>> \o (rest \o d)
    BY <1>3, Associates
<1> QED BY <1>1, <1>5, <1>6

\* Damage hits the first of them.
LEMMA StreamDamage ==
    ASSUME TypeInv, TypeInv', Damage
    PROVE  \E b \in Nat, tail \in Seq(Nat) :
              /\ Stream = <<b>> \o tail
              /\ \/ Stream' = tail
                 \/ \E c \in Byte : Stream' = <<c>> \o Stream
                 \/ \E c \in Byte : Stream' = <<c>> \o tail
<1>1. PICK b \in Nat, rest \in Seq(Nat) : b = Head(pipe) /\ rest = Tail(pipe)
    BY DamageDoes
<1>2. PICK d \in Seq(Nat) : d = tx.data /\ d = tx'.data
  <2>1. tx' = tx
      BY DamageDoes
  <2> QED BY <2>1 DEF TypeInv
<1>3. pipe = <<b>> \o rest /\ pipe \in Seq(Nat)
    BY <1>1, DamageDoes DEF TypeInv
<1>4. \/ pipe' = rest
      \/ \E c \in Byte : pipe' = <<c>> \o pipe
      \/ \E c \in Byte : pipe' = <<c>> \o rest
    BY <1>1, DamageDoes
<1>5. PICK tail \in Seq(Nat) : tail = rest \o d
  <2>1. rest \o d \in Seq(Nat)
      BY ConcatProperties
  <2> QED BY <2>1
<1>6. ASSUME NEW c \in Nat
      PROVE  (<<c>> \o rest) \o d = <<c>> \o tail /\ (<<c>> \o pipe) \o d = <<c>> \o (pipe \o d)
  <2>1. PICK x \in Seq(Nat) : x = <<c>>
    <3>1. <<c>> \in Seq(Nat)
        OBVIOUS
    <3> QED BY <3>1
  <2>2. (x \o rest) \o d = x \o (rest \o d)
      BY Associates
  <2>3. PICK y \in Seq(Nat) : y = pipe
      BY DEF TypeInv
  <2>4. (x \o y) \o d = x \o (y \o d)
      BY Associates
  <2> QED BY <1>5, <2>1, <2>2, <2>3, <2>4
<1>7. Stream = pipe \o d /\ Stream' = pipe' \o d
    BY <1>2 DEF Stream
<1>8. Stream = <<b>> \o tail
    BY <1>3, <1>6, <1>7
<1>9. CASE pipe' = rest
    BY <1>5, <1>7, <1>8, <1>9
<1>10. CASE \E c \in Byte : pipe' = <<c>> \o pipe
  <2>1. PICK c \in Byte : pipe' = <<c>> \o pipe
      BY <1>10
  <2>2. c \in Nat
      BY Bounds
  <2>3. Stream' = <<c>> \o Stream
      BY <1>6, <1>7, <2>1, <2>2
  <2> QED BY <1>8, <2>3
<1>11. CASE \E c \in Byte : pipe' = <<c>> \o rest
  <2>1. PICK c \in Byte : pipe' = <<c>> \o rest
      BY <1>11
  <2>2. c \in Nat
      BY Bounds
  <2>3. Stream' = <<c>> \o tail
      BY <1>6, <1>7, <2>1, <2>2
  <2> QED BY <1>8, <2>3
<1> QED BY <1>4, <1>9, <1>10, <1>11

\* Three sequences in a row.
LEMMA MarksSplit ==
    ASSUME NEW s \in Seq(Nat), NEW t \in Seq(Nat), NEW u \in Seq(Nat)
    PROVE  /\ Marks(s \o (t \o u)) = Marks(s) \cup Marks(t) \cup Marks(u)
           /\ Climbing(s \o (t \o u)) <=>
                 /\ Climbing(s) /\ Climbing(t) /\ Climbing(u)
                 /\ Before(Marks(s), Marks(t)) /\ Before(Marks(s), Marks(u))
                 /\ Before(Marks(t), Marks(u))
<1>1. PICK v \in Seq(Nat) : v = t \o u
  <2>1. t \o u \in Seq(Nat)
      BY ConcatProperties
  <2> QED BY <2>1
<1>2. /\ Marks(v) = Marks(t) \cup Marks(u)
      /\ Climbing(v) <=> Climbing(t) /\ Climbing(u) /\ Before(Marks(t), Marks(u))
    BY <1>1, MarksJoin
<1>3. /\ Marks(s \o v) = Marks(s) \cup Marks(v)
      /\ Climbing(s \o v) <=> Climbing(s) /\ Climbing(v) /\ Before(Marks(s), Marks(v))
    BY MarksJoin
<1>4. Before(Marks(s), Marks(v)) <=>
         Before(Marks(s), Marks(t)) /\ Before(Marks(s), Marks(u))
    BY <1>2 DEF Before
<1> QED BY <1>1, <1>2, <1>3, <1>4

Flow == rx.frame \o Stream

\* In the receiver and behind it the packets come in order, none before it
\* was queued, and all of them after the delivered ones.
OrderInv ==
    /\ Climbing(Flow)
    /\ \A x \in Marks(Flow) :
          /\ x <= CodeMax + queued
          /\ \A k \in DOMAIN delivered : CodeMax + delivered[k] < x
    /\ OnlyWhatWasSent

\* No CRC is under way at the start.
LEMMA OrderStarts ==
    ASSUME Init
    PROVE  OrderInv
<1>1. rx.frame = <<>> /\ pipe = <<>> /\ delivered = <<>>
    BY DEF Init, Empty
<1>2. tx.data = <<>>
  <2>1. <<>> \in Seq(Nat) /\ FALSE \in BOOLEAN
      BY EmptySeq
  <2> QED BY <2>1, BufferIs DEF Init
<1>3. <<>> \o <<>> = <<>> /\ <<>> \in Seq(Nat) /\ Len(<<>>) = 0
    BY EmptySeq, ConcatEmptySeq
<1>4. Flow = <<>>
    BY <1>1, <1>2, <1>3 DEF Flow, Stream
<1>5. Climbing(Flow)
    BY <1>3, <1>4 DEF Climbing
<1>6. ASSUME NEW x \in Marks(Flow)
      PROVE  FALSE
  <2>1. PICK s \in Seq(Nat) : s = Flow
      BY <1>3, <1>4
  <2>2. \E i \in 1 .. Len(s) : s[i] = x
      BY <1>6, <2>1, MarkIs
  <2> QED BY <1>3, <1>4, <2>1, <2>2
<1>7. DOMAIN delivered = {}
    BY <1>1, <1>3, LenProperties
<1> QED BY <1>5, <1>6, <1>7 DEF OrderInv, OnlyWhatWasSent

\* It is enough that the marks stay in order and become no more.
LEMMA OrderShrinks ==
    ASSUME OrderInv, Climbing(Flow'), Marks(Flow') \subseteq Marks(Flow),
           UNCHANGED <<queued, delivered>>
    PROVE  OrderInv'
<1>1. OnlyWhatWasSent'
    BY DEF OrderInv, OnlyWhatWasSent
<1> QED BY <1>1 DEF OrderInv

\* What a byte taken out of the flow, or put into it, leaves of its order.
LEMMA FlowLoses ==
    ASSUME NEW f \in Seq(Nat), NEW b \in Nat, NEW tail \in Seq(Nat),
           Climbing(f \o (<<b>> \o tail))
    PROVE  /\ Climbing(f \o tail)
           /\ Marks(f \o tail) \subseteq Marks(f \o (<<b>> \o tail))
<1>1. PICK t \in Seq(Nat) : t = <<b>>
  <2>1. <<b>> \in Seq(Nat)
      OBVIOUS
  <2> QED BY <2>1
<1>2. Climbing(f \o (t \o tail))
    BY <1>1
<1>3. /\ Climbing(f) /\ Climbing(tail) /\ Before(Marks(f), Marks(tail))
      /\ Marks(f \o (t \o tail)) = Marks(f) \cup Marks(t) \cup Marks(tail)
    BY <1>2, MarksSplit
<1>4. Climbing(f \o tail) /\ Marks(f \o tail) = Marks(f) \cup Marks(tail)
    BY <1>3, MarksJoin
<1> QED BY <1>1, <1>3, <1>4

\* A byte the line adds, or puts in the place of another, is no CRC.
LEMMA FlowGains ==
    ASSUME NEW f \in Seq(Nat), NEW c \in Byte, NEW tail \in Seq(Nat),
           Climbing(f \o tail)
    PROVE  /\ Climbing(f \o (<<c>> \o tail))
           /\ Marks(f \o (<<c>> \o tail)) \subseteq Marks(f \o tail)
<1>1. c \in Nat /\ c <= CodeMax
    BY Bounds
<1>2. <<c>> \in Seq(Nat) /\ Climbing(<<c>>) /\ Marks(<<c>>) = {}
    BY <1>1, NoMark
<1>3. PICK t \in Seq(Nat) : t = <<c>>
    BY <1>2
<1>4. Climbing(t) /\ Marks(t) = {}
    BY <1>2, <1>3
<1>5. /\ Climbing(f) /\ Climbing(tail) /\ Before(Marks(f), Marks(tail))
      /\ Marks(f \o tail) = Marks(f) \cup Marks(tail)
    BY MarksJoin
<1>6. Before(Marks(f), Marks(t)) /\ Before(Marks(t), Marks(tail))
    BY <1>4 DEF Before
<1>7. Climbing(f \o (t \o tail))
    BY <1>4, <1>5, <1>6, MarksSplit
<1>8. Marks(f \o (t \o tail)) = Marks(f) \cup Marks(t) \cup Marks(tail)
    BY MarksSplit
<1> QED BY <1>3, <1>4, <1>5, <1>7, <1>8

\* The receiver's step.
LEMMA OrderReceive ==
    ASSUME TypeInv, TypeInv', OrderInv, Receive
    PROVE  OrderInv'
<1>1. PICK b \in Nat : b = Head(pipe)
    BY ReceiveDoes
<1>2. PICK f \in Seq(Nat), tail \in Seq(Nat) : f = rx.frame /\ tail = Stream'
  <2>1. Stream' \in Seq(Nat)
    <3>1. pipe' \in Seq(Nat) /\ tx'.data \in Seq(Nat)
        BY DEF TypeInv
    <3> QED BY <3>1, ConcatProperties DEF Stream
  <2>2. rx.frame \in Seq(Nat)
    <3>1. rx.frame \in Seq(Nat \ {0}) /\ Nat \ {0} \subseteq Nat
        BY DEF TypeInv
    <3> QED BY <3>1, SeqMonotonic
  <2> QED BY <2>1, <2>2
<1>3. Flow = f \o (<<b>> \o tail) /\ Flow' = rx'.frame \o tail
    BY <1>1, <1>2, StreamReceive DEF Flow
<1>4. UNCHANGED <<queued, tx, put, damaged>>
    BY ReceiveDoes
<1>5. Climbing(f \o (<<b>> \o tail))
    BY <1>3 DEF OrderInv
<1>6. CASE rx'.frame = rx.frame /\ delivered' = delivered
  <2>1. Flow' = f \o tail
      BY <1>2, <1>3, <1>6
  <2>2. Climbing(Flow') /\ Marks(Flow') \subseteq Marks(Flow)
      BY <1>3, <1>5, <2>1, FlowLoses
  <2> QED BY <1>4, <1>6, <2>2, OrderShrinks
<1>7. CASE rx'.frame = Append(rx.frame, b) /\ delivered' = delivered
  <2>1. <<b>> \in Seq(Nat)
      OBVIOUS
  <2>2. Append(f, b) = f \o <<b>>
      BY AppendIsConcat
  <2>3. (f \o <<b>>) \o tail = f \o (<<b>> \o tail)
      BY <2>1, Associates
  <2>4. Flow' = Flow
      BY <1>2, <1>3, <1>7, <2>2, <2>3
  <2>5. Climbing(Flow') /\ Marks(Flow') \subseteq Marks(Flow)
      BY <1>3, <1>5, <2>4
  <2> QED BY <1>4, <1>7, <2>5, OrderShrinks
<1>8. CASE rx'.frame = <<>>
  <2>1. Flow' = tail
      BY <1>3, <1>8, ConcatEmptySeq
  <2>2. PICK t \in Seq(Nat) : t = <<b>>
    <3>1. <<b>> \in Seq(Nat)
        OBVIOUS
    <3> QED BY <3>1
  <2>3. /\ Marks(f \o (t \o tail)) = Marks(f) \cup Marks(t) \cup Marks(tail)
        /\ Climbing(tail) /\ Before(Marks(f), Marks(tail))
    <3>1. Climbing(f \o (t \o tail))
        BY <1>5, <2>2
    <3> QED BY <3>1, MarksSplit
  <2>4. Climbing(Flow') /\ Marks(Flow') \subseteq Marks(Flow) /\ Marks(f) \subseteq Marks(Flow)
      BY <1>3, <2>1, <2>2, <2>3
  <2>5. CASE delivered' = delivered
      BY <1>4, <2>4, <2>5, OrderShrinks
  <2>6. CASE /\ IsFrame(Decoded(rx.frame))
             /\ delivered' = delivered \o Delivery(Payload(Decoded(rx.frame).out))
    <3>1. \A x \in Marks(f) : x <= CodeMax + queued
        BY <2>4 DEF OrderInv
    <3>2. queued \in 0 .. Len(Packets) /\ Len(Packets) \in Nat /\ CodeMax \in Nat
          /\ delivered \in Seq(Nat)
        BY Bounds DEF TypeInv
    <3>3. \A x \in Marks(f) : x <= CodeMax + Len(Packets)
        BY <3>1, <3>2, MarkIs
    <3>4. f \in Seq(Nat \ {0}) /\ IsFrame(Decoded(f))
        BY <1>2, <2>6 DEF TypeInv
    <3>5. PICK k \in 1 .. Len(Packets) :
             CodeMax + k \in Marks(f) /\ Delivery(Payload(Decoded(f).out)) = <<k>>
        BY <3>3, <3>4, FrameSays
    <3>6. delivered' = Append(delivered, k)
      <4>1. k \in Nat
          OBVIOUS
      <4>2. delivered' = delivered \o <<k>>
          BY <1>2, <2>6, <3>5
      <4> QED BY <3>2, <4>1, <4>2, AppendIsConcat
    <3>7. /\ Len(delivered) \in Nat /\ DOMAIN delivered = 1 .. Len(delivered)
          /\ DOMAIN delivered' = 1 .. Len(delivered) + 1
          /\ \A i \in 1 .. Len(delivered) :
                delivered'[i] = delivered[i] /\ delivered[i] \in Nat
          /\ delivered'[Len(delivered) + 1] = k
      <4>1. k \in Nat
          OBVIOUS
      <4>2. PICK more \in Seq(Nat) : more = delivered'
          BY <3>2, <3>6, <4>1, AppendProperties
      <4>3. /\ Len(more) = Len(delivered) + 1 /\ more[Len(delivered) + 1] = k
            /\ \A i \in 1 .. Len(delivered) : more[i] = delivered[i]
          BY <3>2, <3>6, <4>1, <4>2, AppendProperties
      <4>4. Len(delivered) \in Nat /\ DOMAIN delivered = 1 .. Len(delivered)
            /\ DOMAIN more = 1 .. Len(more)
            /\ \A i \in 1 .. Len(delivered) : delivered[i] \in Nat
          BY <3>2, LenProperties, ElementOfSeq
      <4> QED BY <4>2, <4>3, <4>4
    <3>8. CodeMax + k \in Marks(Flow)
        BY <2>4, <3>5
    <3>9. k <= queued
        BY <3>2, <3>8 DEF OrderInv
    <3>10. \A i \in 1 .. Len(delivered) : delivered[i] < k
      <4>1. \A i \in DOMAIN delivered : CodeMax + delivered[i] < CodeMax + k
          BY <3>8 DEF OrderInv
      <4>2. ASSUME NEW i \in 1 .. Len(delivered)
            PROVE  delivered[i] < k
        <5>1. PICK x \in Nat : x = delivered[i]
            BY <3>7
        <5>2. CodeMax + x < CodeMax + k
            BY <3>7, <4>1, <5>1
        <5> QED BY <3>2, <5>1, <5>2
      <4> QED BY <4>2
    <3>11. \A x \in Marks(tail) : CodeMax + k < x
        BY <2>3, <3>5 DEF Before
    <3>12. \A x \in Marks(tail) : x <= CodeMax + queued
                                  /\ \A i \in DOMAIN delivered : CodeMax + delivered[i] < x
        BY <2>1, <2>4 DEF OrderInv
    <3>13. ASSUME NEW x \in Marks(tail), NEW i \in DOMAIN delivered'
           PROVE  CodeMax + delivered'[i] < x
      <4>1. CASE i = Len(delivered) + 1
          BY <3>7, <3>11, <4>1
      <4>2. CASE i # Len(delivered) + 1
        <5>1. i \in 1 .. Len(delivered)
            BY <3>7, <4>2
        <5> QED BY <3>7, <3>12, <5>1
      <4> QED BY <4>1, <4>2
    <3>14. ASSUME NEW i \in DOMAIN delivered'
           PROVE  /\ delivered'[i] \in 1 .. queued
                  /\ i > 1 => delivered'[i - 1] < delivered'[i]
      <4>1. CASE i = Len(delivered) + 1
        <5>1. i > 1 => i - 1 \in 1 .. Len(delivered)
            BY <3>7, <4>1
        <5>2. i > 1 => delivered'[i - 1] < k
            BY <3>7, <3>10, <5>1
        <5> QED BY <3>2, <3>7, <3>9, <4>1, <5>2
      <4>2. CASE i # Len(delivered) + 1
        <5>1. i \in 1 .. Len(delivered) /\ (i > 1 => i - 1 \in 1 .. Len(delivered))
            BY <3>7, <4>2
        <5>2. delivered[i] \in 1 .. queued /\ (i > 1 => delivered[i - 1] < delivered[i])
            BY <3>7, <5>1 DEF OrderInv, OnlyWhatWasSent
        <5> QED BY <3>7, <5>1, <5>2
      <4> QED BY <4>1, <4>2
    <3>15. OnlyWhatWasSent'
        BY <1>4, <3>14 DEF OnlyWhatWasSent
    <3> QED BY <1>4, <2>1, <2>4, <3>12, <3>13, <3>15 DEF OrderInv
  <2>7. delivered' = delivered \/ (/\ IsFrame(Decoded(rx.frame))
             /\ delivered' = delivered \o Delivery(Payload(Decoded(rx.frame).out)))
      BY <1>8, ReceiveDoes
  <2> QED BY <2>5, <2>6, <2>7
<1> QED BY <1>1, <1>6, <1>7, <1>8, ReceiveDoes

\* Every step keeps the CRCs that are under way in order, and behind those delivered.
LEMMA OrderKept ==
    ASSUME TypeInv, TypeInv', OrderInv, [Next]_vars
    PROVE  OrderInv'
<1>1. PICK f \in Seq(Nat), s \in Seq(Nat) : f = rx.frame /\ s = Stream
  <2>1. rx.frame \in Seq(Nat \ {0}) /\ Nat \ {0} \subseteq Nat
      BY DEF TypeInv
  <2> QED BY <2>1, SeqMonotonic, StreamTyped
<1>2. Flow = f \o s /\ Climbing(f \o s)
    BY <1>1 DEF Flow, OrderInv
<1>3. CASE Queue
  <2>1. queued' = queued + 1 /\ queued' \in 1 .. Len(Packets) /\ UNCHANGED <<rx, delivered>>
      BY <1>3, QueueDoes
  <2>2. queued \in Nat /\ CodeMax \in Nat /\ queued + 1 \in 1 .. Len(Packets)
      BY <2>1, Bounds DEF TypeInv
  <2>3. \A k \in DOMAIN delivered : delivered[k] \in 1 .. queued
      BY DEF OrderInv, OnlyWhatWasSent
  <2>4. OnlyWhatWasSent'
      BY <2>1, <2>2 DEF OrderInv, OnlyWhatWasSent
  <2>5. \A x \in Marks(Flow) : x \in Nat /\ x <= CodeMax + queued
    <3>1. PICK w \in Seq(Nat) : w = Flow
        BY <1>2, ConcatProperties
    <3> QED BY <3>1, MarkIs DEF OrderInv
  <2>6. CASE Stream' = Stream
    <3>1. Flow' = Flow
        BY <2>1, <2>6 DEF Flow
    <3> QED BY <2>1, <2>2, <2>4, <2>5, <3>1 DEF OrderInv
  <2>7. CASE Stream' = Stream \o Framed(Packets[queued + 1])
    <3>1. PICK g \in Seq(Nat) : g = Framed(Packets[queued + 1])
        BY <2>2, FrameMark
    <3>2. Climbing(g) /\ \A x \in Marks(g) : x = CodeMax + (queued + 1)
        BY <2>2, <3>1, FrameMark
    <3>3. PICK w \in Seq(Nat) : w = f \o s
        BY ConcatProperties
    <3>4. Flow' = w \o g
      <4>1. (f \o s) \o g = f \o (s \o g)
          BY Associates
      <4> QED BY <1>1, <2>1, <2>7, <3>1, <3>3, <4>1 DEF Flow
    <3>5. Climbing(w) /\ w = Flow
        BY <1>2, <3>3
    <3>6. Before(Marks(w), Marks(g))
        BY <2>2, <2>5, <3>2, <3>5 DEF Before
    <3>7. Climbing(w \o g) /\ Marks(w \o g) = Marks(w) \cup Marks(g)
        BY <3>2, <3>5, <3>6, MarksJoin
    <3>8. ASSUME NEW x \in Marks(Flow')
          PROVE  /\ x <= CodeMax + queued'
                 /\ \A k \in DOMAIN delivered' : CodeMax + delivered'[k] < x
      <4>1. CASE x \in Marks(Flow)
          BY <2>1, <2>2, <2>5, <4>1 DEF OrderInv
      <4>2. CASE x \in Marks(g)
          BY <2>1, <2>2, <2>3, <3>2, <4>2
      <4> QED BY <3>4, <3>5, <3>7, <4>1, <4>2
    <3> QED BY <2>4, <3>4, <3>7, <3>8 DEF OrderInv
  <2> QED BY <1>3, <2>6, <2>7, StreamQueue
<1>4. CASE Flush
  <2>1. Stream' = Stream /\ UNCHANGED <<queued, rx, delivered>>
      BY <1>4, StreamFlush, FlushDoes
  <2>2. Flow' = Flow
      BY <2>1 DEF Flow
  <2> QED BY <1>2, <2>1, <2>2, OrderShrinks
<1>5. CASE Receive
    BY <1>5, OrderReceive
<1>6. CASE Damage
  <2>1. UNCHANGED <<queued, rx, delivered>>
      BY <1>6, DamageDoes
  <2>2. PICK b \in Nat, tail \in Seq(Nat) :
           /\ Stream = <<b>> \o tail
           /\ \/ Stream' = tail
              \/ \E c \in Byte : Stream' = <<c>> \o Stream
              \/ \E c \in Byte : Stream' = <<c>> \o tail
      BY <1>6, StreamDamage
  <2>3. Flow' = f \o Stream' /\ Flow = f \o (<<b>> \o tail)
      BY <1>1, <2>1, <2>2 DEF Flow
  <2>4. Climbing(f \o tail) /\ Marks(f \o tail) \subseteq Marks(Flow)
      BY <1>2, <2>3, FlowLoses
  <2>5. CASE Stream' = tail
    <3>1. Climbing(Flow') /\ Marks(Flow') \subseteq Marks(Flow)
        BY <2>3, <2>4, <2>5
    <3> QED BY <2>1, <3>1, OrderShrinks
  <2>6. CASE \E c \in Byte : Stream' = <<c>> \o Stream
    <3>1. PICK c \in Byte : Stream' = <<c>> \o s
        BY <1>1, <2>6
    <3>2. Climbing(f \o (<<c>> \o s)) /\ Marks(f \o (<<c>> \o s)) \subseteq Marks(f \o s)
        BY <1>2, FlowGains
    <3>3. Climbing(Flow') /\ Marks(Flow') \subseteq Marks(Flow)
        BY <1>2, <2>3, <3>1, <3>2
    <3> QED BY <2>1, <3>3, OrderShrinks
  <2>7. CASE \E c \in Byte : Stream' = <<c>> \o tail
    <3>1. PICK c \in Byte : Stream' = <<c>> \o tail
        BY <2>7
    <3>2. /\ Climbing(f \o (<<c>> \o tail))
          /\ Marks(f \o (<<c>> \o tail)) \subseteq Marks(f \o tail)
        BY <2>4, FlowGains
    <3>3. Climbing(Flow') /\ Marks(Flow') \subseteq Marks(Flow)
        BY <2>3, <2>4, <3>1, <3>2
    <3> QED BY <2>1, <3>3, OrderShrinks
  <2> QED BY <2>2, <2>5, <2>6, <2>7
<1>7. CASE UNCHANGED vars
  <2>1. Flow' = Flow /\ UNCHANGED <<queued, delivered>>
      BY <1>7 DEF vars, Flow, Stream
  <2> QED BY <1>2, <2>1, OrderShrinks
<1> QED BY <1>3, <1>4, <1>5, <1>6, <1>7 DEF Next, Idle

\* tcp_frame_push_byte: whatever the line does to its bytes, the receiver
\* returns packets that were queued, each once and in their order.
THEOREM NothingInvented == Spec => []OnlyWhatWasSent
<1>1. Init => TypeInv /\ OrderInv
    BY TypeStarts, OrderStarts
<1>2. TypeInv /\ OrderInv /\ [Next]_vars => (TypeInv /\ OrderInv)'
    BY TypeKept, OrderKept
<1>3. OrderInv => OnlyWhatWasSent
    BY DEF OrderInv
<1> QED BY <1>1, <1>2, <1>3, PTL DEF Spec

----------------------------------------------------------------------------
(* Damage is local                                                         *)

\* Two ways to cut a sequence at the same place are one.
LEMMA SameCut ==
    ASSUME NEW s \in Seq(Nat), NEW t \in Seq(Nat), NEW u \in Seq(Nat), NEW v \in Seq(Nat),
           s \o t = u \o v, Len(s) = Len(u)
    PROVE  s = u /\ t = v
<1>1. /\ Len(s) \in Nat /\ Len(t) \in Nat /\ Len(v) \in Nat
      /\ s = [i \in 1 .. Len(s) |-> s[i]] /\ u = [i \in 1 .. Len(u) |-> u[i]]
    BY LenProperties
<1>2. /\ \A i \in 1 .. Len(s) + Len(t) :
            (s \o t)[i] = IF i <= Len(s) THEN s[i] ELSE t[i - Len(s)]
      /\ \A i \in 1 .. Len(u) + Len(v) :
            (u \o v)[i] = IF i <= Len(u) THEN u[i] ELSE v[i - Len(u)]
    BY ConcatProperties
<1>3. ASSUME NEW i \in 1 .. Len(s)
      PROVE  s[i] = u[i]
  <2>1. i \in 1 .. Len(s) + Len(t) /\ i \in 1 .. Len(u) + Len(v) /\ i <= Len(s) /\ i <= Len(u)
      BY <1>1
  <2>2. (s \o t)[i] = s[i] /\ (u \o v)[i] = u[i]
      BY <1>2, <2>1
  <2> QED BY <2>2
<1>4. s = u
    BY <1>1, <1>3
<1>5. Len(t) = Len(v)
  <2>1. Len(s \o t) = Len(s) + Len(t) /\ Len(u \o v) = Len(u) + Len(v)
      BY ConcatProperties
  <2> QED BY <1>1, <2>1
<1>6. ASSUME NEW i \in 1 .. Len(t)
      PROVE  t[i] = v[i]
  <2>1. PICK j \in Nat : j = Len(s) + i
      BY <1>1
  <2>2. /\ j \in 1 .. Len(s) + Len(t) /\ ~(j <= Len(s)) /\ j - Len(s) = i
        /\ j \in 1 .. Len(u) + Len(v) /\ ~(j <= Len(u)) /\ j - Len(u) = i
      BY <1>1, <1>5, <2>1
  <2>3. (s \o t)[j] = t[i] /\ (u \o v)[j] = v[i]
      BY <1>2, <2>2
  <2> QED BY <2>3
<1>7. t = [i \in 1 .. Len(t) |-> t[i]] /\ v = [i \in 1 .. Len(v) |-> v[i]]
    BY LenProperties
<1>8. t = v
    BY <1>5, <1>6, <1>7
<1> QED BY <1>4, <1>8

\* What is left of a frame: its only zero is its last byte.
Ends(u) ==
    /\ Len(u) > 0 /\ u[Len(u)] = 0
    /\ \A i \in 1 .. Len(u) : i # Len(u) => u[i] # 0

\* Concatenation under a name, for the steps that only regroup it.
Cat(s, t) == s \o t

\* It is one of bytes again.
LEMMA CatIs ==
    ASSUME NEW s \in Seq(Nat), NEW t \in Seq(Nat)
    PROVE  Cat(s, t) \in Seq(Nat)
    BY ConcatProperties DEF Cat

\* And it may be regrouped.
LEMMA CatAssociates ==
    ASSUME NEW s \in Seq(Nat), NEW t \in Seq(Nat), NEW u \in Seq(Nat)
    PROVE  Cat(Cat(s, t), u) = Cat(s, Cat(t, u))
    BY Associates DEF Cat

NoZero(s) == \A i \in 1 .. Len(s) : s[i] # 0

\* What is left of a frame after some of its bytes.
LEMMA FrameRest ==
    ASSUME NEW w \in Seq(Nat), Ends(w), NEW m \in Nat, m < Len(w)
    PROVE  \E c \in Seq(Nat), u \in Seq(Nat) : w = Cat(c, u) /\ Len(c) = m /\ Ends(u)
<1>1. Len(w) \in Nat /\ m \in 0 .. Len(w)
    BY LenProperties
<1>2. PICK c \in Seq(Nat), u \in Seq(Nat) :
         /\ c = SubSeq(w, 1, m) /\ u = SubSeq(w, m + 1, Len(w))
         /\ Len(c) = m /\ Len(u) = Len(w) - m /\ c \o u = w
  <2>1. /\ SubSeq(w, 1, m) \in Seq(Nat) /\ Len(SubSeq(w, 1, m)) = m
        /\ SubSeq(w, m + 1, Len(w)) \in Seq(Nat)
        /\ Len(SubSeq(w, m + 1, Len(w))) = Len(w) - m
        /\ SubSeq(w, 1, m) \o SubSeq(w, m + 1, Len(w)) = w
      BY <1>1, Parts
  <2> QED BY <2>1, Zenon
<1>3. \A i \in 1 .. Len(u) : u[i] = w[m + i]
  <2>1. 1 .. Len(w) - (m + 1) + 1 = 1 .. Len(u)
      BY <1>1, <1>2
  <2>2. \A i \in m + 1 .. Len(w) : w[i] \in Nat
      BY <1>1, ElementOfSeq
  <2>3. \A i \in 1 .. Len(w) - (m + 1) + 1 :
           SubSeq(w, m + 1, Len(w))[i] = w[(m + 1) + i - 1]
    <3>1. m + 1 \in Int /\ Len(w) \in Int
        BY <1>1
    <3> QED BY <2>2, <3>1, SubSeqProperties
  <2>4. \A i \in 1 .. Len(u) : (m + 1) + i - 1 = m + i
      BY <1>1
  <2> QED BY <1>2, <2>1, <2>3, <2>4
<1>4. Len(u) > 0 /\ Len(u) \in Nat /\ Len(u) = Len(w) - m
    BY <1>1, <1>2
<1>5. u[Len(u)] = 0
  <2>1. m + Len(u) = Len(w) /\ Len(u) \in 1 .. Len(u)
      BY <1>1, <1>4
  <2> QED BY <1>3, <2>1 DEF Ends
<1>6. ASSUME NEW i \in 1 .. Len(u), i # Len(u)
      PROVE  u[i] # 0
  <2>1. m + i \in 1 .. Len(w) /\ m + i # Len(w)
      BY <1>1, <1>4, <1>6
  <2> QED BY <1>3, <2>1 DEF Ends
<1>7. Ends(u)
    BY <1>4, <1>5, <1>6 DEF Ends
<1> QED BY <1>2, <1>7 DEF Cat

\* Where the byte b behind the nonzero bytes s stands in the frame w, when t
\* follows the one and rest the other: b ends the frame when it is zero, and
\* else something is left of it.
Stands(s, b, t, w, rest) ==
    /\ b = 0 => Append(s, 0) = w /\ t = rest
    /\ b # 0 => /\ Len(s) + 1 < Len(w)
                /\ \E u \in Seq(Nat) : Ends(u) /\ t = Cat(u, rest)

\* So it is when the two make up the same bytes.
LEMMA FrameAt ==
    ASSUME NEW s, NEW b, NEW x, NEW t, NEW w, NEW rest,
           s \in Seq(Nat), NoZero(s), b \in Nat, x \in Seq(Nat), x = <<b>>,
           t \in Seq(Nat), w \in Seq(Nat), Ends(w), rest \in Seq(Nat),
           Cat(s, Cat(x, t)) = Cat(w, rest)
    PROVE  Stands(s, b, t, w, rest)
<1> DEFINE m == Len(s) + 1
<1>1. s \o (<<b>> \o t) = w \o rest
    BY DEF Cat
<1>2. /\ Len(s) \in Nat /\ Len(t) \in Nat /\ Len(rest) \in Nat /\ Len(w) \in Nat
      /\ Len(w) > 0 /\ m \in Nat
    BY LenProperties DEF Ends
<1>3. PICK h \in Seq(Nat) : h = Append(s, b)
    BY AppendProperties
<1>4. /\ Len(h) = m /\ h[m] = b /\ \A i \in 1 .. Len(s) : h[i] = s[i]
    BY <1>3, AppendProperties
<1>5. h \o t = w \o rest
  <2>1. <<b>> \in Seq(Nat)
      OBVIOUS
  <2>2. h = s \o <<b>>
      BY <1>3, AppendIsConcat
  <2>3. (s \o <<b>>) \o t = s \o (<<b>> \o t)
      BY <2>1, Associates
  <2> QED BY <1>1, <2>2, <2>3
<1> HIDE DEF m
<1>6. ASSUME NEW i \in Nat, i >= 1, i <= m, i <= Len(w)
      PROVE  h[i] = w[i]
  <2>1. i \in 1 .. Len(h) + Len(t) /\ i <= Len(h)
        /\ i \in 1 .. Len(w) + Len(rest) /\ i <= Len(w)
      BY <1>2, <1>4, <1>6
  <2>2. (h \o t)[i] = h[i]
      BY <2>1, ConcatProperties
  <2>3. (w \o rest)[i] = w[i]
      BY <2>1, ConcatProperties
  <2> QED BY <1>5, <2>2, <2>3
<1>7. Len(w) >= m
  <2>1. SUFFICES ASSUME Len(w) < m
                 PROVE  FALSE
      BY <1>2
  <2>2. Len(w) \in 1 .. Len(s)
      BY <1>2, <2>1 DEF m
  <2>3. h[Len(w)] = w[Len(w)] /\ h[Len(w)] = s[Len(w)]
      BY <1>2, <1>4, <1>6, <2>1, <2>2
  <2> QED BY <2>2, <2>3 DEF Ends, NoZero
<1>8. b = w[m]
    BY <1>2, <1>4, <1>6, <1>7 DEF m
<1>9. m \in 1 .. Len(w)
    BY <1>2, <1>7 DEF m
<1>10. ASSUME b = 0
      PROVE  Append(s, 0) = w /\ t = rest
  <2>1. Len(h) = Len(w)
      BY <1>4, <1>8, <1>9, <1>10 DEF Ends
  <2> QED BY <1>3, <1>5, <1>10, <2>1, SameCut
<1>11. ASSUME b # 0
       PROVE  /\ Len(s) + 1 < Len(w)
              /\ \E u \in Seq(Nat) : Ends(u) /\ t = Cat(u, rest)
  <2>1. m < Len(w) /\ m \in 0 .. Len(w)
      BY <1>2, <1>7, <1>8, <1>11 DEF Ends
  <2>2. PICK c \in Seq(Nat), u \in Seq(Nat) : w = Cat(c, u) /\ Len(c) = m /\ Ends(u)
      BY <1>2, <2>1, FrameRest
  <2>3. t = Cat(u, rest)
    <3>1. Cat(Cat(c, u), rest) = Cat(c, Cat(u, rest))
        BY CatAssociates
    <3>2. PICK v \in Seq(Nat) : v = Cat(u, rest)
        BY CatIs
    <3>3. Cat(h, t) = Cat(c, v)
        BY <1>5, <2>2, <3>1, <3>2 DEF Cat
    <3>4. Len(h) = Len(c)
        BY <1>4, <2>2
    <3>5. h \o t = c \o v
        BY <3>3 DEF Cat
    <3>6. t = v
        BY <3>4, <3>5, SameCut
    <3> QED BY <3>2, <3>6
  <2> QED BY <2>1, <2>2, <2>3 DEF m
<1> QED BY <1>10, <1>11 DEF Stands

\* Behind the first k frames comes the next, or nothing.
LEMMA Onwards ==
    ASSUME NEW n \in 0 .. Len(Packets), NEW k \in 0 .. n, NEW s \in Seq(Nat),
           Written[k] \o s = Written[n]
    PROVE  /\ k = n => s = <<>>
           /\ k < n => \E rest \in Seq(Nat) :
                          /\ s = Framed(Packets[k + 1]) \o rest
                          /\ Written[k + 1] \o rest = Written[n]
<1>1. /\ Len(Packets) \in Nat /\ n \in Nat /\ k \in Nat
      /\ Written[k] \in Seq(Nat) /\ Written[n] \in Seq(Nat)
  <2>1. Len(Packets) \in Nat
      BY Bounds
  <2>2. k \in 0 .. Len(Packets)
      BY <2>1
  <2> QED BY <2>1, <2>2, WrittenIs
<1>2. ASSUME k = n
      PROVE  s = <<>>
    BY <1>1, <1>2, ConcatEqualIffEmpty
<1>3. ASSUME k < n
      PROVE  \E rest \in Seq(Nat) :
                /\ s = Framed(Packets[k + 1]) \o rest
                /\ Written[k + 1] \o rest = Written[n]
  <2> DEFINE M == {i \in 0 .. n - (k + 1) :
                      \E rest \in Seq(Nat) : Written[k + 1] \o rest = Written[(k + 1) + i]}
  <2>1. k + 1 \in 1 .. Len(Packets) /\ n - (k + 1) \in Nat
      BY <1>1, <1>3
  <2>2. 0 \in M
    <3>1. PICK e \in Seq(Nat) : e = <<>>
        BY EmptySeq
    <3>2. Written[k + 1] \in Seq(Nat) /\ (k + 1) + 0 = k + 1
        BY <2>1, WrittenIs
    <3>3. Written[k + 1] \o e = Written[(k + 1) + 0]
        BY <3>1, <3>2, ConcatEmptySeq
    <3>4. 0 \in 0 .. n - (k + 1)
        BY <2>1
    <3> QED BY <3>3, <3>4
  <2>3. ASSUME NEW i \in 1 .. n - (k + 1), i - 1 \in M
        PROVE  i \in M
    <3>1. PICK rest \in Seq(Nat) : Written[k + 1] \o rest = Written[(k + 1) + (i - 1)]
        BY <2>3
    <3>2. PICK j \in 1 .. Len(Packets) : j = (k + 1) + i /\ j - 1 = (k + 1) + (i - 1)
        BY <1>1, <2>1
    <3>3. PICK g \in Seq(Nat) : g = Framed(Packets[j])
        BY FrameIs
    <3>4. PICK w \in Seq(Nat) : w = Written[k + 1]
        BY <2>1, WrittenIs
    <3>5. Written[j] = (w \o rest) \o g
        BY <3>1, <3>2, <3>3, <3>4, WrittenIs
    <3>6. PICK v \in Seq(Nat) : v = rest \o g
        BY ConcatProperties
    <3>7. w \o v = Written[(k + 1) + i]
        BY <3>2, <3>5, <3>6, Associates
    <3>8. i \in 0 .. n - (k + 1)
        BY <2>1
    <3> QED BY <3>4, <3>7, <3>8
  <2>4. n - (k + 1) \in M
    <3> HIDE DEF M
    <3>1. n - (k + 1) \in 0 .. n - (k + 1)
        BY <2>1
    <3> QED BY <2>1, <2>2, <2>3, <3>1, Turns
  <2>5. PICK rest \in Seq(Nat) : Written[k + 1] \o rest = Written[n]
    <3>1. (k + 1) + (n - (k + 1)) = n
        BY <1>1
    <3> QED BY <2>4, <3>1
  <2>6. PICK g \in Seq(Nat) : g = Framed(Packets[k + 1])
      BY <2>1, FrameIs
  <2>7. PICK w \in Seq(Nat) : w = Written[k]
      BY <1>1
  <2>8. Written[k + 1] = w \o g
    <3>1. (k + 1) - 1 = k
        BY <1>1
    <3> QED BY <2>1, <2>6, <2>7, <3>1, WrittenIs
  <2>9. PICK v \in Seq(Nat) : v = g \o rest
      BY ConcatProperties
  <2>10. w \o s = w \o v
    <3>1. (w \o g) \o rest = w \o v
        BY <2>9, Associates
    <3> QED BY <2>5, <2>7, <2>8, <3>1
  <2>11. s = g \o rest
      BY <2>9, <2>10, SameCut
  <2> QED BY <2>5, <2>6, <2>11
<1> QED BY <1>2, <1>3

\* What the receiver owes is at most this: packets delivered, and two for
\* every damaged byte.
Covered == Len(delivered) + 2 * damaged

\* The receiver is at a place behind k frames, or it is off its place and the
\* next delimiter brings it there.
InSync(k) == ~rx.discarding /\ Written[k] \o Flow = Written[queued]

OffSync(s, k, n) ==
    \E g \in Seq(Nat), u \in Seq(Nat), rest \in Seq(Nat) :
        Ends(u) /\ s = g \o (u \o rest) /\ Written[k] \o rest = Written[n]

SyncInv ==
    \/ tx.failed
    \/ Covered > queued
    \/ \E k \in 0 .. queued : Covered >= k /\ (InSync(k) \/ OffSync(Stream, k, queued))

\* The facts about one state that every step needs.
LEMMA SyncTypes ==
    ASSUME TypeInv
    PROVE  /\ queued \in 0 .. Len(Packets) /\ Len(Packets) \in Nat /\ queued \in Nat
           /\ Len(delivered) \in Nat /\ damaged \in Nat /\ Covered \in Nat
           /\ rx.frame \in Seq(Nat \ {0}) /\ rx.frame \in Seq(Nat)
           /\ NoZero(rx.frame)
           /\ Flow \in Seq(Nat)
<1>1. queued \in 0 .. Len(Packets) /\ Len(Packets) \in Nat /\ queued \in Nat
    BY Bounds DEF TypeInv
<1>2. Len(delivered) \in Nat /\ damaged \in Nat
    BY LenProperties, Bounds DEF TypeInv
<1>3. Covered \in Nat
    BY <1>2 DEF Covered
<1>4. rx.frame \in Seq(Nat \ {0}) /\ rx.frame \in Seq(Nat)
  <2>1. rx.frame \in Seq(Nat \ {0}) /\ Nat \ {0} \subseteq Nat
      BY DEF TypeInv
  <2> QED BY <2>1, SeqMonotonic
<1>5. NoZero(rx.frame)
  <2>1. \A i \in 1 .. Len(rx.frame) : rx.frame[i] \in Nat \ {0}
      BY <1>4, ElementOfSeq
  <2> QED BY <2>1 DEF NoZero
<1>6. Flow \in Seq(Nat)
    BY <1>4, StreamTyped, ConcatProperties DEF Flow
<1> QED BY <1>1, <1>2, <1>3, <1>4, <1>5, <1>6

\* A frame ends in its only zero.
LEMMA FrameEnds ==
    ASSUME NEW k \in 1 .. Len(Packets)
    PROVE  Framed(Packets[k]) \in Seq(Nat) /\ Ends(Framed(Packets[k]))
    BY FrameIs DEF Ends

\* Off its place, the receiver comes to the end of the next frame.
LEMMA OffSyncNext ==
    ASSUME NEW n \in 0 .. Len(Packets), NEW k \in 0 .. n, k < n,
           NEW s \in Seq(Nat), Written[k] \o s = Written[n]
    PROVE  OffSync(s, k + 1, n)
<1>1. PICK rest \in Seq(Nat) : /\ s = Framed(Packets[k + 1]) \o rest
                               /\ Written[k + 1] \o rest = Written[n]
    BY Onwards
<1>2. k + 1 \in 1 .. Len(Packets)
    BY Bounds
<1>3. PICK u \in Seq(Nat) : u = Framed(Packets[k + 1]) /\ Ends(u)
    BY <1>2, FrameEnds
<1>4. PICK e \in Seq(Nat) : e = <<>>
    BY EmptySeq
<1>5. e \o s = s
    BY <1>4, ConcatEmptySeq
<1>6. s = e \o (u \o rest)
    BY <1>1, <1>3, <1>5
<1> QED BY <1>1, <1>3, <1>6 DEF OffSync

\* A byte more in front of it.
LEMMA OffSyncBehind ==
    ASSUME NEW n, NEW k, NEW c \in Nat, NEW s, OffSync(s, k, n)
    PROVE  OffSync(<<c>> \o s, k, n)
<1>1. PICK g \in Seq(Nat), u \in Seq(Nat), rest \in Seq(Nat) :
         Ends(u) /\ s = g \o (u \o rest) /\ Written[k] \o rest = Written[n]
    BY DEF OffSync
<1>2. PICK h \in Seq(Nat) : h = <<c>>
  <2>1. <<c>> \in Seq(Nat)
      OBVIOUS
  <2> QED BY <2>1
<1>3. PICK more \in Seq(Nat) : more = Cat(h, g)
    BY CatIs
<1>4. Cat(h, Cat(g, Cat(u, rest))) = Cat(more, Cat(u, rest))
    BY <1>3, CatIs, CatAssociates
<1>5. <<c>> \o s = more \o (u \o rest)
    BY <1>1, <1>2, <1>4 DEF Cat
<1> QED BY <1>1, <1>5 DEF OffSync

\* One byte on: still off its place, or that was the delimiter.
LEMMA OffSyncStep ==
    ASSUME NEW n, NEW k, NEW b \in Nat, NEW tail \in Seq(Nat),
           OffSync(<<b>> \o tail, k, n)
    PROVE  OffSync(tail, k, n) \/ (b = 0 /\ Written[k] \o tail = Written[n])
<1>1. PICK g \in Seq(Nat), u \in Seq(Nat), rest \in Seq(Nat) :
         Ends(u) /\ <<b>> \o tail = g \o (u \o rest) /\ Written[k] \o rest = Written[n]
    BY DEF OffSync
<1>2. PICK e \in Seq(Nat) : e = <<>> /\ Len(e) = 0
    BY EmptySeq
<1>3. CASE g = <<>>
  <2>1. e \o (<<b>> \o tail) = u \o rest
    <3>1. PICK ur \in Seq(Nat) : ur = u \o rest
        BY ConcatProperties
    <3>2. e \o ur = ur
        BY <1>2, ConcatEmptySeq
    <3> QED BY <1>1, <1>2, <1>3, <3>1, <3>2
  <2>2. NoZero(e)
      BY <1>2 DEF NoZero
  <2>3. PICK x \in Seq(Nat) : x = <<b>>
    <3>1. <<b>> \in Seq(Nat)
        OBVIOUS
    <3> QED BY <3>1
  <2>4. Cat(e, Cat(x, tail)) = Cat(u, rest)
      BY <2>1, <2>3 DEF Cat
  <2>5. Stands(e, b, tail, u, rest)
    <3>1. Ends(u)
        BY <1>1
    <3> QED BY <2>2, <2>4, <2>3, <3>1, FrameAt
  <2>6. CASE b = 0
      BY <1>1, <2>5, <2>6 DEF Stands
  <2>7. CASE b # 0
    <3>1. PICK v \in Seq(Nat) : Ends(v) /\ tail = v \o rest
        BY <2>5, <2>7 DEF Stands, Cat
    <3>2. e \o tail = tail
        BY <1>2, ConcatEmptySeq
    <3>3. tail = e \o (v \o rest)
        BY <3>1, <3>2
    <3> QED BY <1>1, <3>1, <3>3 DEF OffSync
  <2> QED BY <2>6, <2>7
<1>4. CASE g # <<>>
  <2>1. PICK h \in Nat, t \in Seq(Nat) : g = <<h>> \o t
    <3>1. Head(g) \in Nat /\ Tail(g) \in Seq(Nat) /\ g = <<Head(g)>> \o Tail(g)
        BY <1>4, HeadTailProperties
    <3> QED BY <3>1
  <2>2. PICK hs \in Seq(Nat), bs \in Seq(Nat) :
           hs = <<h>> /\ bs = <<b>> /\ Len(hs) = 1 /\ Len(bs) = 1
    <3>1. <<h>> \in Seq(Nat) /\ <<b>> \in Seq(Nat) /\ Len(<<h>>) = 1 /\ Len(<<b>>) = 1
        OBVIOUS
    <3> QED BY <3>1
  <2>3. PICK more \in Seq(Nat) : more = Cat(t, Cat(u, rest))
      BY CatIs
  <2>4. Cat(Cat(hs, t), Cat(u, rest)) = Cat(hs, more)
      BY <2>3, CatIs, CatAssociates
  <2>5. bs \o tail = hs \o more
      BY <1>1, <2>1, <2>2, <2>4 DEF Cat
  <2>6. tail = more
      BY <2>2, <2>5, SameCut
  <2>7. tail = t \o (u \o rest)
      BY <2>3, <2>6 DEF Cat
  <2> QED BY <1>1, <2>7 DEF OffSync
<1> QED BY <1>3, <1>4

\* Behind k of n frames come the bytes f, then b, then the tail.
Ahead(k, n, f, b, tail) == Written[k] \o (f \o (<<b>> \o tail)) = Written[n]

\* So b is inside the next frame, or it ends it.
Leads(k, n, f, b, tail) ==
    /\ k < n
    /\ b # 0 => Len(f) < FrameMax /\ OffSync(tail, k + 1, n)
    /\ b = 0 => /\ Append(f, 0) = Framed(Packets[k + 1])
                /\ Written[k + 1] \o tail = Written[n]

\* In its place, one byte on: inside the next frame, or at its end.
LEMMA InSyncStep ==
    ASSUME NEW n, NEW k, NEW f, NEW b, NEW tail,
           n \in 0 .. Len(Packets), k \in 0 .. n, f \in Seq(Nat), NoZero(f),
           b \in Nat, tail \in Seq(Nat), Ahead(k, n, f, b, tail)
    PROVE  Leads(k, n, f, b, tail)
<1>1. PICK s \in Seq(Nat) : s = f \o (<<b>> \o tail) /\ Len(s) > 0
  <2>1. PICK x \in Seq(Nat) : x = <<b>> /\ Len(x) = 1
    <3>1. <<b>> \in Seq(Nat) /\ Len(<<b>>) = 1
        OBVIOUS
    <3> QED BY <3>1
  <2>2. PICK t \in Seq(Nat) : t = x \o tail /\ Len(t) = Len(x) + Len(tail)
      BY ConcatProperties
  <2>3. f \o t \in Seq(Nat) /\ Len(f \o t) = Len(f) + Len(t)
      BY ConcatProperties
  <2>4. Len(f) \in Nat /\ Len(tail) \in Nat
      BY LenProperties
  <2>5. Len(f \o t) > 0
      BY <2>1, <2>2, <2>3, <2>4
  <2> QED BY <2>1, <2>2, <2>3, <2>5
<1>2. k < n
  <2>1. s # <<>>
      BY <1>1, EmptySeq
  <2>2. Written[k] \o s = Written[n]
      BY <1>1 DEF Ahead
  <2>3. k # n
      BY <1>1, <2>1, <2>2, Onwards
  <2> QED BY <2>3, Bounds
<1>3. PICK rest \in Seq(Nat) : /\ s = Framed(Packets[k + 1]) \o rest
                               /\ Written[k + 1] \o rest = Written[n]
  <2>1. Written[k] \o s = Written[n]
      BY <1>1 DEF Ahead
  <2> QED BY <1>1, <1>2, <2>1, Onwards
<1>4. k + 1 \in 1 .. Len(Packets)
    BY <1>2, Bounds
<1>5. PICK w \in Seq(Nat) : w = Framed(Packets[k + 1]) /\ Ends(w) /\ Len(w) <= FrameMax + 1
    BY <1>4, FrameEnds, FrameIs
<1>6. f \o (<<b>> \o tail) = w \o rest
    BY <1>1, <1>3, <1>5
<1>7. Stands(f, b, tail, w, rest)
  <2>1. PICK x \in Seq(Nat) : x = <<b>>
    <3>1. <<b>> \in Seq(Nat)
        OBVIOUS
    <3> QED BY <3>1
  <2>2. Cat(f, Cat(x, tail)) = Cat(w, rest)
      BY <1>6, <2>1 DEF Cat
  <2>3. Ends(w)
      BY <1>5
  <2> QED BY <2>1, <2>2, <2>3, FrameAt
<1>8. ASSUME b # 0
      PROVE  Len(f) < FrameMax /\ OffSync(tail, k + 1, n)
  <2>1. Len(f) < FrameMax
    <3>1. Len(f) \in Nat /\ Len(w) \in Nat
        BY LenProperties
    <3> QED BY <1>5, <1>7, <1>8, <3>1, Bounds DEF Stands
  <2>2. PICK u \in Seq(Nat) : Ends(u) /\ tail = u \o rest
      BY <1>7, <1>8 DEF Stands, Cat
  <2>3. PICK e \in Seq(Nat) : e = <<>>
      BY EmptySeq
  <2>4. e \o tail = tail
      BY <2>3, ConcatEmptySeq
  <2>5. tail = e \o (u \o rest)
      BY <2>2, <2>4
  <2> QED BY <1>3, <2>1, <2>2, <2>5 DEF OffSync
<1>9. ASSUME b = 0
      PROVE  Append(f, 0) = Framed(Packets[k + 1]) /\ Written[k + 1] \o tail = Written[n]
    BY <1>3, <1>5, <1>7, <1>9 DEF Stands
<1> QED BY <1>2, <1>8, <1>9 DEF Leads

\* The frame of a packet that arrived whole is delivered.
LEMMA GoodFrame ==
    ASSUME NEW k \in 1 .. Len(Packets), NEW f \in Seq(Nat),
           Append(f, 0) = Framed(Packets[k])
    PROVE  /\ IsFrame(Decoded(f))
           /\ Delivery(Payload(Decoded(f).out)) = <<k>>
<1> DEFINE p == Packets[k]
           raw == Checked(p)
<1>1. /\ p \in Seq(Nat) /\ Len(p) \in Nat \ {0} /\ CodeMax + k \in Nat
      /\ raw = Append(p, CodeMax + k)
    BY PacketIs, CrcIs, StreamAssumption DEF Checked
<1>2. raw \in Seq(Nat) /\ Len(raw) = Len(p) + 1
    BY <1>1, AppendProperties
<1> HIDE DEF raw
<1>3. CobsEncode(raw) \in Seq(Nat \ {0}) /\ Decoded(CobsEncode(raw)).left = 0
      /\ Decoded(CobsEncode(raw)).out = raw
    BY <1>2, CobsRoundTrip
<1>4. f = CobsEncode(raw)
  <2>1. PICK c \in Seq(Nat) : c = CobsEncode(raw)
    <3>1. Nat \ {0} \subseteq Nat
        OBVIOUS
    <3> QED BY <1>3, <3>1, SeqMonotonic
  <2>2. Append(f, 0) = Append(c, 0)
      BY <2>1 DEF Framed, raw
  <2>3. PICK z \in Seq(Nat) : z = <<0>>
    <3>1. <<0>> \in Seq(Nat)
        OBVIOUS
    <3> QED BY <3>1
  <2>4. Append(f, 0) = f \o z /\ Append(c, 0) = c \o z
    <3>1. 0 \in Nat
        OBVIOUS
    <3>2. Append(f, 0) = f \o <<0>>
        BY <3>1, AppendIsConcat
    <3>3. Append(c, 0) = c \o <<0>>
        BY <3>1, AppendIsConcat
    <3> QED BY <2>3, <3>2, <3>3
  <2>5. Len(f) = Len(c)
    <3>1. /\ Len(Append(f, 0)) = Len(f) + 1 /\ Len(Append(c, 0)) = Len(c) + 1
          /\ Len(f) \in Nat /\ Len(c) \in Nat
        BY AppendProperties, LenProperties
    <3> QED BY <2>2, <3>1
  <2> QED BY <2>1, <2>2, <2>4, <2>5, SameCut
<1>5. Payload(raw) = p
  <2>1. PICK c \in Seq(Nat), d \in Seq(Nat) :
           /\ c = SubSeq(raw, 1, Len(p)) /\ Len(c) = Len(p) /\ c \o d = raw
    <3>1. Len(p) \in 0 .. Len(raw)
        BY <1>1, <1>2
    <3>2. /\ SubSeq(raw, 1, Len(p)) \in Seq(Nat)
          /\ Len(SubSeq(raw, 1, Len(p))) = Len(p)
          /\ SubSeq(raw, Len(p) + 1, Len(raw)) \in Seq(Nat)
          /\ SubSeq(raw, 1, Len(p)) \o SubSeq(raw, Len(p) + 1, Len(raw)) = raw
        BY <1>2, <3>1, Parts
    <3> QED BY <3>2, Zenon
  <2>2. PICK x \in Seq(Nat) : x = <<CodeMax + k>>
    <3>1. <<CodeMax + k>> \in Seq(Nat)
        BY <1>1
    <3> QED BY <3>1
  <2>3. raw = p \o x
      BY <1>1, <2>2, AppendIsConcat
  <2>4. c = p
      BY <1>1, <2>1, <2>3, SameCut
  <2>5. Len(raw) - 1 = Len(p)
      BY <1>1, <1>2
  <2> QED BY <2>1, <2>4, <2>5 DEF Payload
<1>6. IsFrame(Decoded(f))
  <2>1. Len(raw) >= 2
      BY <1>1, <1>2
  <2> QED BY <1>3, <1>4, <1>5, <2>1 DEF IsFrame, raw
<1>7. Delivery(p) = <<k>>
  <2>1. p # <<>>
      BY <1>1, EmptySeq
  <2>2. p \in Range(Packets)
      BY Bounds DEF Range
  <2> QED BY <2>1, <2>2, CrcIs DEF Delivery
<1> QED BY <1>3, <1>4, <1>5, <1>6, <1>7

\* It starts in its place.
LEMMA SyncStarts ==
    ASSUME Init
    PROVE  SyncInv
<1>1. rx.frame = <<>> /\ ~rx.discarding /\ pipe = <<>> /\ queued = 0
      /\ delivered = <<>> /\ damaged = 0
    BY DEF Init, Empty
<1>2. tx.data = <<>>
  <2>1. <<>> \in Seq(Nat) /\ FALSE \in BOOLEAN
      BY EmptySeq
  <2> QED BY <2>1, BufferIs DEF Init
<1>3. <<>> \o <<>> = <<>> /\ Len(<<>>) = 0
    BY EmptySeq, ConcatEmptySeq
<1>4. Flow = <<>>
    BY <1>1, <1>2, <1>3 DEF Flow, Stream
<1>5. InSync(0)
    BY <1>1, <1>3, <1>4, WrittenIs DEF InSync
<1>6. Covered >= 0 /\ 0 \in 0 .. queued
    BY <1>1, <1>3 DEF Covered
<1> QED BY <1>5, <1>6 DEF SyncInv

\* One more frame is written.
LEMMA WrittenGrows ==
    ASSUME NEW n \in 0 .. Len(Packets), n + 1 \in 1 .. Len(Packets), NEW k \in 0 .. n,
           NEW s \in Seq(Nat), Written[k] \o s = Written[n]
    PROVE  LET more == s \o Framed(Packets[n + 1])
           IN  more \in Seq(Nat) /\ Written[k] \o more = Written[n + 1]
<1> DEFINE F == Framed(Packets[n + 1])
<1>1. F \in Seq(Nat)
    BY FrameIs
<1>2. Written[k] \in Seq(Nat)
  <2>1. k \in 0 .. Len(Packets)
      BY Bounds
  <2> QED BY <2>1, WrittenIs
<1>3. Written[n + 1] = Written[n] \o F
  <2>1. (n + 1) - 1 = n
      BY Bounds
  <2> QED BY <2>1, WrittenIs
<1> HIDE DEF F
<1>4. s \o F \in Seq(Nat)
    BY <1>1, ConcatProperties
<1>5. PICK w \in Seq(Nat) : w = Written[k]
    BY <1>2
<1>6. (w \o s) \o F = w \o (s \o F)
    BY <1>1, Associates
<1> QED BY <1>3, <1>4, <1>5, <1>6 DEF F

\* A frame that is queued comes behind what it has to wait for.
LEMMA OffSyncGrows ==
    ASSUME NEW n \in 0 .. Len(Packets), n + 1 \in 1 .. Len(Packets), NEW k \in 0 .. n,
           NEW s, OffSync(s, k, n)
    PROVE  OffSync(s \o Framed(Packets[n + 1]), k, n + 1)
<1> DEFINE F == Framed(Packets[n + 1])
<1>1. PICK g \in Seq(Nat), u \in Seq(Nat), rest \in Seq(Nat) :
         Ends(u) /\ s = g \o (u \o rest) /\ Written[k] \o rest = Written[n]
    BY DEF OffSync
<1>2. rest \o F \in Seq(Nat) /\ Written[k] \o (rest \o F) = Written[n + 1]
    BY <1>1, WrittenGrows
<1>3. F \in Seq(Nat)
    BY FrameIs
<1> HIDE DEF F
<1>4. (g \o (u \o rest)) \o F = g \o (u \o (rest \o F))
  <2>1. PICK v \in Seq(Nat) : v = F
      BY <1>3
  <2>2. Cat(Cat(g, Cat(u, rest)), v) = Cat(g, Cat(u, Cat(rest, v)))
      BY CatIs, CatAssociates
  <2> QED BY <2>1, <2>2 DEF Cat
<1>5. PICK more \in Seq(Nat) : more = rest \o F
    BY <1>2
<1>6. s \o F = g \o (u \o more) /\ Written[k] \o more = Written[n + 1]
    BY <1>1, <1>2, <1>4, <1>5
<1> QED BY <1>1, <1>6 DEF OffSync, F

\* The frame just written is ahead of whatever comes before it.
LEMMA OffSyncNew ==
    ASSUME NEW k \in 1 .. Len(Packets), NEW s \in Seq(Nat)
    PROVE  OffSync(s \o Framed(Packets[k]), k, k)
<1>1. PICK F \in Seq(Nat) : F = Framed(Packets[k]) /\ Ends(F)
    BY FrameEnds
<1>2. PICK w \in Seq(Nat) : w = Written[k]
  <2>1. k \in 0 .. Len(Packets)
      BY Bounds
  <2> QED BY <2>1, WrittenIs
<1>3. PICK e \in Seq(Nat) : e = <<>>
    BY EmptySeq
<1>4. F \o e = F /\ w \o e = w
    BY <1>3, ConcatEmptySeq
<1>5. s \o F = s \o (F \o e)
    BY <1>4
<1> QED BY <1>1, <1>2, <1>4, <1>5 DEF OffSync

\* Queueing puts a frame behind the others, or ends the stream.
LEMMA SyncQueue ==
    ASSUME TypeInv, TypeInv', SyncInv, Queue
    PROVE  SyncInv'
<1> DEFINE F == Framed(Packets[queued + 1])
<1>1. /\ ~tx.failed /\ queued' = queued + 1 /\ queued' \in 1 .. Len(Packets)
      /\ UNCHANGED <<rx, delivered, damaged>>
    BY QueueDoes
<1>2. /\ Covered' = Covered /\ Covered \in Nat /\ queued \in Nat
      /\ queued \in 0 .. Len(Packets) /\ queued + 1 \in 1 .. Len(Packets)
    BY <1>1, SyncTypes DEF Covered
<1>3. CASE Stream' = Stream /\ tx'.failed
    BY <1>3 DEF SyncInv
<1>4. CASE Stream' = Stream \o F
  <2>1. CASE Covered > queued
    <3>1. OffSync(Stream', queued + 1, queued + 1)
        BY <1>2, <1>4, OffSyncNew, StreamTyped
    <3>2. Covered' >= queued' /\ queued' \in 0 .. queued'
        BY <1>1, <1>2, <2>1
    <3> QED BY <1>1, <3>1, <3>2 DEF SyncInv
  <2>2. ASSUME NEW k \in 0 .. queued, Covered >= k, InSync(k)
        PROVE  SyncInv'
    <3>1. Flow' = Flow \o F
      <4>1. F \in Seq(Nat)
          BY <1>2, FrameIs
      <4> HIDE DEF F
      <4>2. rx.frame \in Seq(Nat) /\ Stream \in Seq(Nat)
          BY SyncTypes, StreamTyped
      <4>3. PICK f \in Seq(Nat), s \in Seq(Nat) : f = rx.frame /\ s = Stream
          BY <4>2
      <4>4. (f \o s) \o F = f \o (s \o F)
          BY <4>1, Associates
      <4> QED BY <1>1, <1>4, <4>3, <4>4 DEF Flow
    <3>2. Written[k] \o Flow' = Written[queued + 1]
      <4>1. Flow \in Seq(Nat) /\ Written[k] \o Flow = Written[queued]
          BY <2>2, SyncTypes DEF InSync
      <4> QED BY <1>2, <3>1, <4>1, WrittenGrows
    <3>3. InSync(k)'
        BY <1>1, <2>2, <3>2 DEF InSync
    <3>4. Covered' >= k /\ k \in 0 .. queued'
        BY <1>1, <1>2, <2>2
    <3> QED BY <3>3, <3>4 DEF SyncInv
  <2>3. ASSUME NEW k \in 0 .. queued, Covered >= k, OffSync(Stream, k, queued)
        PROVE  SyncInv'
    <3>1. OffSync(Stream', k, queued')
        BY <1>1, <1>2, <1>4, <2>3, OffSyncGrows
    <3>2. Covered' >= k /\ k \in 0 .. queued'
        BY <1>1, <1>2, <2>3
    <3> QED BY <3>1, <3>2 DEF SyncInv
  <2> QED BY <1>1, <2>1, <2>2, <2>3 DEF SyncInv
<1> QED BY <1>3, <1>4, StreamQueue

\* No packet that was delivered is taken back.
LEMMA DeliveredGrows ==
    ASSUME TypeInv, Receive
    PROVE  Len(delivered') >= Len(delivered) /\ Len(delivered') \in Nat
<1>1. PICK d \in Seq(Nat) : d = Delivery(Push(rx, Head(pipe)).got)
    BY DeliveryTyped
<1>2. delivered' = delivered \o d /\ delivered \in Seq(Nat)
    BY <1>1 DEF Receive, TypeInv
<1>3. Len(delivered') = Len(delivered) + Len(d) /\ Len(delivered) \in Nat /\ Len(d) \in Nat
    BY <1>2, ConcatProperties, LenProperties
<1> QED BY <1>3

\* A byte that is read leaves the receiver in its place, delivers a packet, or
\* brings the receiver back to a place it has paid for.
LEMMA SyncReceive ==
    ASSUME TypeInv, TypeInv', SyncInv, Receive
    PROVE  SyncInv'
<1>1. UNCHANGED <<queued, tx, put, damaged>>
    BY ReceiveDoes
<1>2. /\ Covered' >= Covered /\ Covered' \in Nat /\ Covered \in Nat /\ queued \in Nat
      /\ queued \in 0 .. Len(Packets) /\ Len(Packets) \in Nat
  <2>1. /\ Len(delivered') >= Len(delivered) /\ Len(delivered') \in Nat
        /\ Len(delivered) \in Nat /\ damaged \in Nat
      BY DeliveredGrows, SyncTypes
  <2> QED BY <1>1, <2>1, SyncTypes DEF Covered
<1>3. PICK b \in Nat : b = Head(pipe)
    BY ReceiveDoes
<1>4. PICK tail \in Seq(Nat) : tail = Stream' /\ Stream = <<b>> \o tail
  <2>1. pipe' \in Seq(Nat) /\ tx'.data \in Seq(Nat)
      BY DEF TypeInv
  <2>2. Stream' \in Seq(Nat)
      BY <2>1, ConcatProperties DEF Stream
  <2> QED BY <1>3, <2>2, StreamReceive
<1>5. CASE tx.failed
    BY <1>1, <1>5 DEF SyncInv
<1>6. CASE Covered > queued
    BY <1>1, <1>2, <1>6 DEF SyncInv
<1>7. ASSUME b = 0
      PROVE  Flow' = tail /\ ~rx'.discarding
  <2>1. rx'.frame = <<>> /\ ~rx'.discarding
      BY <1>3, <1>7, ReceiveDoes
  <2> QED BY <1>4, <2>1, ConcatEmptySeq DEF Flow
<1>8. ASSUME NEW k \in 0 .. queued, Covered >= k, InSync(k)
      PROVE  SyncInv'
  <2>1. PICK f \in Seq(Nat) : f = rx.frame /\ NoZero(f)
      BY SyncTypes
  <2>2. Ahead(k, queued, f, b, tail) /\ ~rx.discarding
      BY <1>4, <1>8, <2>1 DEF InSync, Flow, Ahead
  <2>3. /\ k < queued
        /\ b # 0 => Len(f) < FrameMax /\ OffSync(tail, k + 1, queued)
        /\ b = 0 => /\ Append(f, 0) = Framed(Packets[k + 1])
                    /\ Written[k + 1] \o tail = Written[queued]
    <3>1. queued \in 0 .. Len(Packets)
        BY <1>2
    <3>2. Leads(k, queued, f, b, tail)
        BY <2>1, <2>2, <3>1, InSyncStep
    <3> QED BY <3>2 DEF Leads
  <2>4. CASE b # 0
    <3>1. Len(rx.frame) < FrameMax /\ Len(rx.frame) \in Nat /\ FrameMax \in Nat
        BY <2>1, <2>3, <2>4, LenProperties, Bounds
    <3>2. rx'.frame = Append(rx.frame, b) /\ ~rx'.discarding
        BY <1>3, <2>2, <2>4, <3>1, ReceiveDoes
    <3>3. Flow' = Flow
      <4>1. PICK x \in Seq(Nat) : x = <<b>>
        <5>1. <<b>> \in Seq(Nat)
            OBVIOUS
        <5> QED BY <5>1
      <4>2. Append(f, b) = f \o x
          BY <4>1, AppendIsConcat
      <4>3. Cat(Cat(f, x), tail) = Cat(f, Cat(x, tail))
          BY CatAssociates
      <4> QED BY <1>4, <2>1, <3>2, <4>1, <4>2, <4>3 DEF Flow, Cat
    <3>4. InSync(k)'
        BY <1>1, <1>8, <3>2, <3>3 DEF InSync
    <3>5. Covered' >= k /\ k \in 0 .. queued'
        BY <1>1, <1>2, <1>8
    <3> QED BY <3>4, <3>5 DEF SyncInv
  <2>5. CASE b = 0
    <3>1. k + 1 \in 1 .. Len(Packets) /\ k + 1 \in 0 .. queued' /\ k + 1 \in Nat
        BY <1>1, <1>2, <2>3
    <3>2. /\ IsFrame(Decoded(f))
          /\ Delivery(Payload(Decoded(f).out)) = <<k + 1>>
        BY <2>3, <2>5, <3>1, GoodFrame
    <3>3. delivered' = delivered \o <<k + 1>>
        BY <1>3, <2>1, <2>2, <2>5, <3>2, ReceiveDoes
    <3>4. Len(delivered') = Len(delivered) + 1
      <4>1. delivered \in Seq(Nat) /\ <<k + 1>> \in Seq(Nat) /\ Len(<<k + 1>>) = 1
          BY <3>1 DEF TypeInv
      <4> QED BY <3>3, <4>1, ConcatProperties
    <3>5. Covered' >= k + 1
      <4>1. Len(delivered) \in Nat /\ damaged \in Nat
          BY SyncTypes
      <4> QED BY <1>1, <1>8, <3>4, <4>1 DEF Covered
    <3>6. InSync(k + 1)'
        BY <1>1, <1>7, <2>3, <2>5 DEF InSync
    <3> QED BY <3>1, <3>5, <3>6 DEF SyncInv
  <2> QED BY <2>4, <2>5
<1>9. ASSUME NEW k \in 0 .. queued, Covered >= k, OffSync(Stream, k, queued)
      PROVE  SyncInv'
  <2>1. OffSync(tail, k, queued) \/ (b = 0 /\ Written[k] \o tail = Written[queued])
      BY <1>4, <1>9, OffSyncStep
  <2>2. Covered' >= k /\ k \in 0 .. queued'
      BY <1>1, <1>2, <1>9
  <2>3. CASE OffSync(tail, k, queued)
    <3>1. OffSync(Stream', k, queued')
        BY <1>1, <1>4, <2>3
    <3> QED BY <2>2, <3>1 DEF SyncInv
  <2>4. CASE b = 0 /\ Written[k] \o tail = Written[queued]
    <3>1. InSync(k)'
        BY <1>1, <1>7, <2>4 DEF InSync
    <3> QED BY <2>2, <3>1 DEF SyncInv
  <2> QED BY <2>1, <2>3, <2>4
<1> QED BY <1>5, <1>6, <1>8, <1>9 DEF SyncInv

\* A damaged byte pays for two frames, its own and the one behind it.
LEMMA SyncDamage ==
    ASSUME TypeInv, TypeInv', SyncInv, Damage
    PROVE  SyncInv'
<1>1. damaged' = damaged + 1 /\ UNCHANGED <<queued, tx, put, rx, delivered>>
    BY DamageDoes
<1>2. /\ Covered' = Covered + 2 /\ Covered \in Nat /\ queued \in Nat
      /\ queued \in 0 .. Len(Packets) /\ Len(Packets) \in Nat
  <2>1. Len(delivered) \in Nat /\ damaged \in Nat
      BY SyncTypes
  <2> QED BY <1>1, <2>1, SyncTypes DEF Covered
<1>3. PICK b \in Nat, tail \in Seq(Nat) :
         /\ Stream = <<b>> \o tail
         /\ \/ Stream' = tail
            \/ \E c \in Byte : Stream' = <<c>> \o Stream
            \/ \E c \in Byte : Stream' = <<c>> \o tail
    BY StreamDamage
<1>4. CASE tx.failed
    BY <1>1, <1>4 DEF SyncInv
<1>5. CASE Covered' > queued
    BY <1>1, <1>5 DEF SyncInv
<1>6. ASSUME NEW k \in 0 .. queued, Covered' >= k, OffSync(tail, k, queued)
      PROVE  SyncInv'
  <2>1. OffSync(Stream', k, queued)
    <3>1. CASE Stream' = tail
        BY <1>6, <3>1
    <3>2. CASE \E c \in Byte : Stream' = <<c>> \o Stream
      <4>1. PICK c \in Nat : Stream' = <<c>> \o Stream
          BY <3>2, Bounds
      <4>2. OffSync(Stream, k, queued)
          BY <1>3, <1>6, OffSyncBehind
      <4> QED BY <4>1, <4>2, OffSyncBehind
    <3>3. CASE \E c \in Byte : Stream' = <<c>> \o tail
      <4>1. PICK c \in Nat : Stream' = <<c>> \o tail
          BY <3>3, Bounds
      <4> QED BY <1>6, <4>1, OffSyncBehind
    <3> QED BY <1>3, <3>1, <3>2, <3>3
  <2>2. OffSync(Stream', k, queued') /\ k \in 0 .. queued'
      BY <1>1, <2>1
  <2> QED BY <1>6, <2>2 DEF SyncInv
<1>7. ASSUME NEW k \in 0 .. queued, Covered' >= k + 1, Written[k] \o tail = Written[queued]
      PROVE  SyncInv'
  <2>1. CASE k = queued
      BY <1>1, <1>2, <1>7, <2>1 DEF SyncInv
  <2>2. CASE k < queued
    <3>1. OffSync(tail, k + 1, queued)
        BY <1>2, <1>7, <2>2, OffSyncNext
    <3>2. k + 1 \in 0 .. queued
        BY <1>2, <2>2
    <3> QED BY <1>6, <1>7, <3>1, <3>2
  <2> QED BY <1>2, <2>1, <2>2
<1>8. ASSUME NEW k \in 0 .. queued, Covered >= k, InSync(k)
      PROVE  SyncInv'
  <2>1. PICK f \in Seq(Nat) : f = rx.frame /\ NoZero(f)
      BY SyncTypes
  <2>2. Ahead(k, queued, f, b, tail)
      BY <1>3, <1>8, <2>1 DEF InSync, Flow, Ahead
  <2>3. /\ k < queued
        /\ b # 0 => OffSync(tail, k + 1, queued)
        /\ b = 0 => Written[k + 1] \o tail = Written[queued]
    <3>1. queued \in 0 .. Len(Packets)
        BY <1>2
    <3>2. Leads(k, queued, f, b, tail)
        BY <2>1, <2>2, <3>1, InSyncStep
    <3> QED BY <3>2 DEF Leads
  <2>4. k + 1 \in 0 .. queued /\ Covered' >= k + 1 /\ Covered' >= (k + 1) + 1
      BY <1>2, <1>8, <2>3
  <2>5. CASE b # 0
      BY <1>6, <2>3, <2>4, <2>5
  <2>6. CASE b = 0
      BY <1>7, <2>3, <2>4, <2>6
  <2> QED BY <2>5, <2>6
<1>9. ASSUME NEW k \in 0 .. queued, Covered >= k, OffSync(Stream, k, queued)
      PROVE  SyncInv'
  <2>1. OffSync(tail, k, queued) \/ Written[k] \o tail = Written[queued]
      BY <1>3, <1>9, OffSyncStep
  <2>2. Covered' >= k /\ Covered' >= k + 1
      BY <1>2, <1>9
  <2> QED BY <1>6, <1>7, <2>1, <2>2
<1>10. CASE Covered > queued
  <2>1. Covered' > queued
      BY <1>2, <1>10
  <2> QED BY <1>5, <2>1
<1> QED BY <1>4, <1>8, <1>9, <1>10 DEF SyncInv

\* Every step keeps the receiver within reach of a place it has paid for.
LEMMA SyncKept ==
    ASSUME TypeInv, TypeInv', SyncInv, [Next]_vars
    PROVE  SyncInv'
<1>1. CASE Flush
  <2>1. Stream' = Stream /\ ~tx.failed /\ UNCHANGED <<queued, rx, delivered, damaged>>
      BY <1>1, StreamFlush, FlushDoes
  <2>2. Flow' = Flow /\ Covered' = Covered
      BY <2>1 DEF Flow, Covered
  <2>3. ASSUME NEW k \in 0 .. queued, Covered >= k, InSync(k) \/ OffSync(Stream, k, queued)
        PROVE  SyncInv'
    <3>1. InSync(k)' \/ OffSync(Stream', k, queued')
        BY <2>1, <2>2, <2>3 DEF InSync
    <3> QED BY <2>1, <2>2, <2>3, <3>1 DEF SyncInv
  <2>4. CASE Covered > queued
      BY <2>1, <2>2, <2>4 DEF SyncInv
  <2> QED BY <2>1, <2>3, <2>4 DEF SyncInv
<1>2. CASE UNCHANGED vars
    BY <1>2 DEF vars, SyncInv, InSync, Flow, Stream, Covered
<1> QED BY <1>1, <1>2, SyncQueue, SyncReceive, SyncDamage DEF Next, Idle

\* tcp_frame_push_byte: each damaged byte costs at most two packets, since the
\* next delimiter starts the receiver afresh.
THEOREM DamageStaysLocal == Spec => []DamageIsLocal
<1>1. Init => TypeInv /\ SyncInv
    BY TypeStarts, SyncStarts
<1>2. TypeInv /\ SyncInv /\ [Next]_vars => (TypeInv /\ SyncInv)'
    BY TypeKept, SyncKept
<1>3. ASSUME TypeInv, SyncInv, ~tx.failed, tx.data = <<>>, pipe = <<>>
      PROVE  queued - Len(delivered) <= 2 * damaged
  <2>1. /\ queued \in 0 .. Len(Packets) /\ queued \in Nat
        /\ Len(delivered) \in Nat /\ damaged \in Nat
      BY <1>3, SyncTypes
  <2>2. PICK f \in Seq(Nat) : f = rx.frame /\ NoZero(f)
      BY <1>3, SyncTypes
  <2>3. PICK e \in Seq(Nat) : e = <<>> /\ Len(e) = 0
      BY EmptySeq
  <2>4. Stream = e /\ Flow = f
    <3>1. e \o e = e /\ f \o e = f
        BY <2>3, ConcatEmptySeq
    <3>2. Stream = e
        BY <1>3, <2>3, <3>1 DEF Stream
    <3> QED BY <2>2, <3>1, <3>2 DEF Flow
  <2>5. ASSUME NEW k \in 0 .. queued, InSync(k)
        PROVE  k = queued
    <3>1. Written[k] \o f = Written[queued]
        BY <2>4, <2>5 DEF InSync
    <3>2. SUFFICES ASSUME k < queued
                   PROVE  FALSE
        BY <2>1
    <3>3. PICK rest \in Seq(Nat) : f = Framed(Packets[k + 1]) \o rest
        BY <2>1, <3>1, <3>2, Onwards
    <3>4. PICK w \in Seq(Nat) : w = Framed(Packets[k + 1]) /\ Ends(w)
      <4>1. k + 1 \in 1 .. Len(Packets)
          BY <2>1, <3>2, Bounds
      <4> QED BY <4>1, FrameEnds
    <3>5. Len(w) \in Nat /\ Len(w) > 0 /\ w[Len(w)] = 0 /\ Len(rest) \in Nat
        BY <3>4, LenProperties DEF Ends
    <3>6. Len(f) = Len(w) + Len(rest)
        BY <3>3, <3>4, ConcatProperties
    <3>7. f[Len(w)] = 0
      <4>1. Len(w) \in 1 .. Len(w) + Len(rest) /\ Len(w) <= Len(w)
          BY <3>5
      <4> QED BY <3>3, <3>4, <3>5, <4>1, ConcatProperties
    <3> QED BY <2>2, <3>5, <3>6, <3>7 DEF NoZero
  <2>6. ASSUME NEW k, OffSync(Stream, k, queued)
        PROVE  FALSE
    <3>1. PICK g \in Seq(Nat), u \in Seq(Nat), rest \in Seq(Nat) :
             Ends(u) /\ e = g \o (u \o rest)
        BY <2>4, <2>6 DEF OffSync
    <3>2. PICK v \in Seq(Nat) : v = u \o rest /\ Len(v) = Len(u) + Len(rest)
        BY ConcatProperties
    <3>3. Len(e) = Len(g) + Len(v)
        BY <3>1, <3>2, ConcatProperties
    <3> QED BY <2>3, <3>1, <3>2, <3>3, LenProperties DEF Ends
  <2>7. Covered >= queued
    <3>1. Covered \in Nat
        BY <1>3, SyncTypes
    <3> QED BY <1>3, <2>1, <2>5, <2>6, <3>1 DEF SyncInv
  <2> QED BY <2>1, <2>7 DEF Covered
<1>4. TypeInv /\ SyncInv => DamageIsLocal
    BY <1>3 DEF DamageIsLocal
<1> QED BY <1>1, <1>2, <1>4, PTL DEF Spec

=============================================================================
