-------------------------- MODULE VbiHandoffProofs --------------------------
(***************************************************************************)
(* What the interrupt commits and what it leaves in the ring, for every    *)
(* ring size, every even width of the staging sequence and any number of   *)
(* inputs and snapshots.                                                   *)
(***************************************************************************)
EXTENDS VbiHandoff, TLAPS

USE HandoffAssumption

----------------------------------------------------------------------------
(* The inductive invariant                                                 *)

\* The main line is inside NET_SNAP_APPLY.
Staging == pc \in {"stage_ack", "stage_pos", "publish"}

\* The staging sequence is odd exactly while the area is written, and what is
\* published, or about to be, is of one snapshot.
StageInv ==
    /\ stage_seq % 2 = 1 <=> Staging
    /\ ~Staging \/ pc = "publish" => st_pos = st_ack.snap
    /\ pc = "stage_pos" => st_ack.snap = snap
    /\ NotTorn

\* The main line is inside NET_LOCAL_INPUT_PUSH.
Pushing == pc \in {"add", "store", "test", "grow", "bump", "load", "save"}

\* The newest input the ring should hold.
Newest == IF Pushing THEN n - 1 ELSE n

\* What no interrupt can upset: types, and the order of the numbers.
NumberInv ==
    /\ TypeOK
    /\ pc \in {"store", "save"} => reg < RingSize
    /\ pc = "grow" => count < RingSize
    /\ st_ack.ack <= ack
    /\ ack <= Newest
    /\ oldest <= Newest + 1
    /\ Newest < oldest + RingSize

\* The entries at a head from one place on are the inputs that belong there.
Holds(h, from, to) ==
    \A k \in from .. to : slots[(h + k) % RingSize] = oldest + k

\* The ring in the middle of a push that no interrupt has hit where it hurts.
RingInv ==
    ~cut =>
        /\ count = Newest + 1 - oldest
        /\ pc = "add" => reg = count
        /\ pc = "store" => reg = (head + count) % RingSize
        /\ pc \notin {"test", "bump", "load", "save"} =>
              Holds(head, 0, count - 1)
        /\ pc = "grow" => Holds(head, 0, count)
        /\ pc = "test" /\ count < RingSize => Holds(head, 0, count)
        /\ pc = "test" /\ count = RingSize => Holds(head, 1, count)
        /\ pc = "bump" => count = RingSize /\ Holds(head, 1, count)
        /\ pc \in {"load", "save"} =>
              /\ count = RingSize
              /\ \A k \in 1 .. RingSize :
                    slots[(head + k - 1) % RingSize] = oldest + k
        /\ pc = "save" => reg = head % RingSize

HandoffInv == NumberInv /\ StageInv /\ RingInv

----------------------------------------------------------------------------
(* Indices and parity                                                      *)

LEMMA Wrapped ==
    ASSUME NEW x \in 0 .. 2 * RingSize - 1
    PROVE  x % RingSize = IF x < RingSize THEN x ELSE x - RingSize
    OBVIOUS

LEMMA NextParity ==
    ASSUME NEW s \in 0 .. StageMod - 1
    PROVE  /\ (s + 1) % StageMod \in 0 .. StageMod - 1
           /\ ((s + 1) % StageMod) % 2 = 1 <=> s % 2 # 1
<1>1. CASE s + 1 < StageMod
  <2>1. (s + 1) % StageMod = s + 1
    BY <1>1
  <2> QED BY <2>1
<1>2. CASE s + 1 = StageMod
  <2>1. (s + 1) % StageMod = 0
    BY <1>2
  <2> QED BY <1>2, <2>1
<1> QED BY <1>1, <1>2

----------------------------------------------------------------------------
(* Every step preserves the three parts                                    *)

LEMMA InitInv == Init => HandoffInv
<1> SUFFICES ASSUME Init PROVE HandoffInv
    OBVIOUS
<1>1. NumberInv
  <2>1. [snap |-> 0, ack |-> 0] \in Acknowledgement
      BY DEF Acknowledgement, Snap, Number
  <2>2. /\ slots \in [Index -> Number]
        /\ n \in Number /\ ack \in Number
        /\ snap \in Snap /\ st_pos \in Snap /\ live_pos \in Snap
      BY DEF Init, Number, Snap
  <2>3. /\ pc = "idle" /\ reg = 0 /\ head = 0 /\ count = 0 /\ oldest = 1
        /\ stage_seq = 0 /\ apply_seq = 0 /\ cut = FALSE
        /\ st_ack = [snap |-> 0, ack |-> 0]
        /\ live_ack = [snap |-> 0, ack |-> 0]
      BY DEF Init
  <2>4. /\ 0 \in 0 .. RingSize /\ 0 \in 0 .. StageMod - 1
        /\ 0 < RingSize /\ 1 \in 1 .. MaxInputs + 1
      OBVIOUS
  <2>5. TypeOK
      BY <2>1, <2>2, <2>3, <2>4, Zenon DEF TypeOK
  <2>6. Newest = 0
      BY DEF Init, Newest, Pushing
  <2> QED BY <2>5, <2>6 DEF Init, NumberInv
<1>2. StageInv
    BY DEF Init, StageInv, Staging, NotTorn
<1>3. RingInv
    BY DEF Init, RingInv, Holds, Newest, Pushing
<1> QED BY <1>1, <1>2, <1>3 DEF HandoffInv

\* The main line's steps and the interrupt keep numbers and types in order.
LEMMA NumbersStep == NumberInv /\ StageInv /\ Next => NumberInv'
<1> SUFFICES ASSUME NumberInv, Next PROVE NumberInv'
    OBVIOUS
<1> USE DEF NumberInv, TypeOK, Number, Snap, Index, Newest, Pushing,
            stageVars, liveVars, ringVars, historyVars
<1>1. CASE BeginPush
    BY <1>1 DEF BeginPush
<1>2. CASE AddHead
  <2>1. TailSlot \in Index
      BY <1>2 DEF TailSlot
  <2> QED BY <1>2, <2>1 DEF AddHead
<1>3. CASE Store
    BY <1>3 DEF Store
<1>4. CASE TestFull
    BY <1>4 DEF TestFull, IsFull
<1>5. CASE Grow
    BY <1>5 DEF Grow, Completed
<1>6. CASE BumpHead
    BY <1>6 DEF BumpHead
<1>7. CASE LoadHead
  <2>1. head % RingSize \in Index
      BY <1>7
  <2> QED BY <1>7, <2>1 DEF LoadHead
<1>8. CASE SaveHead
    BY <1>8 DEF SaveHead, Completed
<1>9. CASE OpenStage
  <2>1. stage_seq' \in 0 .. StageMod - 1
      BY <1>9, NextParity DEF OpenStage
  <2>2. ack' \in ack .. n
      BY <1>9 DEF OpenStage
  <2>3. snap' \in Snap
      BY <1>9 DEF OpenStage
  <2>4. ack' \in Number /\ ack <= ack' /\ ack' <= Newest'
      BY <1>9, <2>2 DEF OpenStage
  <2>5. st_ack.ack \in Number
      BY DEF Acknowledgement
  <2> QED BY <1>9, <2>1, <2>3, <2>4, <2>5 DEF OpenStage
<1>10. CASE StageAck
    BY <1>10 DEF StageAck, Acknowledgement
<1>11. CASE StagePositions
    BY <1>11 DEF StagePositions
<1>12. CASE Publish
  <2>1. stage_seq' \in 0 .. StageMod - 1
      BY <1>12, NextParity DEF Publish
  <2> QED BY <1>12, <2>1 DEF Publish
<1>13. CASE Commit
  <2>1. PICK junk \in BOOLEAN, d \in 0 .. count :
           /\ IsDiscard(d, junk)
           /\ head' = IF d = 0 THEN head ELSE (head + d) % RingSize
           /\ count' = count - d
      BY <1>13 DEF Commit
  <2>2. (head + d) % RingSize \in Index
      BY <2>1
  <2>3. st_ack \in Acknowledgement /\ st_ack.ack \in Number
      BY DEF Acknowledgement
  <2>4. /\ oldest' \in 1 .. MaxInputs + 1
        /\ oldest' <= Newest' + 1
        /\ Newest' < oldest' + RingSize
        /\ Newest' = Newest
    <3>1. oldest' = IF st_ack.ack >= oldest THEN st_ack.ack + 1 ELSE oldest
        BY <1>13 DEF Commit
    <3>2. pc' = pc /\ n' = n
        BY <1>13 DEF Commit
    <3>3. oldest \in Nat /\ ack \in Nat /\ n \in Nat /\ st_ack.ack \in Nat
        BY <2>3
    <3>4. Newest' = Newest
        BY <3>2
    <3>5. CASE st_ack.ack >= oldest
      <4>1. oldest' = st_ack.ack + 1
          BY <3>1, <3>5
      <4>2. st_ack.ack <= Newest
          BY <3>3
      <4> QED BY <3>3, <3>4, <3>5, <4>1, <4>2
    <3>6. CASE ~(st_ack.ack >= oldest)
      <4>1. oldest' = oldest
          BY <3>1, <3>6
      <4> QED BY <3>4, <4>1
    <3> QED BY <3>5, <3>6
  <2>5. cut' \in BOOLEAN
      BY <1>13 DEF Commit, Exposed
  <2>6. head' \in 0 .. RingSize /\ count' \in 0 .. RingSize
      BY <2>1, <2>2
  <2>7. pc # "load" /\ pc # "save" => head' < RingSize
      BY <2>1, <2>2
  <2>8. count' <= count
      BY <2>1
  <2> QED BY <1>13, <2>3, <2>4, <2>5, <2>6, <2>7, <2>8 DEF Commit
<1>14. CASE NothingToCommit
    BY <1>14 DEF NothingToCommit, vars
<1> QED BY <1>1, <1>2, <1>3, <1>4, <1>5, <1>6, <1>7, <1>8, <1>9, <1>10,
           <1>11, <1>12, <1>13, <1>14 DEF Next

LEMMA StageStep == NumberInv /\ StageInv /\ Next => StageInv'
<1> SUFFICES ASSUME NumberInv, StageInv, Next PROVE StageInv'
    OBVIOUS
<1> USE DEF StageInv, Staging, NotTorn
<1>1. stage_seq \in 0 .. StageMod - 1
    BY DEF NumberInv, TypeOK
<1>2. CASE /\ UNCHANGED <<stageVars, liveVars>>
           /\ ~Staging /\ ~Staging'
    BY <1>2 DEF stageVars, liveVars
<1>3. CASE OpenStage
    BY <1>1, <1>3, NextParity DEF OpenStage, liveVars
<1>4. CASE StageAck
    BY <1>4 DEF StageAck, liveVars
<1>5. CASE StagePositions
  <2>1. st_ack.snap = snap
      BY <1>5 DEF StagePositions
  <2> QED BY <1>5, <2>1 DEF StagePositions, liveVars
<1>6. CASE Publish
    BY <1>1, <1>6, NextParity DEF Publish, liveVars
<1>7. CASE Commit
    BY <1>7 DEF Commit, IsPublished, stageVars
<1>8. CASE NothingToCommit
    BY <1>8 DEF NothingToCommit, vars, stageVars, liveVars
<1> QED BY <1>2, <1>3, <1>4, <1>5, <1>6, <1>7, <1>8
    DEF Next, BeginPush, AddHead, Store, TestFull, Grow, Completed, BumpHead,
        LoadHead, SaveHead

\* So many entries from a head on are the inputs from a number on.
Run(h, c, from) == \A k \in 0 .. c - 1 : slots[(h + k) % RingSize] = from + k

\* Walking the ring finds the inputs exactly when each entry is in its place.
LEMMA WalkFinds ==
    ASSUME NEW h \in Nat, NEW c \in Nat, NEW from \in Nat, NEW to \in Nat,
           from <= to + 1, Walk(slots, h, c) = Inputs(from, to)
    PROVE  c = to + 1 - from /\ Run(h, c, from)
<1>1. 1 .. c = 1 .. to - from + 1
    BY DEF Walk, Inputs
<1>2. c = to + 1 - from
    BY <1>1
<1>3. ASSUME NEW k \in 0 .. c - 1
      PROVE  slots[(h + k) % RingSize] = from + k
  <2>1. k + 1 \in 1 .. c
      OBVIOUS
  <2>2. Walk(slots, h, c)[k + 1] = slots[(h + (k + 1) - 1) % RingSize]
      BY <2>1 DEF Walk
  <2>3. Inputs(from, to)[k + 1] = from + (k + 1) - 1
      BY <1>1, <2>1 DEF Inputs
  <2>4. h + (k + 1) - 1 = h + k /\ from + (k + 1) - 1 = from + k
      OBVIOUS
  <2> QED BY <2>2, <2>3, <2>4
<1> QED BY <1>2, <1>3 DEF Run

LEMMA WalkGives ==
    ASSUME NEW h \in Nat, NEW c \in Nat, NEW from \in Nat, NEW to \in Nat,
           c = to + 1 - from, Run(h, c, from)
    PROVE  Walk(slots, h, c) = Inputs(from, to)
<1>1. ASSUME NEW k \in 1 .. c
      PROVE  slots[(h + k - 1) % RingSize] = from + k - 1
  <2>1. /\ k - 1 \in 0 .. c - 1
        /\ h + (k - 1) = h + k - 1 /\ from + (k - 1) = from + k - 1
      OBVIOUS
  <2> QED BY <2>1 DEF Run
<1>2. 1 .. c = 1 .. to - from + 1
    OBVIOUS
<1> QED BY <1>1, <1>2 DEF Walk, Inputs

\* A push that completes, cut short before or not.
LEMMA CompletedRing ==
    ASSUME NumberInv, NEW h \in 0 .. RingSize, NEW c \in 0 .. RingSize,
           Completed(h, c), UNCHANGED <<n, slots>>, Pushing,
           ~cut => /\ c = n + 1 - oldest'
                   /\ \A k \in 0 .. c - 1 :
                         slots[(h + k) % RingSize] = oldest' + k
    PROVE  RingInv'
<1>1. /\ n \in Nat /\ oldest \in Nat /\ oldest <= n /\ n - oldest <= RingSize
      /\ Newest' = n
    BY DEF NumberInv, TypeOK, Number, Newest, Pushing, Completed
<1>2. oldest' \in Nat /\ oldest' <= n + 1
    BY <1>1 DEF Completed
<1>3. ~cut' => /\ c = n + 1 - oldest'
               /\ \A k \in 0 .. c - 1 :
                     slots[(h + k) % RingSize] = oldest' + k
  <2>1. cut' = (cut /\ Walk(slots, h, c) # Inputs(oldest', n))
      BY DEF Completed
  <2>2. CASE ~cut
      BY <2>2
  <2>3. CASE Walk(slots, h, c) = Inputs(oldest', n)
    <3>1. PICK from \in Nat : from = oldest' /\ from <= n + 1
        BY <1>2
    <3>2. Walk(slots, h, c) = Inputs(from, n)
        BY <2>3, <3>1
    <3>3. n \in Nat /\ h \in Nat /\ c \in Nat /\ from <= n + 1
        BY <1>1, <3>1
    <3>4. c = n + 1 - from /\ Run(h, c, from)
        BY <3>2, <3>3, WalkFinds, Zenon
    <3> QED BY <3>1, <3>4 DEF Run
  <2> QED BY <2>1, <2>2, <2>3
<1>4. pc' = "idle" /\ head' = h /\ count' = c /\ slots' = slots
    BY DEF Completed
<1>5. ~cut' => Holds(head, 0, count - 1)'
  <2> SUFFICES ASSUME ~cut', NEW k \in 0 .. c - 1
               PROVE  slots[(h + k) % RingSize] = oldest' + k
      BY <1>4 DEF Holds
  <2> QED BY <1>3
<1> QED BY <1>1, <1>3, <1>4, <1>5 DEF RingInv

LEMMA PushRing ==
    ASSUME NumberInv, RingInv,
           BeginPush \/ AddHead \/ Store \/ TestFull \/ BumpHead \/ LoadHead
    PROVE  RingInv'
<1> USE DEF RingInv, Newest, Pushing, Holds, ringVars, historyVars
<1>1. /\ n \in Nat /\ oldest \in Nat /\ count \in 0 .. RingSize
      /\ head \in 0 .. RingSize
      /\ pc # "load" /\ pc # "save" => head < RingSize
      /\ slots \in [Index -> Number]
    BY DEF NumberInv, TypeOK, Number
<1>2. CASE BeginPush
    BY <1>1, <1>2 DEF BeginPush
<1>3. CASE AddHead
    BY <1>1, <1>3 DEF AddHead, TailSlot
<1>4. CASE Store
  <2> SUFFICES ASSUME ~cut PROVE RingInv'
      BY <1>4 DEF Store
  <2>1. /\ reg = (head + count) % RingSize
        /\ n = oldest + count
        /\ \A k \in 0 .. count - 1 : slots[(head + k) % RingSize] = oldest + k
      BY <1>1, <1>4 DEF Store
  <2>2. ASSUME NEW k \in 0 .. count, k # count, count < RingSize \/ k > 0
        PROVE  (head + k) % RingSize # reg
      BY <1>1, <1>4, <2>1, <2>2, Wrapped DEF Store
  <2>3. ASSUME NEW k \in 0 .. count
        PROVE  (head + k) % RingSize \in Index
      BY <1>1, <2>3 DEF Index
  <2>4. ASSUME NEW k \in 0 .. count, count < RingSize \/ k > 0
        PROVE  slots'[(head + k) % RingSize] = oldest + k
    <3>1. CASE k = count
        BY <1>1, <1>4, <2>1, <2>3, <3>1 DEF Store
    <3>2. CASE k # count
        BY <1>1, <1>4, <2>1, <2>2, <2>3, <2>4, <3>2 DEF Store
    <3> QED BY <3>1, <3>2
  <2>5. /\ pc' = "test" /\ Newest' = Newest /\ Newest = n - 1
        /\ UNCHANGED <<head, count, oldest>>
      BY <1>4 DEF Store
  <2>6. count < RingSize => Holds(head, 0, count)'
      BY <2>4, <2>5
  <2>7. count = RingSize => Holds(head, 1, count)'
      BY <2>4, <2>5
  <2> QED BY <1>1, <2>1, <2>5, <2>6, <2>7
<1>5. CASE TestFull
  <2>1. /\ pc = "test" /\ Newest' = Newest
        /\ UNCHANGED <<head, count, oldest, slots, cut>>
      BY <1>5 DEF TestFull
  <2>2. pc' = IF count = RingSize THEN "bump" ELSE "grow"
      BY <1>1, <1>5 DEF TestFull, IsFull
  <2>3. CASE count = RingSize
      BY <2>1, <2>2, <2>3
  <2>4. CASE count < RingSize
    <3>1. pc' = "grow"
        BY <2>2, <2>4
    <3>2. ~cut => Holds(head, 0, count)
        BY <2>1, <2>4
    <3>3. ~cut => Holds(head, 0, count - 1)
        BY <1>1, <3>2
    <3> QED BY <2>1, <2>4, <3>1, <3>2, <3>3
  <2> QED BY <1>1, <2>3, <2>4
<1>6. CASE BumpHead
  <2>1. ASSUME NEW k \in 1 .. RingSize
        PROVE  (head + 1) + k - 1 = head + k
      BY <1>1
  <2> QED BY <1>1, <1>6, <2>1 DEF BumpHead
<1>7. CASE LoadHead
    BY <1>1, <1>7 DEF LoadHead
<1> QED BY <1>2, <1>3, <1>4, <1>5, <1>6, <1>7

LEMMA GrowRing ==
    ASSUME NumberInv, RingInv, Grow
    PROVE  RingInv'
<1>1. /\ n \in Nat /\ oldest \in Nat /\ count \in 0 .. RingSize
      /\ head \in 0 .. RingSize /\ count < RingSize
      /\ pc = "grow" /\ Pushing
    BY DEF NumberInv, TypeOK, Number, Grow, Pushing
<1>2. ASSUME ~cut
      PROVE  /\ count + 1 = n + 1 - oldest'
             /\ \A k \in 0 .. (count + 1) - 1 :
                   slots[(head + k) % RingSize] = oldest' + k
  <2>1. n = oldest + count /\ Holds(head, 0, count)
      BY <1>1, <1>2 DEF RingInv, Newest
  <2>2. oldest' = oldest
      BY <1>1, <2>1 DEF Grow, Completed
  <2> QED BY <1>1, <2>1, <2>2 DEF Holds
<1> QED BY <1>1, <1>2, CompletedRing DEF Grow

LEMMA SaveRing ==
    ASSUME NumberInv, RingInv, SaveHead
    PROVE  RingInv'
<1>1. /\ n \in Nat /\ oldest \in Nat /\ count \in 0 .. RingSize
      /\ head \in 0 .. RingSize /\ reg \in 0 .. RingSize
      /\ pc = "save" /\ Pushing
    BY DEF NumberInv, TypeOK, Number, SaveHead, Pushing
<1>2. ASSUME ~cut
      PROVE  /\ count = n + 1 - oldest'
             /\ \A k \in 0 .. count - 1 :
                   slots[(reg + k) % RingSize] = oldest' + k
  <2>1. /\ count = RingSize /\ n = oldest + count /\ reg = head % RingSize
        /\ \A k \in 1 .. RingSize :
              slots[(head + k - 1) % RingSize] = oldest + k
      BY <1>1, <1>2 DEF RingInv, Newest
  <2>2. oldest' = oldest + 1
      BY <1>1, <2>1 DEF SaveHead, Completed
  <2>3. ASSUME NEW k \in 0 .. count - 1
        PROVE  (reg + k) % RingSize = (head + (k + 1) - 1) % RingSize
      BY <1>1, <2>1, Wrapped
  <2>4. ASSUME NEW k \in 0 .. count - 1
        PROVE  slots[(reg + k) % RingSize] = oldest' + k
    <3>1. k + 1 \in 1 .. RingSize
        BY <2>1
    <3>2. slots[(head + (k + 1) - 1) % RingSize] = oldest + (k + 1)
        BY <2>1, <3>1
    <3> QED BY <1>1, <2>2, <2>3, <3>2
  <2> QED BY <1>1, <2>1, <2>2, <2>4
<1> QED BY <1>1, <1>2, CompletedRing DEF SaveHead

LEMMA StageRing ==
    ASSUME RingInv, OpenStage \/ StageAck \/ StagePositions \/ Publish
    PROVE  RingInv'
<1>1. /\ UNCHANGED <<ringVars, historyVars, n>>
      /\ pc \in {"idle", "stage_ack", "stage_pos", "publish"}
      /\ pc' \in {"idle", "stage_ack", "stage_pos", "publish"}
    BY DEF OpenStage, StageAck, StagePositions, Publish
<1> QED BY <1>1 DEF RingInv, Holds, Newest, Pushing, ringVars, historyVars

\* Where the main line may be interrupted, exactly the inputs the snapshot
\* acknowledges leave the ring.
LEMMA DiscardIsExact ==
    ASSUME NumberInv, RingInv, ~cut, ~Exposed, NEW junk, NEW d \in 0 .. count,
           IsDiscard(d, junk)
    PROVE  oldest + d = IF st_ack.ack >= oldest THEN st_ack.ack + 1 ELSE oldest
<1>1. /\ oldest \in Nat /\ count \in 0 .. RingSize /\ head \in 0 .. RingSize - 1
      /\ st_ack.ack \in Nat /\ st_ack.ack <= Newest /\ Newest \in Int
      /\ count = Newest + 1 - oldest
    BY DEF NumberInv, TypeOK, Number, Acknowledgement, RingInv, Exposed, Newest
<1>2. ASSUME NEW k \in 0 .. count - 1
      PROVE  IsAcked(k, junk) <=> oldest + k <= st_ack.ack
  <2>1. slots[(head + k) % RingSize] = oldest + k
      BY <1>1 DEF RingInv, Exposed, Holds
  <2> QED BY <1>1, <2>1 DEF IsAcked
<1>3. d > 0 => oldest + (d - 1) <= st_ack.ack
    BY <1>1, <1>2 DEF IsDiscard
<1>4. d < count => ~(oldest + d <= st_ack.ack)
    BY <1>1, <1>2 DEF IsDiscard
<1> QED BY <1>1, <1>3, <1>4

LEMMA CommitRing ==
    ASSUME NumberInv, RingInv, Commit
    PROVE  RingInv'
<1>1. /\ n \in Nat /\ oldest \in Nat /\ count \in 0 .. RingSize
      /\ head \in 0 .. RingSize /\ oldest <= Newest + 1
      /\ st_ack.ack \in Nat /\ st_ack.ack <= Newest /\ Newest \in Int
    BY DEF NumberInv, TypeOK, Number, Acknowledgement, Newest
<1>2. PICK junk \in BOOLEAN, d \in 0 .. count :
         /\ IsDiscard(d, junk)
         /\ head' = IF d = 0 THEN head ELSE (head + d) % RingSize
         /\ count' = count - d
    BY DEF Commit
<1>3. /\ UNCHANGED <<pc, reg, n, slots>>
      /\ Newest' = Newest
      /\ oldest' = IF st_ack.ack >= oldest THEN st_ack.ack + 1 ELSE oldest
    BY DEF Commit, Newest, Pushing
<1>4. CASE ~Exposed /\ ~cut
  <2>1. oldest' = oldest + d
      BY <1>2, <1>3, <1>4, DiscardIsExact
  <2>2. /\ count = Newest + 1 - oldest
        /\ head < RingSize
        /\ pc \notin {"add", "bump", "load", "save"}
        /\ pc = "test" => count < RingSize
      BY <1>1, <1>4 DEF RingInv, Exposed, NumberInv, TypeOK
  <2>3. ASSUME NEW k \in 0 .. count - d
        PROVE  (head' + k) % RingSize = (head + (d + k)) % RingSize
      BY <1>1, <1>2, <2>2, Wrapped
  <2>4. ASSUME NEW to \in Int, to <= count, Holds(head, 0, to)
        PROVE  \A k \in 0 .. to - d :
                  slots[(head' + k) % RingSize] = oldest' + k
    <3> TAKE k \in 0 .. to - d
    <3>1. /\ d + k \in 0 .. to /\ k \in 0 .. count - d
          /\ (oldest + d) + k = oldest + (d + k)
        BY <1>1, <1>2, <2>4
    <3>2. slots[(head + (d + k)) % RingSize] = oldest + (d + k)
        BY <2>4, <3>1 DEF Holds
    <3> QED BY <2>1, <2>3, <3>1, <3>2
  <2>5. pc \in {"grow", "test"} => Holds(head, 0, count)'
    <3>1. pc \in {"grow", "test"} => Holds(head, 0, count)
        BY <1>4, <2>2 DEF RingInv
    <3>2. count \in Int /\ count <= count /\ count' = count - d
        BY <1>1, <1>2
    <3> QED BY <1>3, <2>4, <3>1, <3>2 DEF Holds
  <2>6. pc \notin {"test", "bump", "load", "save"} =>
           Holds(head, 0, count - 1)'
    <3>1. pc \notin {"test", "bump", "load", "save"} =>
             Holds(head, 0, count - 1)
        BY <1>4 DEF RingInv
    <3>2. count - 1 \in Int /\ count - 1 <= count
          /\ count' - 1 = (count - 1) - d
        BY <1>1, <1>2
    <3> QED BY <1>3, <2>4, <3>1, <3>2 DEF Holds
  <2>7. pc = "store" => reg = (head' + count') % RingSize
    <3>1. pc = "store" => reg = (head + count) % RingSize
        BY <1>4 DEF RingInv
    <3>2. count' \in 0 .. count - d /\ d + count' = count
        BY <1>1, <1>2
    <3> QED BY <2>3, <3>1, <3>2
  <2>8. count' = Newest' + 1 - oldest'
      BY <1>1, <1>2, <1>3, <2>1, <2>2
  <2> QED BY <1>3, <2>1, <2>2, <2>5, <2>6, <2>7, <2>8, <1>1, <1>2 DEF RingInv
<1>5. CASE Exposed \/ cut
  <2> SUFFICES ASSUME ~cut' PROVE RingInv'
      BY DEF RingInv
  <2>1. pc = "idle" /\ Walk(slots, head', count') = Inputs(oldest', n)
      BY <1>5 DEF Commit
  <2>2. PICK h \in 0 .. RingSize, c \in 0 .. RingSize, from \in Nat :
           h = head' /\ c = count' /\ from = oldest' /\ from <= n + 1
    <3>1. head' \in 0 .. RingSize /\ count' \in 0 .. RingSize
        BY <1>1, <1>2
    <3>2. oldest' \in Nat /\ oldest' <= n + 1
        BY <1>1, <1>3, <2>1 DEF Newest, Pushing
    <3> QED BY <3>1, <3>2
  <2>3. Walk(slots, h, c) = Inputs(from, n)
      BY <2>1, <2>2
  <2>4. c = n + 1 - from /\ Run(h, c, from)
    <3>1. n \in Nat /\ h \in Nat /\ c \in Nat /\ from <= n + 1
        BY <1>1, <2>2
    <3> QED BY <2>3, <3>1, WalkFinds, Zenon
  <2>5. Holds(head, 0, count - 1)'
      BY <1>3, <2>2, <2>4 DEF Holds, Run
  <2>6. Newest' = n
      BY <1>3, <2>1 DEF Newest, Pushing
  <2> QED BY <1>3, <2>1, <2>2, <2>4, <2>5, <2>6 DEF RingInv
<1> QED BY <1>4, <1>5

LEMMA RingStep == NumberInv /\ RingInv /\ Next => RingInv'
<1>1. ASSUME RingInv, NothingToCommit PROVE RingInv'
    BY <1>1 DEF NothingToCommit, vars, ringVars, historyVars, RingInv, Holds,
                Newest, Pushing
<1> QED BY <1>1, PushRing, GrowRing, SaveRing, StageRing, CommitRing DEF Next

----------------------------------------------------------------------------
(* The theorems                                                            *)

LEMMA StutterInv == HandoffInv /\ UNCHANGED vars => HandoffInv'
    BY DEF HandoffInv, NumberInv, TypeOK, StageInv, Staging, NotTorn, RingInv,
           Holds, Newest, Pushing, vars, stageVars, liveVars, ringVars,
           historyVars

THEOREM HandoffInvariance == Spec => []HandoffInv
<1>1. HandoffInv /\ [Next]_vars => HandoffInv'
    BY NumbersStep, StageStep, RingStep, StutterInv DEF HandoffInv
<1> QED BY <1>1, InitInv, PTL DEF Spec

\* Wherever the interrupt comes, what it commits is one snapshot: positions and
\* acknowledgement belong together, however the staging sequence wraps.
THEOREM NotTornCorrect == Spec => []NotTorn
<1>1. HandoffInv => NotTorn
    BY DEF HandoffInv, StageInv
<1> QED BY <1>1, HandoffInvariance, PTL

\* A ring of any size, overflowing and emptied in between, holds exactly the
\* inputs that a replay needs, unless one of the exposed instructions was hit.
THEOREM RingCorrect == Spec => []RingIsExact
<1>1. ASSUME HandoffInv PROVE RingIsExact
  <2> SUFFICES ASSUME pc = "idle", ~cut PROVE Window = Inputs(oldest, n)
      BY DEF RingIsExact
  <2>1. /\ n \in Nat /\ oldest \in Nat /\ count \in 0 .. RingSize
        /\ head \in 0 .. RingSize /\ oldest <= n + 1
      BY <1>1 DEF HandoffInv, NumberInv, TypeOK, Number, Newest, Pushing
  <2>2. /\ count = n + 1 - oldest
        /\ Run(head, count, oldest)
      BY <1>1 DEF HandoffInv, RingInv, Holds, Run, Newest, Pushing
  <2>3. head \in Nat /\ count \in Nat
      BY <2>1
  <2> QED BY <2>1, <2>2, <2>3, WalkGives DEF Window
<1> QED BY <1>1, HandoffInvariance, PTL

=============================================================================
