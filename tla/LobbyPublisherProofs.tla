------------------------ MODULE LobbyPublisherProofs ------------------------
(***************************************************************************)
(* The lobby publisher forgets no change, goes offline last and holds the  *)
(* stop no longer than promised, for any number of rooms, any timeouts and *)
(* any retry delays.  The argument: an online request under way is either  *)
(* for the current occupancy or its room is dirty again, and the time left *)
(* for the stop always covers the time left for the POST.                  *)
(***************************************************************************)
EXTENDS LobbyPublisher, TLAPS

USE LobbyAssumption, NamesAssumption

\* What a request under way says of its room's flags.
RequestInv ==
    request # None =>
        /\ ~stopping => \/ request.status = curplayers[request.room]
                        \/ dirty[request.room]
        /\ offline_sent[request.room] => request.status = Offline

\* How far past the deadline the stop can be.
Overrun == IF Timeout > Shutdown THEN Shutdown - Timeout ELSE 0

StopInv ==
    /\ pc # "posting" => left = 0
    /\ stopping /\ pc # "done" => pc # "waiting" /\ shutdown_left - left >= Overrun
    /\ \A r \in Room : offline_sent[r] => stopping

LobbyInv == TypeOK /\ ChangeIsPending /\ RequestInv /\ StopInv

LEMMA BackoffInRange ==
    ASSUME NEW n \in RetryMin .. RetryMax
    PROVE  /\ Backoff(n) \in RetryMin .. RetryMax
           /\ Backoff(n) > RetryMin
           /\ Backoff(n) >= n
BY DEF Backoff

LEMMA DelaysInRange ==
    LongestDelay \in Nat /\ Refresh <= LongestDelay /\ RetryMax <= LongestDelay
  BY DEF LongestDelay

LEMMA InitLobby == Init => LobbyInv
<1> SUFFICES ASSUME Init PROVE LobbyInv
  OBVIOUS
<1> USE DEF Init
<1>1. 0 \in Level
  BY DEF Level
<1>2. TypeOK
  <2>1. /\ curplayers \in [Room -> Level]
        /\ next_attempt \in [Room -> 0 .. LongestDelay]
        /\ retry \in [Room -> RetryMin .. RetryMax]
    BY <1>1, DelaysInRange
  <2>2. /\ dirty \in [Room -> BOOLEAN]
        /\ offline_sent \in [Room -> BOOLEAN]
        /\ confirmed \in [Room -> BOOLEAN]
        /\ board \in [Room -> Level \cup {Offline}]
    OBVIOUS
  <2>3. shutdown_left \in Int /\ shutdown_left <= Shutdown /\ left \in 0 .. Timeout
    OBVIOUS
  <2> QED BY <2>1, <2>2, <2>3 DEF TypeOK
<1>3. ChangeIsPending /\ RequestInv
  BY DEF ChangeIsPending, RequestInv
<1>4. StopInv
  BY DEF StopInv
<1> QED BY <1>2, <1>3, <1>4 DEF LobbyInv

----------------------------------------------------------------------------
(* One lemma per action                                                    *)

LEMMA SubmitLobby ==
    ASSUME LobbyInv, NEW r \in Room, NEW n \in Level, Submit(r, n)
    PROVE  LobbyInv'
<1> USE DEF LobbyInv
<1>1. TypeOK'
  BY DEF TypeOK, Submit, Signal, roomVars, stopVars, lobbyVars
<1>2. ChangeIsPending'
  BY DEF TypeOK, ChangeIsPending, AwaitsRetry, IsPosting, Submit, lobbyVars, stopVars
<1>3. RequestInv'
  BY DEF TypeOK, RequestInv, Submit, stopVars, Request
<1>4. StopInv'
  BY DEF TypeOK, StopInv, Submit, Signal, stopVars
<1> QED BY <1>1, <1>2, <1>3, <1>4

LEMMA StopLobby ==
    ASSUME LobbyInv, Stop
    PROVE  LobbyInv'
<1> USE DEF LobbyInv
<1>1. TypeOK'
  BY DelaysInRange DEF TypeOK, Stop, ForgetSchedule, Signal, lobbyVars
<1>2. ChangeIsPending' /\ RequestInv'
  BY DEF TypeOK, ChangeIsPending, RequestInv, Stop, lobbyVars
<1>3. StopInv'
  BY DEF TypeOK, StopInv, Stop, Signal, Overrun
<1> QED BY <1>1, <1>2, <1>3

LEMMA PickOnlineLobby ==
    ASSUME LobbyInv, NEW r \in Room, PickOnline(r)
    PROVE  LobbyInv'
<1> USE DEF LobbyInv
<1>1. request' \in Request /\ request'.room = r /\ request'.status = curplayers[r]
  BY DEF TypeOK, PickOnline, Request
<1>2. TypeOK'
  BY <1>1 DEF TypeOK, PickOnline, stopVars, lobbyVars
<1>3. ChangeIsPending'
  BY <1>1 DEF TypeOK, ChangeIsPending, AwaitsRetry, IsPosting, PickOnline, stopVars
<1>4. RequestInv' /\ StopInv'
  BY <1>1 DEF TypeOK, RequestInv, StopInv, PickOnline, TakesOnline, stopVars
<1> QED BY <1>2, <1>3, <1>4

LEMMA PickOfflineLobby ==
    ASSUME LobbyInv, NEW r \in Room, PickOffline(r)
    PROVE  LobbyInv'
<1> USE DEF LobbyInv
<1>1. request' \in Request /\ request'.room = r /\ request'.status = Offline
  BY DEF TypeOK, PickOffline, Request
<1>2. OfflineTimeout \in 0 .. Timeout /\ OfflineTimeout <= shutdown_left
  BY DEF TypeOK, PickOffline, OfflineTimeout
<1>3. TypeOK'
  BY <1>1, <1>2 DEF TypeOK, PickOffline, stopVars, lobbyVars
<1>4. ChangeIsPending' /\ RequestInv'
  BY <1>1 DEF TypeOK, ChangeIsPending, RequestInv, PickOffline, stopVars
<1>5. StopInv'
  BY <1>2 DEF TypeOK, StopInv, PickOffline, stopVars, Overrun
<1> QED BY <1>3, <1>4, <1>5

LEMMA QuietLobby ==
    ASSUME LobbyInv, Sleep \/ Finish \/ LateSettles \/ UNCHANGED vars
    PROVE  LobbyInv'
<1> USE DEF LobbyInv, roomVars, stopVars, threadVars, lobbyVars, vars
<1>1. TypeOK'
  BY DEF TypeOK, Sleep, Finish, LateSettles, Request
<1>2. ChangeIsPending'
  BY DEF ChangeIsPending, AwaitsRetry, IsPosting, Sleep, Finish, LateSettles
<1>3. RequestInv'
  BY DEF RequestInv, Sleep, Finish, LateSettles
<1>4. StopInv'
  BY DEF StopInv, Sleep, TakesOnline, Finish, LateSettles
<1> QED BY <1>1, <1>2, <1>3, <1>4

LEMMA SucceedLobby ==
    ASSUME LobbyInv, Succeed
    PROVE  LobbyInv'
<1> USE DEF LobbyInv, Succeed, EndPost, NoteSuccess, stopVars
<1>1. request \in Request /\ request.room \in Room
  BY DEF TypeOK, Request
<1>2. TypeOK'
  <2>1. board' \in [Room -> Level \cup {Offline}]
    BY <1>1 DEF TypeOK, Request
  <2>2. /\ dirty' \in [Room -> BOOLEAN]
        /\ confirmed' \in [Room -> BOOLEAN]
    BY <1>1 DEF TypeOK, StillDirty
  <2>3. /\ next_attempt' \in [Room -> 0 .. LongestDelay]
        /\ retry' \in [Room -> RetryMin .. RetryMax]
    BY <1>1, DelaysInRange DEF TypeOK
  <2> QED BY <2>1, <2>2, <2>3 DEF TypeOK
<1>3. ChangeIsPending'
  <2> SUFFICES ASSUME ~stopping, NEW r \in Room
               PROVE  confirmed'[r] \/ dirty'[r] \/ AwaitsRetry(r)'
      BY DEF ChangeIsPending
  <2>1. dirty' = dirty
      BY DEF StillDirty
  <2>2. CASE r = request.room
    <3>1. confirmed'[r] = (request.status = curplayers[r])
        BY <2>2 DEF TypeOK
    <3>2. request.status = curplayers[r] \/ dirty[r]
        BY <2>2 DEF TypeOK, RequestInv
    <3> QED BY <2>1, <3>1, <3>2
  <2>3. CASE r # request.room
    <3>1. confirmed'[r] = confirmed[r] /\ AwaitsRetry(r)' = AwaitsRetry(r)
        BY <1>1, <2>3 DEF TypeOK, AwaitsRetry
    <3>2. ~IsPosting(r, curplayers[r])
        BY <2>3 DEF IsPosting
    <3> QED BY <2>1, <3>1, <3>2 DEF ChangeIsPending
  <2> QED BY <2>2, <2>3
<1>4. RequestInv'
  BY DEF RequestInv
<1>5. StopInv'
  BY DEF TypeOK, StopInv, Overrun
<1> QED BY <1>2, <1>3, <1>4, <1>5

LEMMA FailLobby ==
    ASSUME LobbyInv, Fail
    PROVE  LobbyInv'
<1> USE DEF LobbyInv, Fail, EndPost, NoteFailure, stopVars
<1>1. request \in Request /\ request.room \in Room
  BY DEF TypeOK, Request
<1>2. Backoff(retry[request.room]) \in RetryMin .. RetryMax
  BY <1>1, BackoffInRange DEF TypeOK
<1>3. TypeOK'
  <2>1. /\ next_attempt' \in [Room -> 0 .. LongestDelay]
        /\ retry' \in [Room -> RetryMin .. RetryMax]
    BY <1>1, <1>2, DelaysInRange DEF TypeOK
  <2> QED BY <2>1 DEF TypeOK
<1>4. ChangeIsPending'
  <2> SUFFICES ASSUME ~stopping, NEW r \in Room
               PROVE  confirmed'[r] \/ dirty'[r] \/ AwaitsRetry(r)'
      BY DEF ChangeIsPending
  <2>1. CASE r = request.room
    <3>1. /\ next_attempt'[r] = retry[r]
          /\ retry'[r] = Backoff(retry[r])
          /\ retry[r] \in RetryMin .. RetryMax
        BY <2>1 DEF TypeOK
    <3>2. retry'[r] > RetryMin /\ next_attempt'[r] <= retry'[r]
        BY <3>1, BackoffInRange
    <3> QED BY <3>2 DEF AwaitsRetry
  <2>2. CASE r # request.room
    <3>1. /\ confirmed'[r] = confirmed[r] /\ dirty'[r] = dirty[r]
          /\ AwaitsRetry(r)' = AwaitsRetry(r)
        BY <1>1, <2>2 DEF TypeOK, AwaitsRetry
    <3>2. ~IsPosting(r, curplayers[r])
        BY <2>2 DEF IsPosting
    <3> QED BY <3>1, <3>2 DEF ChangeIsPending
  <2> QED BY <2>1, <2>2
<1>5. RequestInv'
  BY DEF RequestInv
<1>6. StopInv'
  BY DEF TypeOK, StopInv, Overrun
<1> QED BY <1>3, <1>4, <1>5, <1>6

LEMMA ElapseLobby ==
    ASSUME LobbyInv, WaitEnds \/ PostLasts
    PROVE  LobbyInv'
<1> USE DEF LobbyInv, WaitEnds, PostLasts, Elapse, lobbyVars
<1>1. TypeOK'
  BY DelaysInRange DEF TypeOK
<1>2. ChangeIsPending'
  <2>1. \A r \in Room : AwaitsRetry(r) => AwaitsRetry(r)'
    BY DEF TypeOK, AwaitsRetry
  <2> QED BY <2>1 DEF ChangeIsPending, IsPosting
<1>3. RequestInv'
  BY DEF RequestInv
<1>4. StopInv'
  BY DEF TypeOK, StopInv
<1> QED BY <1>1, <1>2, <1>3, <1>4

LEMMA StepLobby == LobbyInv /\ [Next]_vars => LobbyInv'
<1> SUFFICES ASSUME LobbyInv, [Next]_vars PROVE LobbyInv'
  OBVIOUS
<1>1. CASE \E r \in Room, n \in Level : Submit(r, n)
  BY <1>1, SubmitLobby
<1>2. CASE Stop
  BY <1>2, StopLobby
<1>3. CASE \E r \in Room : PickOnline(r) \/ PickOffline(r)
  BY <1>3, PickOnlineLobby, PickOfflineLobby
<1>4. CASE Sleep \/ Finish \/ LateSettles \/ UNCHANGED vars
  BY <1>4, QuietLobby
<1>5. CASE Succeed
  BY <1>5, SucceedLobby
<1>6. CASE Fail
  BY <1>6, FailLobby
<1>7. CASE WaitEnds \/ PostLasts
  BY <1>7, ElapseLobby
<1> QED BY <1>1, <1>2, <1>3, <1>4, <1>5, <1>6, <1>7 DEF Next, Run, Terminated

LEMMA LobbyInvariant == Spec => []LobbyInv
<1> QED BY InitLobby, StepLobby, PTL DEF Spec

----------------------------------------------------------------------------
(* The theorems                                                            *)

\* Every variable of the publisher keeps its type; no delay leaves its range.
THEOREM LobbyTypeCorrect == Spec => []TypeOK
<1>1. LobbyInv => TypeOK
  BY DEF LobbyInv
<1> QED BY <1>1, LobbyInvariant, PTL

\* No change of occupancy is forgotten, whenever it is submitted.
THEOREM ChangeCorrect == Spec => []ChangeIsPending
<1>1. LobbyInv => ChangeIsPending
  BY DEF LobbyInv
<1> QED BY <1>1, LobbyInvariant, PTL

\* The game loop waits for the thread no longer than the shutdown time, or
\* the POST under way.
THEOREM StopCorrect == Spec => []StopIsBounded
<1>1. LobbyInv => StopIsBounded
  BY DEF LobbyInv, TypeOK, StopInv, StopIsBounded, Overrun
<1> QED BY <1>1, LobbyInvariant, PTL

\* After a room's offline notice the thread posts nothing more for the room.
LEMMA OfflineStep ==
    ASSUME LobbyInv, [Next]_vars, NEW r \in Room, offline_sent[r]
    PROVE  /\ ~(request' # request /\ request' # None /\ request'.room = r)
           /\ board'[r] # board[r] =>
                  (board'[r] = Offline \/ (late # None /\ late.room = r))
<1> USE DEF LobbyInv, lobbyVars, threadVars, vars
<1>1. stopping
  BY DEF StopInv
<1>2. CASE \E q \in Room : PickOnline(q)
  BY <1>1, <1>2 DEF PickOnline, TakesOnline
<1>3. CASE \E q \in Room : PickOffline(q)
  BY <1>3 DEF PickOffline, IsLowest
<1>4. CASE Succeed
  <2>1. request \in Request /\ request' = None
    BY <1>4 DEF Succeed, EndPost, TypeOK
  <2>2. request.room = r => request.status = Offline
    BY <2>1 DEF RequestInv
  <2> QED BY <1>4, <2>1, <2>2 DEF Succeed, TypeOK, Request
<1>5. CASE Fail
  BY <1>5 DEF Fail, EndPost
<1>6. CASE LateSettles
  BY <1>6 DEF LateSettles, TypeOK, Request
<1>7. CASE \/ \E q \in Room, n \in Level : Submit(q, n)
           \/ Stop \/ Sleep \/ Finish \/ UNCHANGED vars
  BY <1>7 DEF Submit, Stop, Sleep, Finish
<1>8. CASE WaitEnds \/ PostLasts
  BY <1>8 DEF WaitEnds, PostLasts, Elapse
<1> QED BY <1>2, <1>3, <1>4, <1>5, <1>6, <1>7, <1>8 DEF Next, Run, Terminated

THEOREM OfflineCorrect == Spec => OfflineIsLast
<1>1. LobbyInv /\ [Next]_vars =>
          [\A r \in Room :
              /\ offline_sent[r] => ~(request' # request /\ request' # None
                                        /\ request'.room = r)
              /\ offline_sent[r] /\ board'[r] # board[r] =>
                     (board'[r] = Offline \/ (late # None /\ late.room = r))]_vars
  BY OfflineStep
<1> QED BY <1>1, LobbyInvariant, PTL DEF Spec, OfflineIsLast
=============================================================================
