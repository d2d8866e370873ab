--------------------------- MODULE LobbyPublisher ---------------------------
(***************************************************************************)
(* The thread that tells the public lobby how many players each room has.  *)
(* The game loop submits occupancies and asks for the stop; the thread     *)
(* takes one request at a time under the mutex, posts it without the mutex *)
(* and takes the mutex again to note the outcome.                          *)
(*                                                                         *)
(* A step of the thread is one stretch of code between two points where it *)
(* holds no lock.  Time advances in whole units, only while the thread     *)
(* sleeps on the condition variable or waits for curl; a deadline is kept  *)
(* as the time left until it.                                              *)
(***************************************************************************)
EXTENDS Integers

CONSTANTS
    RoomCount,        \* room_count
    MaxPlayers,       \* 4 in the code
    Timeout,          \* config.timeout_ms
    Shutdown,         \* config.shutdown_ms
    Refresh,          \* config.refresh_ms
    RetryMin,         \* LOBBY_RETRY_MIN_MS
    RetryMax,         \* LOBBY_RETRY_MAX_MS
    Offline,          \* the status of a room that is not, or no longer, there
    None              \* no request

ASSUME LobbyAssumption ==
    /\ RoomCount \in Nat \ {0}
    /\ MaxPlayers \in Nat \ {0}
    /\ Timeout \in Nat \ {0}
    /\ Shutdown \in Nat \ {0}
    /\ RetryMin \in Nat \ {0}
    /\ RetryMax \in Nat
    /\ RetryMin < RetryMax
    /\ Refresh \in Nat

Room == 0 .. RoomCount - 1
Level == 0 .. MaxPlayers
Request == [room : Room, status : Level \cup {Offline}]

\* A refresh may be shorter than the longest retry delay, or longer.
LongestDelay == IF Refresh < RetryMax THEN RetryMax ELSE Refresh

ASSUME NamesAssumption ==
    /\ Offline \notin Level
    /\ None \notin Request

VARIABLES
    curplayers,     \* room -> the occupancy last submitted
    dirty,          \* room -> submitted and not yet taken for posting
    next_attempt,   \* room -> time left until next_attempt_ms
    retry,          \* room -> retry_ms
    offline_sent,   \* room -> offline_sent
    stopping,       \* stopping
    shutdown_left,  \* time left until shutdown_deadline_ms, negative after it
    pc,             \* where the thread is
    request,        \* the request being posted
    left,           \* time left until post_json kills curl
    late,           \* a request of a killed curl that the lobby may still serve
    board,          \* room -> what the lobby shows
    confirmed       \* history: room -> the last 201 was for the current occupancy

roomVars == <<curplayers, dirty, next_attempt, retry, offline_sent>>
stopVars == <<stopping, shutdown_left>>
threadVars == <<pc, request, left>>
lobbyVars == <<late, board>>
vars == <<roomVars, stopVars, threadVars, lobbyVars, confirmed>>

TypeOK ==
    /\ curplayers \in [Room -> Level]
    /\ dirty \in [Room -> BOOLEAN]
    /\ next_attempt \in [Room -> 0 .. LongestDelay]
    /\ retry \in [Room -> RetryMin .. RetryMax]
    /\ offline_sent \in [Room -> BOOLEAN]
    /\ stopping \in BOOLEAN
    /\ shutdown_left \in Int
    /\ shutdown_left <= Shutdown
    /\ pc \in {"pick", "waiting", "posting", "done"}
    /\ request \in Request \cup {None}
    /\ pc = "posting" <=> request # None
    /\ left \in 0 .. Timeout
    /\ late \in Request \cup {None}
    /\ board \in [Room -> Level \cup {Offline}]
    /\ confirmed \in [Room -> BOOLEAN]

\* lobby_publisher_start.
Init ==
    /\ curplayers = [r \in Room |-> 0]
    /\ dirty = [r \in Room |-> TRUE]
    /\ next_attempt = [r \in Room |-> 0]
    /\ retry = [r \in Room |-> RetryMin]
    /\ offline_sent = [r \in Room |-> FALSE]
    /\ stopping = FALSE
    /\ shutdown_left = Shutdown
    /\ pc = "pick"
    /\ request = None
    /\ left = 0
    /\ late = None
    /\ board = [r \in Room |-> Offline]
    /\ confirmed = [r \in Room |-> FALSE]

----------------------------------------------------------------------------
(* The game loop                                                           *)

\* pthread_cond_signal: it wakes the thread only if the thread sleeps.
Signal == pc' = IF pc = "waiting" THEN "pick" ELSE pc

\* lobby_publisher_submit, called after every tick of room r; an unchanged
\* occupancy changes nothing.
Submit(r, n) ==
    /\ ~stopping
    /\ curplayers[r] # n
    /\ curplayers' = [curplayers EXCEPT ![r] = n]
    /\ dirty' = [dirty EXCEPT ![r] = TRUE]
    /\ confirmed' = [confirmed EXCEPT ![r] = FALSE]
    /\ Signal
    /\ UNCHANGED <<next_attempt, retry, offline_sent, stopVars, request, left,
                   lobbyVars>>

\* The thread reads the schedule of online requests only while ~stopping.  The
\* code leaves it as it is; forgetting it here merges states that differ in
\* nothing the thread will look at again.
ForgetSchedule ==
    /\ dirty' = [r \in Room |-> FALSE]
    /\ next_attempt' = [r \in Room |-> 0]
    /\ retry' = [r \in Room |-> RetryMin]
    /\ confirmed' = [r \in Room |-> FALSE]

\* lobby_publisher_stop; the game loop then only waits for the thread.
Stop ==
    /\ ~stopping
    /\ stopping' = TRUE
    /\ shutdown_left' = Shutdown
    /\ ForgetSchedule
    /\ Signal
    /\ UNCHANGED <<curplayers, offline_sent, request, left, lobbyVars>>

----------------------------------------------------------------------------
(* The publisher thread                                                    *)

\* The slip of publishing changes only.
Due_Changed(r) == dirty[r]

Due(r) == dirty[r] \/ next_attempt[r] = 0

\* The slip of looking at stopping only when no online request is due.
TakesOnline_First == TRUE

TakesOnline == ~stopping

IsLowest(r, S) == r \in S /\ \A q \in S : r <= q

\* pick_online_request leaves the room undirtied, whatever becomes of the POST.
PickOnline(r) ==
    /\ pc = "pick"
    /\ TakesOnline
    /\ IsLowest(r, {q \in Room : Due(q)})
    /\ dirty' = [dirty EXCEPT ![r] = FALSE]
    /\ request' = [room |-> r, status |-> curplayers[r]]
    /\ left' = Timeout
    /\ pc' = "posting"
    /\ UNCHANGED <<curplayers, next_attempt, retry, offline_sent, stopVars,
                   lobbyVars, confirmed>>

\* Nothing is due: pthread_cond_timedwait.
Sleep ==
    /\ pc = "pick"
    /\ TakesOnline
    /\ \A r \in Room : ~Due(r)
    /\ pc' = "waiting"
    /\ UNCHANGED <<roomVars, stopVars, request, left, lobbyVars, confirmed>>

\* The slip of a fixed timeout for every POST.
OfflineTimeout_Full == Timeout

\* An offline POST may not outlast the shutdown deadline.
OfflineTimeout == IF shutdown_left < Timeout THEN shutdown_left ELSE Timeout

PickOffline(r) ==
    /\ pc = "pick"
    /\ stopping
    /\ shutdown_left > 0
    /\ IsLowest(r, {q \in Room : ~offline_sent[q]})
    /\ offline_sent' = [offline_sent EXCEPT ![r] = TRUE]
    /\ request' = [room |-> r, status |-> Offline]
    /\ left' = OfflineTimeout
    /\ pc' = "posting"
    /\ UNCHANGED <<curplayers, dirty, next_attempt, retry, stopVars, lobbyVars,
                   confirmed>>

\* The thread ends when every room was tried or the deadline has passed.
Finish ==
    /\ pc = "pick"
    /\ stopping
    /\ shutdown_left <= 0 \/ \A r \in Room : offline_sent[r]
    /\ pc' = "done"
    /\ UNCHANGED <<roomVars, stopVars, request, left, lobbyVars, confirmed>>

\* The slip of clearing the flag when the POST has succeeded.
StillDirty_Cleared(r) == [dirty EXCEPT ![r] = FALSE]

\* A submission made during the POST of room r stays to be posted.
StillDirty(r) == dirty

\* What the thread notes of a POST the lobby answered with 201.
NoteSuccess ==
    LET r == request.room
    IN  IF stopping
        THEN UNCHANGED <<dirty, next_attempt, retry, confirmed>>
        ELSE /\ dirty' = StillDirty(r)
             /\ next_attempt' = [next_attempt EXCEPT ![r] = Refresh]
             /\ retry' = [retry EXCEPT ![r] = RetryMin]
             /\ confirmed' = [confirmed EXCEPT ![r] =
                                (request.status = curplayers[r])]

\* retry < LOBBY_RETRY_MAX_MS / 2 ? retry * 2 : LOBBY_RETRY_MAX_MS
Backoff(n) == IF n < RetryMax \div 2 THEN n * 2 ELSE RetryMax

\* What it notes of any other end: the next attempt is delayed, the delay grows.
NoteFailure ==
    LET r == request.room
    IN  IF stopping
        THEN UNCHANGED <<next_attempt, retry>>
        ELSE /\ next_attempt' = [next_attempt EXCEPT ![r] = retry[r]]
             /\ retry' = [retry EXCEPT ![r] = Backoff(retry[r])]

EndPost == pc' = "pick" /\ request' = None /\ left' = 0

\* The lobby serves the request and the answer arrives before the deadline.
Succeed ==
    /\ pc = "posting"
    /\ board' = [board EXCEPT ![request.room] = request.status]
    /\ NoteSuccess
    /\ EndPost
    /\ UNCHANGED <<curplayers, offline_sent, stopVars, late>>

\* The POST fails or is killed: the lobby never sees it, or serves it all the
\* same, now or later (one such request at a time is the bound).
Fail ==
    /\ pc = "posting"
    /\ \/ late' = late
       \/ late = None /\ late' = request
    /\ NoteFailure
    /\ EndPost
    /\ UNCHANGED <<curplayers, dirty, offline_sent, stopVars, board, confirmed>>

----------------------------------------------------------------------------
(* Time and the lobby                                                      *)

Elapse ==
    /\ next_attempt' = [r \in Room |->
            IF next_attempt[r] = 0 THEN 0 ELSE next_attempt[r] - 1]
    /\ shutdown_left' = IF stopping THEN shutdown_left - 1 ELSE shutdown_left
    /\ UNCHANGED <<curplayers, dirty, retry, offline_sent, stopping, request,
                   lobbyVars, confirmed>>

\* The timed wait ends; it lasts one unit at most.
WaitEnds ==
    /\ pc = "waiting"
    /\ pc' = "pick"
    /\ UNCHANGED left
    /\ Elapse

\* curl goes on; at its deadline post_json ends, one way or the other.
PostLasts ==
    /\ pc = "posting"
    /\ left > 0
    /\ left' = left - 1
    /\ UNCHANGED pc
    /\ Elapse

\* The lobby serves the request of a killed curl, or never does.
LateSettles ==
    /\ late # None
    /\ board' \in {board, [board EXCEPT ![late.room] = late.status]}
    /\ late' = None
    /\ UNCHANGED <<roomVars, stopVars, threadVars, confirmed>>

Run ==
    \/ \E r \in Room : PickOnline(r) \/ PickOffline(r)
    \/ Sleep
    \/ Finish
    \/ Succeed
    \/ Fail
    \/ WaitEnds
    \/ PostLasts

\* The thread has ended and the game loop has joined it.
Terminated == pc = "done" /\ late = None /\ UNCHANGED vars

Next ==
    \/ \E r \in Room, n \in Level : Submit(r, n)
    \/ Stop
    \/ Run
    \/ LateSettles
    \/ Terminated

Spec == Init /\ [][Next]_vars

\* The thread is scheduled and time passes; a room that is posted again and
\* again is listed at last.
Fairness ==
    /\ WF_vars(Run)
    /\ WF_vars(LateSettles)
    /\ \A r \in Room : SF_vars(Succeed /\ request.room = r)

FairSpec == Spec /\ Fairness

----------------------------------------------------------------------------
(* Properties                                                              *)

\* The last POST of room r failed, and its retry comes before the next delay.
AwaitsRetry(r) == retry[r] > RetryMin /\ next_attempt[r] <= retry[r]

IsPosting(r, n) == request # None /\ request.room = r /\ request.status = n

\* A change of occupancy is never forgotten, though it may be submitted while
\* an older one is being posted without the lock or waits for its retry: an
\* occupancy the lobby has not confirmed is dirty, is being posted, or waits
\* for the retry of a POST that failed.  The refresh, which may be as short as
\* a retry, is none: only a failure raises the delay above LOBBY_RETRY_MIN_MS
\* (submit against the end of the POST).
ChangeIsPending ==
    ~stopping => \A r \in Room :
        \/ confirmed[r]
        \/ dirty[r]
        \/ IsPosting(r, curplayers[r])
        \/ AwaitsRetry(r)

\* The game loop, which waits for the thread in lobby_publisher_stop, is held
\* no longer than the shutdown time, or the one POST under way when it asked.
StopIsBounded ==
    stopping /\ pc # "done" =>
        shutdown_left >= IF Timeout > Shutdown THEN Shutdown - Timeout ELSE 0

\* Once a room's offline notice was handed out, no request of the thread says
\* it is online: the lobby can go back on it only by serving a request whose
\* curl was killed earlier.
OfflineIsLast ==
    [][\A r \in Room :
           /\ offline_sent[r] => ~(request' # request /\ request' # None
                                     /\ request'.room = r)
           /\ offline_sent[r] /\ board'[r] # board[r] =>
                  (board'[r] = Offline \/ (late # None /\ late.room = r))]_vars

\* When occupancies come to rest the lobby comes to show them, whatever was
\* lost, late or overtaken before: the refresh repairs what a late request
\* undid, and the retries of the lower room leave turns for the higher one (two
\* rooms here: those of very many rooms whose posts all hang do not).
Converges ==
    \A f \in [Room -> Level] :
        <>[](~stopping /\ curplayers = f) => <>[](board = f)
=============================================================================
