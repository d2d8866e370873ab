----------------------------- MODULE EventStream -----------------------------
(***************************************************************************)
(* What the reliable event stream of one TCP client promises: the events   *)
(* the server emits on a connection are applied by the client one by one,  *)
(* in order, none twice and none skipped, for as long as the connection    *)
(* lasts.  The n-th event of a connection is the number n.                 *)
(***************************************************************************)
EXTENDS Integers, Sequences

VARIABLES
    emitted,   \* events the server has emitted on this connection
    applied    \* events the client has applied, in its order

Init == emitted = 0 /\ applied = <<>>

Emit ==
    /\ emitted' = emitted + 1
    /\ UNCHANGED applied

Apply ==
    /\ Len(applied) < emitted
    /\ applied' = Append(applied, Len(applied) + 1)
    /\ UNCHANGED emitted

\* A new connection starts a new stream.
Restart == emitted' = 0 /\ applied' = <<>>

Next == Emit \/ Apply \/ Restart

Spec == Init /\ [][Next]_<<emitted, applied>>
==============================================================================
