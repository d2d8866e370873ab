---------------------------- MODULE MCTcpStream ----------------------------
(***************************************************************************)
(* Three packets: one that starts with a zero, one that ends with one, and *)
(* one whose bytes fill a COBS block exactly.                              *)
(***************************************************************************)
EXTENDS TcpStream

MCPackets == <<<<0, 1>>, <<2, 0>>, <<1, 1, 2>>>>
=============================================================================
