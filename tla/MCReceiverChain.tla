-------------------------- MODULE MCReceiverChain --------------------------
(* A chain asked for a handful of counters, in every order, with limits     *)
(* small enough for gaps to be refused and for the store to overflow.       *)
EXTENDS ReceiverChain

MCCounters == 0 .. 6
=============================================================================
