--------------------------- MODULE MessageChannel ---------------------------
(***************************************************************************)
(* What an application expects of the encrypted conversation: a plaintext  *)
(* handed out by decrypt is one the peer encrypted, and no plaintext is    *)
(* handed out twice, whatever the network does.                            *)
(***************************************************************************)
EXTENDS Naturals

CONSTANT Body

VARIABLES accepted,   \* bodies whose ciphertext has been released
          deliveries  \* how often each body was handed to the receiver

Init == /\ accepted = {}
        /\ deliveries = [b \in Body |-> 0]

Send(b) == /\ b \notin accepted
           /\ accepted' = accepted \union {b}
           /\ UNCHANGED deliveries

Deliver(b) == /\ b \in accepted
              /\ deliveries[b] = 0
              /\ deliveries' = [deliveries EXCEPT ![b] = 1]
              /\ UNCHANGED accepted

Next == \E b \in Body : Send(b) \/ Deliver(b)

Spec == Init /\ [][Next]_<<accepted, deliveries>>
=============================================================================
