------------------------- MODULE MCSignalRepository -------------------------
(* Two devices; the runs differ in who opens sessions, how many one-time     *)
(* pre-keys there are, whether operations overlap and whether devices crash. *)
EXTENDS SignalRepository

CONSTANTS A, B, slot1, slot2

MCDevice == {A, B}

OneOpener  == A :> 1 @@ B :> 0
TwoOpeners == A :> 1 @@ B :> 1
Reopener   == A :> 2 @@ B :> 0

NoPreKeys == A :> {} @@ B :> {}
OnePreKey == A :> {} @@ B :> {1}
TwoPreKeys == A :> {} @@ B :> {1, 2}
BothPreKeys == A :> {1} @@ B :> {1}
=============================================================================
