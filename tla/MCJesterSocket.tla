--------------------------- MODULE MCJesterSocket ---------------------------
(* One socket with few queries and few chunks; the runs differ in what the   *)
(* server sends, in who may call back, and in whether two queries share an   *)
(* id.                                                                       *)
EXTENDS JesterSocket, TLC

CONSTANTS q1, q2, p1

UniqueIds == q1 :> 1 @@ q2 :> 2 @@ p1 :> 3
SharedIds == q1 :> 1 @@ q2 :> 1 @@ p1 :> 3

LoginFrames == {Tagged("success"), Tagged("failure"), Tagged("ib"), Tagged("other"), Garbage}
PairingFrames == {Tagged("pair-device"), Tagged("pair-success"), Tagged("forged-pair-success"),
                  Tagged("stream:error")}
SuccessOnly == {Tagged("success")}
PairDeviceOnly == {Tagged("pair-device")}
AllFrames == LoginFrames \cup PairingFrames
NoFrames == {}

MCRefs == {0, 2}
Paired == {"me"}
=============================================================================
