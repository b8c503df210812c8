-------------------------- MODULE MCDevicePairing --------------------------
(* Two phones, two sets of credentials and a few connections, so that a       *)
(* process may restart before, during and after pairing.                      *)
EXTENDS DevicePairing
=============================================================================
