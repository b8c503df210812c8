------------------------------ MODULE MCNoiseXX ------------------------------
(* Two connections to servers of every kind, with a counter that runs out    *)
(* after three frames in a direction.                                        *)
EXTENDS NoiseXX

MCServers == {"genuine", "otherDictionary", "otherIssuer", "incomplete"}
=============================================================================
