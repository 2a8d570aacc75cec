--------------------------- MODULE MCNativeShuffle ---------------------------
(* Instances of NativeShuffle for TLC *)
EXTENDS NativeShuffle, TLC

CONSTANTS w, o   \* the writer's reservation and another operator's

MCConsumers == {w, o}
MCBounds == <<2, 7>>

=============================================================================
