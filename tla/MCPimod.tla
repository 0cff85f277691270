-------------------------------- MODULE MCPimod --------------------------------
(* Model checking of Pimod: one command takes control, one is a method, one *)
(* comes between: a second method, an abort or the way back to BRIDGE.      *)
EXTENDS Pimod, TLC

CONSTANTS c1, c2, c3

MCAsks == c1 :> {"take_control"}
       @@ c2 :> {"calibrate", "prime"}
       @@ c3 :> {"bridge", "abort", "sample", "unknown"}

=============================================================================
