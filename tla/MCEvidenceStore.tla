---------------------------- MODULE MCEvidenceStore ----------------------------
(* Model checking of EvidenceStore and its HTTP readers: two appending     *)
(* threads, an SSE client behind its subscriber queue, and an export.      *)
EXTENDS Feeds, TLC

CONSTANTS e1, e2, e3

(* e3 comes from a module whose clock is behind. *)
MCTimeOf == e1 :> 1 @@ e2 :> 2 @@ e3 :> 1

=============================================================================
