--------------------------------- MODULE MCDesk ---------------------------------
(* Model checking of Desk: modules that may fill one role, HTTP callers    *)
(* with one idempotency key, and the scheduler.                            *)
EXTENDS Desk

=============================================================================
