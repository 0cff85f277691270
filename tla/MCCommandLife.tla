----------------------------- MODULE MCCommandLife -----------------------------
(***************************************************************************)
(* Model-checking instances of CommandLife: the .cfg files give the        *)
(* command ids and the bounds.                                             *)
(***************************************************************************)
EXTENDS CommandLife

=============================================================================
