------------------------------- MODULE MCAdoption -------------------------------
(***************************************************************************)
(* Model-checking instances of Adoption: the .cfg files give the units and *)
(* the bounds.                                                             *)
(***************************************************************************)
EXTENDS Adoption

=============================================================================
