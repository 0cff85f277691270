------------------------------ MODULE MCMqttShim ------------------------------
(***************************************************************************)
(* Model-checking instance of MqttShim: the .cfg gives the command ids and *)
(* the bounds.                                                             *)
(***************************************************************************)
EXTENDS MqttShim

=============================================================================
