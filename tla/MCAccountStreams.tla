-------------------------- MODULE MCAccountStreams --------------------------
(* An instance of the account streams for TLC. *)
EXTENDS AccountStreams
=============================================================================
