---------------------------- MODULE MCCodeExchange ----------------------------
(* Two receives of one offer, and a switch that is flipped there and back. *)
EXTENDS CodeExchange

=============================================================================
