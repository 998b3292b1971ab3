--------------------------- MODULE MCPinRendezvous ----------------------------
(* PinRendezvous on the instances of the PinRendezvous_*.cfg files. *)
EXTENDS PinRendezvous
================================================================================
