------------------------------ MODULE MCTorServe ------------------------------
(* A stranger, a receiver whose connection may drop, and two that hold. *)
EXTENDS TorServe

CONSTANTS x1, h1, s1, s2

===============================================================================
