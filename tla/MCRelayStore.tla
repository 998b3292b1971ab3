---------------------------- MODULE MCRelayStore ----------------------------
(* Two processes of the command line that share a cache directory. *)
EXTENDS RelayStore, TLC

CONSTANTS a1, a2, a3, b1, p, q

MCProc == (a1 :> p) @@ (a2 :> p) @@ (a3 :> p) @@ (b1 :> q)

=============================================================================
