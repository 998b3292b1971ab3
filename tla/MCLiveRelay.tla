----------------------------- MODULE MCLiveRelay ------------------------------
(* LiveRelay on the instances of the LiveRelay_*.cfg files. *)
EXTENDS LiveRelay
================================================================================
