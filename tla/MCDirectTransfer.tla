--------------------------- MODULE MCDirectTransfer ----------------------------
(* DirectTransfer on the instances of the DirectTransfer_*.cfg files. *)
EXTENDS DirectTransfer
================================================================================
