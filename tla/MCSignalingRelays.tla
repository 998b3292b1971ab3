---------------------------- MODULE MCSignalingRelays ---------------------------
(* SignalingRelays on the instances of the SignalingRelays_*.cfg files.  The      *)
(* seeds are alike, and so are the relays discovery may name.                     *)
EXTENDS SignalingRelays, TLC

Alike == Permutations(Seed) \cup Permutations(Candidate)
================================================================================
