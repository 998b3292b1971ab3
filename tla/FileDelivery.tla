----------------------------- MODULE FileDelivery ------------------------------
(***************************************************************************)
(* What every way of moving a file promises the two people at its ends: each *)
(* side's outcome is settled once, the receiver reports success only with    *)
(* the whole file in hand, and the sender reports success only when the      *)
(* whole file is out of its hands.  For the live relay transfer that means   *)
(* with the receiver, which says so; for a direct transfer, whose protocol   *)
(* is one-way, it means that the last byte has left the sender's buffers.    *)
(* Not promised, because no protocol can: that the sender learns of every    *)
(* success.                                                                  *)
(***************************************************************************)
VARIABLES
  sender,    \* "running", "ok" or "failed"
  receiver,  \* "open", "ok" or "failed"
  out,       \* whether every byte of the file is out of the sender's hands
  held       \* whether the receiver holds every byte of the file

vars == <<sender, receiver, out, held>>

Init == sender = "running" /\ receiver = "open" /\ out = FALSE /\ held = FALSE

\* The last missing piece leaves, arrives, or both; what arrived had left.
Progress ==
  /\ out => out'
  /\ held => held'
  /\ held' => out'
  /\ UNCHANGED <<sender, receiver>>

ReceiverSettles(outcome) ==
  /\ receiver = "open"
  /\ outcome = "ok" => held
  /\ receiver' = outcome
  /\ UNCHANGED <<sender, out, held>>

SenderSettles(outcome) ==
  /\ sender = "running"
  /\ outcome = "ok" => out
  /\ sender' = outcome
  /\ UNCHANGED <<receiver, out, held>>

Next ==
  \/ Progress
  \/ \E outcome \in {"ok", "failed"} : ReceiverSettles(outcome) \/ SenderSettles(outcome)

Spec == Init /\ [][Next]_vars
================================================================================
