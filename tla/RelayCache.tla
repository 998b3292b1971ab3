----------------------------- MODULE RelayCache -----------------------------
(* What the processes that share a relay cache may count on: each change is *)
(* made in one step, on top of those kept before it.  The exception is a    *)
(* change whose read of the cache failed: it takes the cache for an empty   *)
(* one, and keeping it drops what was there.                                *)
CONSTANT Caller

VARIABLES
  has,    \* the changes that the cache includes
  kept,   \* the changes that were kept
  blind   \* the changes whose read missed what the cache held

vars == <<has, kept, blind>>

Init == has = {} /\ kept = {} /\ blind = {}

ReadFails(c) ==
  /\ has # {} /\ c \notin kept
  /\ blind' = blind \union {c}
  /\ UNCHANGED <<has, kept>>

Keep(c) ==
  /\ c \notin kept
  /\ has' = (IF c \in blind THEN {} ELSE has) \union {c}
  /\ kept' = kept \union {c}
  /\ UNCHANGED blind

Next == \E c \in Caller : ReadFails(c) \/ Keep(c)

Spec == Init /\ [][Next]_vars

=============================================================================
