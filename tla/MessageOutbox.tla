--------------------------- MODULE MessageOutbox ---------------------------
(***************************************************************************)
(* What an outbound message promises to the user who sees its status, with *)
(* no job, worker, channel or request left: it is handed to the provider   *)
(* only while it is queued, it says "sent" only after it was handed over,  *)
(* "sent" is final, and only a failed message is queued again.             *)
(***************************************************************************)
EXTENDS Naturals

CONSTANTS Message

VARIABLES shown, handed

outboxVars == <<shown, handed>>

OutboxInit == /\ shown = [m \in Message |-> "none"]
              /\ handed = [m \in Message |-> 0]

Move(m, from, to) == /\ shown[m] = from
                     /\ shown' = [shown EXCEPT ![m] = to]
                     /\ UNCHANGED handed

(* The provider accepts the message: it must be queued, or its lead deleted *)
(* since it was.                                                            *)
Hand(m) == /\ shown[m] \in {"queued", "gone"}
           /\ handed' = [handed EXCEPT ![m] = @ + 1]
           /\ UNCHANGED shown

Settle(m) == \/ Move(m, "queued", "failed")
             \/ handed[m] > 0 /\ Move(m, "queued", "sent")

(* The lead is deleted, and its messages with it. *)
Drop(m) == /\ shown' = [shown EXCEPT ![m] = "gone"]
           /\ UNCHANGED handed

OutboxNext == \E m \in Message :
  \/ Move(m, "none", "queued") \/ Hand(m) \/ Settle(m)
  \/ Move(m, "failed", "queued") \/ Drop(m)

OutboxSpec == OutboxInit /\ [][OutboxNext]_outboxVars
=============================================================================
