--------------------------- MODULE OutboxDelivery ---------------------------
(***************************************************************************)
(* What the outbox promises to those who publish events: an event is       *)
(* delivered once or given up, and its effect happens in the very step that *)
(* delivers it.                                                            *)
(***************************************************************************)
CONSTANTS Event,
          JobEvent   \* events whose consumer has an effect: it enqueues a job

VARIABLES delivery,  \* [Event -> {"absent", "waiting", "delivered", "dead"}]
          effects    \* events whose job is in the queue

deliveryVars == <<delivery, effects>>

DeliveryInit ==
    /\ delivery = [e \in Event |-> "absent"]
    /\ effects = {}

Becomes(e, from, to) == delivery[e] = from /\ delivery'[e] = to

(* "delivered" and "dead" are final.                                          *)
Advances(e) ==
    \/ Becomes(e, "absent", "waiting")
    \/ \E end \in {"delivered", "dead"} : Becomes(e, "waiting", end)

(* Leases that ran out are settled in batches: several events may advance.    *)
DeliveryNext ==
    /\ delivery' = [e \in Event |-> delivery'[e]]
    /\ \A e \in Event : Advances(e) \/ delivery'[e] = delivery[e]
    /\ effects' = effects \cup {e \in JobEvent : Becomes(e, "waiting", "delivered")}

DeliverySpec == DeliveryInit /\ [][DeliveryNext]_deliveryVars
=============================================================================
