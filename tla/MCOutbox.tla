------------------------------ MODULE MCOutbox ------------------------------
(* Small instances of Outbox for TLC: the first two loops share an identity. *)
EXTENDS Outbox, TLC

CONSTANTS l1, l2, l3, d1, d2

Mixed == l1 :> d1 @@ l2 :> d1 @@ l3 :> d2
=============================================================================
