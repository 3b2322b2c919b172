----------------------------- MODULE MCDelivery -----------------------------
(* Delivery.tla on small instances: one recipient, everything to them.     *)
EXTENDS Delivery

CONSTANTS m1, m2, u1

MCTo == [m \in Msgs |-> u1]
=============================================================================
