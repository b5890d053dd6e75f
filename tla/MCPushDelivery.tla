---------------------------- MODULE MCPushDelivery -----------------------------
(* Model checking of PushDelivery. *)
EXTENDS PushDelivery
===============================================================================
