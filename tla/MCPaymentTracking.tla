-------------------------- MODULE MCPaymentTracking --------------------------
(* An instance of PaymentTracking for TLC. *)
EXTENDS PaymentTracking, TLC

CONSTANTS c1, c2, p1, p2

Deliveries == p1 :> 2 @@ p2 :> 1
=============================================================================
