------------------------------ MODULE MCOutbox ------------------------------
(* TLC instance of Outbox. *)
EXTENDS Outbox

CONSTANTS k1, k2, r1, r2, r3, w1, w2, p1, p2
=============================================================================
