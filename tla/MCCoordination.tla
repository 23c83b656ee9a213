--------------------------- MODULE MCCoordination ---------------------------
(* An instance of Coordination for TLC: two workers and one direct approver. *)
EXTENDS Coordination, TLC

CONSTANTS w1, w2, p1, e1, b1, b2, b3

OneApprover == (w1 :> "auto" @@ w2 :> "auto" @@ p1 :> "approve")

MCSymmetry == Permutations(Worker) \cup Permutations(Bill)

\* The approver clicks once; workers come through the engine only.
OneClick == [p \in Poster |-> IF p \in Worker THEN 0 ELSE 1]
=============================================================================
