-------------------------- MODULE MCInvoicePosting --------------------------
(* Instances of InvoicePosting for TLC: who posts, through which entry point. *)
EXTENDS InvoicePosting, TLC

CONSTANTS p1, p2, p3, p4, b1, b2, b3

MCSymmetry == Permutations(Bill)

ApproveApprove == (p1 :> "approve" @@ p2 :> "approve")
ApproveDrain   == (p1 :> "approve" @@ p2 :> "drain")
OneOfEach      == (p1 :> "approve" @@ p2 :> "auto" @@ p3 :> "drain"
                   @@ p4 :> "retry")

\* One call each, and the drain once more than the retries of a job.
OnceEach == [p \in Poster |-> IF Kind[p] = "drain" THEN MaxRetries + 1 ELSE 1]
=============================================================================
