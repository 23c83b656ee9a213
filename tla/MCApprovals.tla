----------------------------- MODULE MCApprovals -----------------------------
(* An instance of Approvals for TLC. *)
EXTENDS Approvals, TLC

CONSTANTS r1, r2, s1, g1, g2, a, b, q

\* Requests, signing calls and signers are interchangeable.
MCSymmetry == Permutations({r1, r2}) \cup Permutations({g1, g2}) \cup Permutations({a, b})
=============================================================================
