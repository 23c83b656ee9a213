--------------------------- MODULE MCAPItemStore ---------------------------
(* Instances of APItemStore for TLC: which writer makes which writes. *)
EXTENDS APItemStore, TLC

CONSTANTS w1, w2, f1, f2

Symmetric == Permutations(Flag)

\* One caller moves and snoozes unconditionally, the other compares and swaps or
\* unsnoozes unconditionally; both write flags.
SnoozeAndSwap == (w1 :> {"move", "snooze", "flag"}
                  @@ w2 :> {"cas", "unsnooze", "flag", "resolve", "clear"})
MainTarget    == {"validated", "needs_approval", "approved", "ready_to_post",
                  "posted_to_erp", "failed_post"}
=============================================================================
