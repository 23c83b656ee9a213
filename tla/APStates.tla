------------------------------ MODULE APStates ------------------------------
(***************************************************************************)
(* The canonical states of an AP item and the transitions between them:    *)
(* solden/core/ap_states.py.  Every write of ap_items.state is validated   *)
(* against this graph; the modules that model the writers share it.        *)
(***************************************************************************)

APState ==
  {"received", "validated", "needs_info", "needs_approval",
   "needs_second_approval", "approved", "rejected", "ready_to_post",
   "posted_to_erp", "failed_post", "snoozed", "reversed", "closed",
   "awaiting_payment", "payment_in_flight", "payment_executed",
   "payment_failed"}

VALID_TRANSITIONS ==
  [s \in APState |->
    CASE s = "received" -> {"validated", "closed", "rejected"}
      [] s = "validated" -> {"needs_approval", "needs_info", "snoozed", "closed"}
      [] s = "needs_info" -> {"validated", "snoozed", "closed"}
      [] s = "needs_approval" ->
           {"approved", "needs_second_approval", "rejected", "needs_info",
            "snoozed", "closed"}
      [] s = "needs_second_approval" ->
           {"approved", "needs_approval", "rejected", "needs_info", "snoozed",
            "closed"}
      [] s = "approved" ->
           {"ready_to_post", "needs_approval", "needs_info", "closed"}
      [] s = "rejected" -> {"closed"}
      [] s = "ready_to_post" ->
           {"posted_to_erp", "failed_post", "needs_approval", "closed"}
      [] s = "posted_to_erp" -> {"awaiting_payment", "closed", "reversed"}
      [] s = "failed_post" -> {"ready_to_post", "snoozed", "closed"}
      [] s = "snoozed" ->
           {"validated", "needs_info", "needs_approval",
            "needs_second_approval", "failed_post", "closed"}
      [] s = "awaiting_payment" ->
           {"payment_in_flight", "payment_executed", "payment_failed",
            "closed", "reversed"}
      [] s = "payment_in_flight" ->
           {"payment_executed", "payment_failed", "reversed"}
      [] s = "payment_executed" -> {"closed", "reversed"}
      [] s = "payment_failed" -> {"awaiting_payment", "reversed", "closed"}
      [] OTHER -> {}]

\* Mutant: an item that needs approval can be sent to the ERP.
ValidTransitionSkipping(s, t) ==
  t \in VALID_TRANSITIONS[s] \/ (s = "needs_approval" /\ t = "ready_to_post")

\* validate_transition: may an item in state s be moved to t?
ValidTransition(s, t) == t \in VALID_TRANSITIONS[s]

TERMINAL_STATES == {"rejected", "reversed", "closed"}
=============================================================================
