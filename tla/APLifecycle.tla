---------------------------- MODULE APLifecycle ----------------------------
(***************************************************************************)
(* What an AP item promises to its readers: the state moves along the      *)
(* graph of ap_states.py, a snooze remembers where it came from and an     *)
(* unsnooze goes back there.  The one exception it grants is explicit: an  *)
(* Overwrite, a write over what another writer put there meanwhile, holds  *)
(* until the next decision about the item.  APItemStore implements it.     *)
(***************************************************************************)
EXTENDS APStates

VARIABLES
  state,      \* ap_items.state
  preSnooze,  \* metadata.pre_snooze_state, or "none"
  approved,   \* history: the approval that stands for the item
  late        \* history: the item was overwritten since its latest decision

lifecycle == <<state, preSnooze, approved, late>>

SNOOZEABLE_STATES ==
  {"received", "validated", "needs_info", "needs_approval", "failed_post"}

Undecided == {"received", "validated", "needs_info", "needs_approval",
              "needs_second_approval"}

\* The states an item is only ever in because somebody approved it.
AfterApproval ==
  {"approved", "ready_to_post", "failed_post", "posted_to_erp",
   "awaiting_payment", "payment_in_flight", "payment_executed",
   "payment_failed", "reversed"}

AfterPosting ==
  {"posted_to_erp", "awaiting_payment", "payment_in_flight",
   "payment_executed", "payment_failed", "reversed", "closed"}

\* An approval is earned by entering approved and lost by going back.
ApprovedAfter(a, t) ==
  CASE t = "approved"  -> TRUE
    [] t \in Undecided -> FALSE
    [] OTHER           -> a

\* A decision is taken again: an approval, or a way back before one.
LateAfter(l, t) == l /\ t \notin Undecided \cup {"approved"}

RestoreState(pre) == IF pre = "none" THEN "needs_approval" ELSE pre

Init ==
  state = "received" /\ preSnooze = "none" /\ approved = FALSE /\ late = FALSE

Enter(t) ==
  /\ state' = t
  /\ approved' = ApprovedAfter(approved, t) /\ late' = LateAfter(late, t)

\* Any transition but a snooze; a snoozed item is only unsnoozed or closed.
Move(t) ==
  /\ ValidTransition(state, t) /\ t # "snoozed"
  /\ state = "snoozed" => t = "closed"
  /\ Enter(t)
  /\ UNCHANGED preSnooze

Snooze ==
  /\ state \in SNOOZEABLE_STATES /\ ValidTransition(state, "snoozed")
  /\ preSnooze' = state
  /\ Enter("snoozed")

Unsnooze ==
  /\ state = "snoozed" /\ ValidTransition(state, RestoreState(preSnooze))
  /\ Enter(RestoreState(preSnooze))
  /\ preSnooze' = "none"

\* A write whose caller read the item before another writer moved it.
Overwrite(t) ==
  /\ state' = t /\ preSnooze' \in SNOOZEABLE_STATES \cup {"none"}
  /\ approved' = ApprovedAfter(approved, t) /\ late' = TRUE

Next == Snooze \/ Unsnooze \/ \E t \in APState : Move(t) \/ Overwrite(t)

Spec == Init /\ [][Next]_lifecycle

-----------------------------------------------------------------------------

LifecycleType ==
  /\ state \in APState
  /\ preSnooze \in SNOOZEABLE_STATES \cup {"none"}
  /\ approved \in BOOLEAN /\ late \in BOOLEAN

\* Nothing is posted, paid or retried whose latest decision is not an
\* approval: reverting, asking for information and snoozing a failed post
\* included.  Only an overwrite gets an item there, and for no longer than
\* until the next decision.
ApprovedBeforePosting ==
  \/ late
  \/ /\ state \in AfterApproval => approved
     /\ state = "snoozed" /\ preSnooze = "failed_post" => approved

\* An item that was posted is never back where it could be posted again,
\* unless it was overwritten.
PostedStays ==
  [][(state \in AfterPosting) => (state' \in AfterPosting \/ late')]_lifecycle
=============================================================================
