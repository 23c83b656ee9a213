---------------------------- MODULE PaymentLedger ----------------------------
(***************************************************************************)
(* What recording payments promises, however the calls that record them    *)
(* interleave or die: a payment is entered once and keeps the status it    *)
(* was entered with, the item is moved to "executed" or "failed" only on   *)
(* the evidence of an entry, and an entry is reported once.                *)
(* PaymentTracking implements it.                                          *)
(***************************************************************************)
EXTENDS APStates

CONSTANTS Payment, Status

VARIABLES
  state,   \* ap_items.state
  ledger,  \* the payments on record, with their status
  told     \* the payments whose audit event is written

Recorded(p)    == \E s \in Status : <<p, s>> \in ledger
Evidence(s)    == \E p \in Payment : <<p, s>> \in ledger

LedgerInit == /\ state \in APState \ {"payment_executed", "payment_failed"}
              /\ ledger = {} /\ told = {}

Enter(p, s) == /\ ~Recorded(p)
               /\ ledger' = ledger \cup {<<p, s>>}
               /\ UNCHANGED <<state, told>>

\* A payment moves the item; a walk may pass awaiting_payment.
Advance(t) == /\ \/ t = "payment_executed" /\ Evidence("confirmed")
                 \/ t = "payment_failed" /\ Evidence("failed")
                 \/ t = "awaiting_payment"
                    /\ (Evidence("confirmed") \/ Evidence("failed"))
              /\ state' = t
              /\ UNCHANGED <<ledger, told>>

Report(p)  == /\ Recorded(p) /\ p \notin told
              /\ told' = told \cup {p}
              /\ UNCHANGED <<state, ledger>>

\* Other code moves the item to no outcome of a payment, from whatever state: its
\* move may be a late one.
MovedElsewhere == /\ state' \in APState \ {"payment_executed", "payment_failed"}
                  /\ UNCHANGED <<ledger, told>>

LedgerNext == \/ \E p \in Payment : Report(p) \/ \E s \in Status : Enter(p, s)
              \/ \E t \in APState : Advance(t)
              \/ MovedElsewhere

LedgerSpec == LedgerInit /\ [][LedgerNext]_<<state, ledger, told>>

\* An item that says it was paid, or that its payment failed, has an entry that
\* says so: no order of deliveries, races or crashes pays an item without one.
PaidOnEvidence == /\ state = "payment_executed" => Evidence("confirmed")
                  /\ state = "payment_failed" => Evidence("failed")
=============================================================================
