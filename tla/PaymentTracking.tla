--------------------------- MODULE PaymentTracking ---------------------------
(***************************************************************************)
(* Payments of one posted item: solden/services/payment_tracking.py over   *)
(* the ledger of core/stores/payment_confirmations_store.py, called by the *)
(* webhooks and pollers of erp_payment_dispatcher.py and by operators.     *)
(* Every read, INSERT and UPDATE is a step.  The calls take no lock, and   *)
(* update_ap_item validates a move on one connection and writes it, with   *)
(* no condition, on another.  The ERP is external: it settles, fails and   *)
(* voids payments and sends any number of webhooks about them.             *)
(***************************************************************************)
EXTENDS APStates, Naturals, Sequences, FiniteSets

CONSTANTS
  Caller,         \* calls of record_payment_confirmation in progress
  Payment,        \* external payment ids
  NoPayment,      \* the item's webhook is not about a payment
  MaxDeliveries,  \* bound: Payment -> how often it is delivered
  MaxCrashes      \* bound: calls that die

ASSUME PaymentAssumption ==
  /\ NoPayment \notin Payment
  /\ MaxDeliveries \in [Payment -> Nat] /\ MaxCrashes \in Nat

VARIABLES
  state,      \* ap_items.state
  rows,       \* Payment -> status of its confirmation row, or "none"
  audit,      \* Payment -> what its audit event says of the walk, or "none"
  real,       \* Payment -> what the ERP answers when it is asked
  delivered,  \* Payment -> deliveries so far
  other,      \* a move of other code that is validated and not written yet
  pc,         \* Caller -> where the call is
  pay,        \* Caller -> the payment it records
  status,     \* Caller -> the status it fetched
  left,       \* Caller -> the rest of the path it walks
  valid,      \* Caller -> the state its next move was validated against
  why,        \* Caller -> outcome of its walk
  crashes,
  lost,       \* payments whose recording call died before its audit event
  raced       \* a move was written over a state it was not validated against

world == <<real, delivered, other>>
local == <<pc, pay, status, left, valid, why>>
ghost == <<crashes, lost, raced>>
vars  == <<state, rows, audit, world, local, ghost>>

NoMove  == [from |-> "none", to |-> "none"]
Status  == {"confirmed", "failed", "disputed"}
Reasons == {"moved", "already", "no_target", "terminal", "no_path", "illegal"}

\* _STATUS_TO_TARGET_STATE
Target(s) == CASE s = "confirmed" -> "payment_executed"
               [] s = "failed"    -> "payment_failed"
               [] OTHER           -> "none"

\* Mutant: a failed payment is not queued again before it is executed.
PathShort(s, t) ==
  IF s \in {"posted_to_erp", "awaiting_payment", "payment_in_flight"} THEN <<t>>
  ELSE IF s = "payment_failed" THEN <<"awaiting_payment">>
  ELSE <<>>

\* _TRANSITION_PATHS; an empty path is no path.
Path(s, t) ==
  CASE s \in {"awaiting_payment", "payment_in_flight"} -> <<t>>
    [] s = "posted_to_erp"                             -> <<"awaiting_payment", t>>
    [] s = "payment_failed" /\ t = "payment_executed"  -> <<"awaiting_payment", t>>
    [] OTHER                                           -> <<>>

Init ==
  /\ state \in {"approved", "posted_to_erp", "awaiting_payment", "payment_in_flight"}
  /\ rows = [p \in Payment |-> "none"] /\ audit = [p \in Payment |-> "none"]
  /\ real = [p \in Payment |-> "pending"]
  /\ delivered = [p \in Payment |-> 0] /\ other = NoMove
  /\ pc = [c \in Caller |-> "idle"]
  /\ pay = [c \in Caller |-> NoPayment]
  /\ status = [c \in Caller |-> "none"]
  /\ left = [c \in Caller |-> <<>>]
  /\ valid = [c \in Caller |-> "none"]
  /\ why = [c \in Caller |-> "none"]
  /\ crashes = 0 /\ lost = {} /\ raced = FALSE

Goto(c, l) == pc' = [pc EXCEPT ![c] = l]
Says(c, r) == why' = [why EXCEPT ![c] = r]

\* The call returns or dies, and its local variables with it.
Return(c) ==
  /\ Goto(c, "idle") /\ pay' = [pay EXCEPT ![c] = NoPayment]
  /\ status' = [status EXCEPT ![c] = "none"] /\ left' = [left EXCEPT ![c] = <<>>]
  /\ valid' = [valid EXCEPT ![c] = "none"] /\ Says(c, "none")

-----------------------------------------------------------------------------
(* The ERP and other code *)

\* A payment settles, fails or is disputed; a settled one may be voided.
Happen(p) ==
  /\ \/ real[p] = "pending" /\ \E s \in Status : real' = [real EXCEPT ![p] = s]
     \/ real[p] = "confirmed" /\ real' = [real EXCEPT ![p] = "failed"]
  /\ UNCHANGED <<state, rows, audit, delivered, other, local, ghost>>

\* Posting closes the item, an operator queues a failed payment again: their moves
\* are validated first...
OtherValidates ==
  /\ other = NoMove
  /\ \E t \in VALID_TRANSITIONS[state] \cap
              {"ready_to_post", "posted_to_erp", "awaiting_payment",
               "payment_in_flight", "closed"} :
       other' = [from |-> state, to |-> t]
  /\ UNCHANGED <<state, rows, audit, real, delivered, local, ghost>>

\* ... and written later, or not at all, whatever the state has become since.
OtherWrites ==
  /\ other # NoMove
  /\ other' = NoMove
  /\ \/ state' = other.to /\ raced' = (raced \/ state # other.from)
     \/ UNCHANGED <<state, raced>>
  /\ UNCHANGED <<rows, audit, real, delivered, local, crashes, lost>>

-----------------------------------------------------------------------------
(* record_payment_confirmation *)

\* A webhook, a poll or an operator; the status is what the ERP says by then.
Deliver(c, p) ==
  /\ pc[c] = "idle" /\ real[p] # "pending" /\ delivered[p] < MaxDeliveries[p]
  /\ delivered' = [delivered EXCEPT ![p] = @ + 1]
  /\ pay' = [pay EXCEPT ![c] = p] /\ status' = [status EXCEPT ![c] = real[p]]
  /\ Goto(c, "gate")
  /\ UNCHANGED <<state, rows, audit, real, other, left, valid, why, ghost>>

\* The vendor is blocked by sanctions screening.
GateRefuses(c) ==
  /\ pc[c] = "gate"
  /\ Return(c)
  /\ UNCHANGED <<state, rows, audit, world, ghost>>

\* A payment on record is a duplicate, whatever its status has become.
PreCheck(c) ==
  /\ pc[c] = "gate"
  /\ IF rows[pay[c]] = "none"
     THEN Goto(c, "insert") /\ UNCHANGED <<pay, status, left, valid, why>>
     ELSE Return(c)
  /\ UNCHANGED <<state, rows, audit, world, ghost>>

\* Mutant: without the unique index a second call writes its own row.
InsertAlways(c) ==
  /\ pc[c] = "insert"
  /\ rows' = [rows EXCEPT ![pay[c]] = status[c]] /\ Goto(c, "read")
  /\ UNCHANGED <<state, audit, world, pay, status, left, valid, why, ghost>>

\* The unique index lets one caller insert; to the others it is a duplicate too.
Insert(c) ==
  /\ pc[c] = "insert"
  /\ IF rows[pay[c]] = "none"
     THEN /\ rows' = [rows EXCEPT ![pay[c]] = status[c]] /\ Goto(c, "read")
          /\ UNCHANGED <<pay, status, left, valid, why>>
     ELSE UNCHANGED rows /\ Return(c)
  /\ UNCHANGED <<state, audit, world, ghost>>

\* The item is read and the path chosen.
ReadItem(c) ==
  LET t == Target(status[c]) IN
  /\ pc[c] = "read"
  /\ left' = [left EXCEPT ![c] = IF t = "none" THEN <<>> ELSE Path(state, t)]
  /\ Goto(c, IF left'[c] = <<>> THEN "audit" ELSE "walk")
  /\ Says(c, CASE t = "none"                -> "no_target"
               [] state \in TERMINAL_STATES -> "terminal"
               [] state = t                 -> "already"
               [] left'[c] = <<>>           -> "no_path"
               [] OTHER                     -> "moved")
  /\ UNCHANGED <<state, rows, audit, world, pay, status, valid, ghost>>

\* Mutant: a move that the graph refuses is taken for one that was made.
ValidateQuietly(c) ==
  /\ pc[c] = "walk"
  /\ valid' = [valid EXCEPT ![c] = state]
  /\ Goto(c, IF ValidTransition(state, Head(left[c])) THEN "write" ELSE "audit")
  /\ UNCHANGED <<state, rows, audit, world, pay, status, left, why, ghost>>

\* update_ap_item reads the item again and validates the next move; a move that
\* the graph refuses ends the walk.
Validate(c) ==
  /\ pc[c] = "walk"
  /\ IF ValidTransition(state, Head(left[c]))
     THEN /\ Goto(c, "write") /\ valid' = [valid EXCEPT ![c] = state]
          /\ UNCHANGED <<left, why>>
     ELSE /\ Goto(c, "audit") /\ left' = [left EXCEPT ![c] = <<>>]
          /\ Says(c, "illegal") /\ UNCHANGED valid
  /\ UNCHANGED <<state, rows, audit, world, pay, status, ghost>>

\* ... and writes it whatever the state has become since.
Write(c) ==
  /\ pc[c] = "write"
  /\ state' = Head(left[c])
  /\ raced' = (raced \/ state # valid[c])
  /\ left' = [left EXCEPT ![c] = Tail(@)]
  /\ valid' = [valid EXCEPT ![c] = "none"]
  /\ Goto(c, IF Tail(left[c]) = <<>> THEN "audit" ELSE "walk")
  /\ UNCHANGED <<rows, audit, world, pay, status, why, crashes, lost>>

\* append_audit_event under the payment's key.
Audit(c) ==
  /\ pc[c] = "audit"
  /\ audit' = [audit EXCEPT ![pay[c]] = why[c]]
  /\ Return(c)
  /\ UNCHANGED <<state, rows, world, ghost>>

\* The process dies, or a statement raises out of the call.
Crash(c) ==
  /\ pc[c] # "idle" /\ crashes < MaxCrashes
  /\ crashes' = crashes + 1
  /\ lost' = IF pc[c] \in {"read", "walk", "write", "audit"}
             THEN lost \cup {pay[c]} ELSE lost
  /\ Return(c)
  /\ UNCHANGED <<state, rows, audit, world, raced>>

CallStep(c) ==
  \/ GateRefuses(c) \/ PreCheck(c) \/ Insert(c) \/ ReadItem(c)
  \/ Validate(c) \/ Write(c) \/ Audit(c)

Next ==
  \/ OtherValidates \/ OtherWrites
  \/ \E p \in Payment : Happen(p)
  \/ \E c \in Caller : \/ \E p \in Payment : Deliver(c, p)
                       \/ CallStep(c) \/ Crash(c)

Spec == Init /\ [][Next]_vars

\* A call goes on while its process lives.
FairSpec == Spec /\ \A c \in Caller : WF_vars(CallStep(c))

-----------------------------------------------------------------------------
(* Properties *)

\* What may be left of a path.
Walks == {<<>>} \cup {<<t>> : t \in APState}
         \cup {<<"awaiting_payment", t>> : t \in APState}

\* What other code is about to write was a legal move, to no outcome of a payment.
OtherIsLegal ==
  \/ other = NoMove
  \/ /\ other \in [from : APState, to : APState \ {"payment_executed", "payment_failed"}]
     /\ ValidTransition(other.from, other.to)

\* Every variable stays in its set.
TypeOK ==
  /\ state \in APState
  /\ rows \in [Payment -> Status \cup {"none"}]
  /\ audit \in [Payment -> Reasons \cup {"none"}]
  /\ real \in [Payment -> Status \cup {"pending"}]
  /\ delivered \in [Payment -> Nat]
  /\ OtherIsLegal
  /\ pc \in [Caller -> {"idle", "gate", "insert", "read", "walk", "write", "audit"}]
  /\ pay \in [Caller -> Payment \cup {NoPayment}]
  /\ \A c \in Caller : pc[c] # "idle" => pay[c] \in Payment
  /\ status \in [Caller -> Status \cup {"none"}]
  /\ \A c \in Caller : pc[c] # "idle" => status[c] \in Status
  /\ left \in [Caller -> Walks]
  /\ valid \in [Caller -> APState \cup {"none"}]
  /\ why \in [Caller -> Reasons \cup {"none"}]
  /\ crashes \in Nat /\ lost \in SUBSET Payment /\ raced \in BOOLEAN

\* The calls together implement the ledger: each payment entered and reported
\* once, and no outcome of a payment on an item without an entry for it.
Ledger == INSTANCE PaymentLedger
            WITH Payment <- Payment, Status <- Status, state <- state,
                 ledger <- {<<p, rows[p]>> : p \in {q \in Payment : rows[q] # "none"}},
                 told <- {p \in Payment : audit[p] # "none"}
ImplementsLedger == Ledger!LedgerSpec

Done == {"payment_executed", "closed", "reversed"}

\* Until a move is written over another call's, an audit event that says a
\* confirmed payment got the item there is right for good: no later failure,
\* dispute or redelivery takes the item back.
AuditIsRight ==
  ~raced => \A p \in Payment :
              rows[p] = "confirmed" /\ audit[p] \in {"moved", "already"}
                => state \in Done

\* A confirmed payment arrives at the item, or its audit event says why not;
\* only a call that died, or a race of two moves, loses one silently.
ConfirmationArrives ==
  \A p \in Payment :
    rows[p] = "confirmed" ~>
      \/ state \in Done
      \/ audit[p] \in {"illegal", "no_path", "terminal"}
      \/ p \in lost \/ raced
=============================================================================
