----------------------- MODULE PaymentTracking_proofs -----------------------
(***************************************************************************)
(* Theorems about PaymentTracking for any number of calls, payments,       *)
(* deliveries and crashes: it implements PaymentLedger, so an item is paid *)
(* only on evidence, and an audit event that reports a payment is right.   *)
(***************************************************************************)
EXTENDS PaymentTracking, TLAPS

\* Where a call is once its row is written.
Recording == {"read", "walk", "write", "audit"}

\* A row has one recorder, and until that call reports it nobody has; the row
\* keeps the status the call fetched.
OneRecorder ==
  /\ \A c \in Caller : pc[c] \in Recording =>
       rows[pay[c]] = status[c] /\ audit[pay[c]] = "none"
  /\ \A c, d \in Caller :
       pc[c] \in Recording /\ pc[d] \in Recording /\ pay[c] = pay[d] => c = d
  /\ \A p \in Payment : audit[p] # "none" => rows[p] # "none"

\* The rest of a walk ends in the target of the payment's status, and the next
\* move was legal where it was validated.
OnThePath ==
  /\ \A c \in Caller : pc[c] \in {"walk", "write"} =>
       /\ Target(status[c]) # "none"
       /\ \/ left[c] = <<Target(status[c])>>
          \/ left[c] = <<"awaiting_payment", Target(status[c])>>
       /\ why[c] = "moved"
  /\ \A c \in Caller : pc[c] = "write" => ValidTransition(valid[c], Head(left[c]))
  /\ \A c \in Caller : pc[c] = "audit" => why[c] \in Reasons

\* A call about to report that a confirmed payment arrived is right.
AboutToBeRight ==
  ~raced => \A c \in Caller :
              pc[c] = "audit" /\ status[c] = "confirmed" /\ why[c] \in {"moved", "already"}
                => state \in Done

-----------------------------------------------------------------------------
(* The abstract ledger *)

LEMMA LedgerEvidence == Ledger!LedgerSpec => []Ledger!PaidOnEvidence
<1> USE DEF Ledger!PaidOnEvidence, Ledger!Evidence
<1>1. Ledger!LedgerInit => Ledger!PaidOnEvidence
  BY DEF Ledger!LedgerInit
<1>2. Ledger!PaidOnEvidence
      /\ [Ledger!LedgerNext]_<<state,
            {<<p, rows[p]>> : p \in {q \in Payment : rows[q] # "none"}},
            {p \in Payment : audit[p] # "none"}>>
        => Ledger!PaidOnEvidence'
  BY DEF Ledger!LedgerNext, Ledger!Enter, Ledger!Advance, Ledger!Report,
         Ledger!MovedElsewhere
<1> QED BY <1>1, <1>2, PTL DEF Ledger!LedgerSpec

-----------------------------------------------------------------------------
(* Types *)

\* The call is refused, or its payment is on record already.
Leaves(c) == /\ pc[c] \in {"gate", "insert"} /\ Return(c)
             /\ UNCHANGED <<state, rows, audit, world, ghost>>

LEMMA LeavesFacts ==
  ASSUME NEW c \in Caller,
         GateRefuses(c) \/ ((PreCheck(c) \/ Insert(c)) /\ rows[pay[c]] # "none")
  PROVE  Leaves(c)
BY DEF GateRefuses, PreCheck, Insert, Leaves

LEMMA EmptyWalk == <<>> \in Walks
BY DEF Walks

LEMMA WalkFacts ==
  ASSUME NEW t \in APState
  PROVE  /\ <<t>> \in Walks /\ <<"awaiting_payment", t>> \in Walks
         /\ Head(<<t>>) = t /\ Tail(<<t>>) = <<>>
         /\ Head(<<"awaiting_payment", t>>) = "awaiting_payment"
         /\ Tail(<<"awaiting_payment", t>>) = <<t>>
         /\ <<t>> # <<>> /\ <<"awaiting_payment", t>> # <<>>
BY DEF Walks

LEMMA PaymentInitType == Init => TypeOK
<1> SUFFICES ASSUME Init PROVE TypeOK
  OBVIOUS
<1>1. state \in APState
  BY DEF Init, APState
<1>2. left \in [Caller -> Walks]
  BY EmptyWalk DEF Init
<1>3. /\ pc \in [Caller -> {"idle", "gate", "insert", "read", "walk", "write", "audit"}]
      /\ \A c \in Caller : pc[c] = "idle"
  BY DEF Init
<1>4. /\ rows \in [Payment -> Status \cup {"none"}]
      /\ audit \in [Payment -> Reasons \cup {"none"}]
      /\ real \in [Payment -> Status \cup {"pending"}]
      /\ delivered \in [Payment -> Nat]
  BY DEF Init
<1>5. /\ pay \in [Caller -> Payment \cup {NoPayment}]
      /\ status \in [Caller -> Status \cup {"none"}]
      /\ valid \in [Caller -> APState \cup {"none"}]
      /\ why \in [Caller -> Reasons \cup {"none"}]
      /\ crashes \in Nat /\ lost \in SUBSET Payment /\ raced \in BOOLEAN
  BY DEF Init
<1>6. OtherIsLegal
  BY DEF Init, OtherIsLegal
<1> QED BY <1>1, <1>2, <1>3, <1>4, <1>5, <1>6 DEF TypeOK

\* Paths and targets lead to states.
LEMMA PathFacts ==
  \A s, t : \/ Path(s, t) = <<>> \/ Path(s, t) = <<t>>
           \/ Path(s, t) = <<"awaiting_payment", t>>
BY DEF Path

LEMMA TargetFacts ==
  \A s : Target(s) \in {"payment_executed", "payment_failed", "none"}
BY DEF Target

LEMMA PaymentNextType == TypeOK /\ OnThePath /\ [Next]_vars => TypeOK'
<1> SUFFICES ASSUME TypeOK, OnThePath, [Next]_vars PROVE TypeOK'
  OBVIOUS
<1>0. other' = other => OtherIsLegal'
  BY DEF TypeOK, OtherIsLegal
<1> USE <1>0, PaymentAssumption, EmptyWalk
    DEF TypeOK, Goto, Says, Return, world, local, ghost, Status, Reasons
<1>1. CASE UNCHANGED vars  BY <1>1 DEF vars
<1>2. CASE OtherValidates
  <2>1. PICK t \in VALID_TRANSITIONS[state] \cap
                   {"ready_to_post", "posted_to_erp", "awaiting_payment",
                    "payment_in_flight", "closed"} :
               other' = [from |-> state, to |-> t]
    BY <1>2 DEF OtherValidates
  <2>2. /\ t \in APState \ {"payment_executed", "payment_failed"}
        /\ ValidTransition(state, t)
    BY <2>1 DEF APState, ValidTransition
  <2>3. other' \in [from : APState, to : APState \ {"payment_executed", "payment_failed"}]
        /\ other'.from = state /\ other'.to = t
    BY <2>1, <2>2
  <2>4. ValidTransition(other'.from, other'.to)
    BY <2>2, <2>3
  <2>5. OtherIsLegal'
    BY <2>3, <2>4 DEF OtherIsLegal
  <2> QED BY <1>2, <2>5 DEF OtherValidates
<1>2w. CASE OtherWrites
  <2>1. OtherIsLegal' /\ state' \in APState
    BY <1>2w DEF OtherWrites, OtherIsLegal
  <2> QED BY <1>2w, <2>1 DEF OtherWrites
<1>3. ASSUME NEW p \in Payment, Happen(p) PROVE TypeOK'
  <2>1. real' \in [Payment -> Status \cup {"pending"}]
    BY <1>3 DEF Happen
  <2>2. UNCHANGED <<state, rows, audit, delivered, other, local, ghost>>
    BY <1>3 DEF Happen
  <2> QED BY <2>1, <2>2
<1>4. ASSUME NEW c \in Caller, NEW p \in Payment, Deliver(c, p) PROVE TypeOK'
  BY <1>4 DEF Deliver
<1>5. ASSUME NEW c \in Caller, CallStep(c) PROVE TypeOK'
  <2>1. CASE GateRefuses(c)  BY <2>1 DEF GateRefuses
  <2>2. CASE PreCheck(c)
    <3>1. CASE rows[pay[c]] = "none"  BY <2>2, <3>1 DEF PreCheck
    <3>2. CASE rows[pay[c]] # "none"
      <4>1. Leaves(c)  BY <2>2, <3>2, LeavesFacts
      <4> QED BY <4>1 DEF Leaves
    <3> QED BY <3>1, <3>2
  <2>3. CASE Insert(c)
    <3>1. CASE rows[pay[c]] = "none"
      <4>1. rows' \in [Payment -> Status \cup {"none"}]
        <5>1. rows' = [rows EXCEPT ![pay[c]] = status[c]] /\ pc[c] = "insert"
          BY <2>3, <3>1 DEF Insert
        <5> QED BY <5>1
      <4>2. /\ pc[c] = "insert" /\ pc' = [pc EXCEPT ![c] = "read"]
            /\ UNCHANGED <<state, audit, world, pay, status, left, valid, why, ghost>>
        BY <2>3, <3>1 DEF Insert
      <4> QED BY <4>1, <4>2
    <3>2. CASE rows[pay[c]] # "none"
      <4>1. Leaves(c)  BY <2>3, <3>2, LeavesFacts
      <4> QED BY <4>1 DEF Leaves
    <3> QED BY <3>1, <3>2
  <2>4. CASE ReadItem(c)
    <3> DEFINE t == Target(status[c])
    <3> DEFINE l == IF t = "none" THEN <<>> ELSE Path(state, t)
    <3>1. pc[c] = "read" /\ left' = [left EXCEPT ![c] = l]
      BY <2>4 DEF ReadItem
    <3>2. l \in Walks
      <4>1. t = "none" \/ t \in APState
        BY TargetFacts DEF APState
      <4>2. l = <<>> \/ (t # "none" /\ l \in {<<t>>, <<"awaiting_payment", t>>})
        BY PathFacts
      <4> QED BY <4>1, <4>2, WalkFacts
    <3>3. left' \in [Caller -> Walks]
      BY <3>1, <3>2
    <3>4. UNCHANGED <<state, rows, audit, real, delivered, other, pay, status, valid,
                      crashes, lost, raced>>
      BY <2>4 DEF ReadItem
    <3>5. why' \in [Caller -> Reasons \cup {"none"}]
      BY <2>4 DEF ReadItem
    <3>6. pc' = [pc EXCEPT ![c] = IF left'[c] = <<>> THEN "audit" ELSE "walk"]
      BY <2>4 DEF ReadItem
    <3>7. pc' \in [Caller -> {"idle", "gate", "insert", "read", "walk", "write", "audit"}]
      BY <3>6
    <3>8. \A d \in Caller : pc'[d] # "idle" => pc[d] # "idle"
      BY <3>1, <3>6
    <3> QED BY <3>3, <3>4, <3>5, <3>7, <3>8
  <2>5. CASE Validate(c)
    <3> DEFINE ok == ValidTransition(state, Head(left[c]))
    <3> HIDE DEF ok
    <3>1. CASE ok
      <4>1. /\ pc' = [pc EXCEPT ![c] = "write"] /\ valid' = [valid EXCEPT ![c] = state]
            /\ pc[c] = "walk"
            /\ UNCHANGED <<state, rows, audit, world, pay, status, left, why, ghost>>
        BY <2>5, <3>1 DEF Validate, ok
      <4> QED BY <4>1
    <3>2. CASE ~ok
      <4>1. /\ pc' = [pc EXCEPT ![c] = "audit"] /\ left' = [left EXCEPT ![c] = <<>>]
            /\ why' = [why EXCEPT ![c] = "illegal"] /\ pc[c] = "walk"
            /\ UNCHANGED <<state, rows, audit, world, pay, status, valid, ghost>>
        BY <2>5, <3>2 DEF Validate, ok
      <4>2. left' \in [Caller -> Walks]  BY <4>1
      <4> QED BY <4>1, <4>2
    <3> QED BY <3>1, <3>2
  <2>6. CASE Write(c)
    <3> DEFINE t == Target(status[c])
    <3>1. t \in APState /\ (left[c] = <<t>> \/ left[c] = <<"awaiting_payment", t>>)
      BY <2>6, TargetFacts DEF Write, OnThePath, APState
    <3> HIDE DEF t
    <3>2. Head(left[c]) \in APState /\ (Tail(left[c]) = <<>> \/ Tail(left[c]) = <<t>>)
      <4>1. CASE left[c] = <<t>>  BY <3>1, <4>1, WalkFacts
      <4>2. CASE left[c] = <<"awaiting_payment", t>>
        BY <3>1, <4>2, WalkFacts DEF APState
      <4> QED BY <3>1, <4>1, <4>2
    <3>3. left' \in [Caller -> Walks]
      <4>1. Tail(left[c]) \in Walks  BY <3>1, <3>2, WalkFacts
      <4> QED BY <2>6, <4>1 DEF Write
    <3>4. state' \in APState /\ raced' \in BOOLEAN
      BY <2>6, <3>2 DEF Write
    <3> QED BY <2>6, <3>3, <3>4 DEF Write
  <2>7. CASE Audit(c)  BY <2>7 DEF Audit
  <2> QED BY <1>5, <2>1, <2>2, <2>3, <2>4, <2>5, <2>6, <2>7 DEF CallStep
<1>6. ASSUME NEW c \in Caller, Crash(c) PROVE TypeOK'
  BY <1>6 DEF Crash
<1> QED BY <1>1, <1>2, <1>2w, <1>3, <1>4, <1>5, <1>6 DEF Next

-----------------------------------------------------------------------------
(* The invariants of one call *)

LEMMA OnThePathNext == TypeOK /\ OnThePath /\ [Next]_vars => OnThePath'
<1> SUFFICES ASSUME TypeOK, OnThePath, [Next]_vars PROVE OnThePath'
  OBVIOUS
<1> USE DEF TypeOK, OnThePath, Goto, Says, Return, world, local, ghost
<1>1. CASE UNCHANGED vars  BY <1>1 DEF vars
<1>2. CASE OtherValidates \/ OtherWrites  BY <1>2 DEF OtherValidates, OtherWrites
<1>3. CASE \E p \in Payment : Happen(p)  BY <1>3 DEF Happen
<1>4. ASSUME NEW c \in Caller, NEW p \in Payment, Deliver(c, p) PROVE OnThePath'
  BY <1>4 DEF Deliver
<1>5. ASSUME NEW c \in Caller, CallStep(c) PROVE OnThePath'
  <2>1. CASE GateRefuses(c)  BY <2>1 DEF GateRefuses
  <2>2. CASE PreCheck(c)
    <3>1. CASE rows[pay[c]] = "none"  BY <2>2, <3>1 DEF PreCheck
    <3>2. CASE rows[pay[c]] # "none"
      <4>1. Leaves(c)  BY <2>2, <3>2, LeavesFacts
      <4> QED BY <4>1 DEF Leaves
    <3> QED BY <3>1, <3>2
  <2>3. CASE Insert(c)
    <3>1. CASE rows[pay[c]] = "none"  BY <2>3, <3>1 DEF Insert
    <3>2. CASE rows[pay[c]] # "none"
      <4>1. Leaves(c)  BY <2>3, <3>2, LeavesFacts
      <4> QED BY <4>1 DEF Leaves
    <3> QED BY <3>1, <3>2
  <2>4. CASE ReadItem(c)
    <3> DEFINE t == Target(status[c])
    <3>1. /\ UNCHANGED <<status, valid>>
          /\ \A d \in Caller : d # c => pc'[d] = pc[d] /\ left'[d] = left[d]
                                       /\ why'[d] = why[d]
      BY <2>4 DEF ReadItem
    <3>2. pc'[c] \in {"audit", "walk"} /\ why'[c] \in Reasons
      BY <2>4 DEF ReadItem, Reasons
    <3>3. pc'[c] = "walk" => t # "none" /\ left'[c] = Path(state, t) /\ left'[c] # <<>>
      BY <2>4 DEF ReadItem
    <3>4. pc'[c] = "walk" => why'[c] = "moved"
      <4> SUFFICES ASSUME pc'[c] = "walk" PROVE why'[c] = "moved"
        OBVIOUS
      <4>1. state \notin TERMINAL_STATES /\ state # t
        BY <3>3, TargetFacts DEF Path, TERMINAL_STATES
      <4> QED BY <2>4, <3>3, <4>1 DEF ReadItem
    <3>5. pc'[c] = "walk" => left'[c] = <<t>> \/ left'[c] = <<"awaiting_payment", t>>
      BY <3>3, PathFacts
    <3> HIDE DEF t
    <3> QED BY <3>1, <3>2, <3>3, <3>4, <3>5 DEF t
  <2>5. CASE Validate(c)
    <3>1. CASE ValidTransition(state, Head(left[c]))
      <4>1. /\ pc[c] = "walk" /\ pc' = [pc EXCEPT ![c] = "write"]
            /\ valid' = [valid EXCEPT ![c] = state] /\ UNCHANGED <<left, why, status>>
        BY <2>5, <3>1 DEF Validate
      <4>2. \A d \in Caller : d # c => pc'[d] = pc[d] /\ valid'[d] = valid[d]
        BY <4>1
      <4>3. pc'[c] = "write" /\ valid'[c] = state
        BY <4>1
      <4> QED BY <3>1, <4>1, <4>2, <4>3
    <3>2. CASE ~ValidTransition(state, Head(left[c]))
      <4>1. /\ pc' = [pc EXCEPT ![c] = "audit"] /\ UNCHANGED <<status, valid>>
            /\ left' = [left EXCEPT ![c] = <<>>] /\ why' = [why EXCEPT ![c] = "illegal"]
        BY <2>5, <3>2 DEF Validate
      <4>2. \A d \in Caller : d # c => pc'[d] = pc[d] /\ left'[d] = left[d] /\ why'[d] = why[d]
        BY <4>1
      <4>3. pc'[c] = "audit" /\ why'[c] = "illegal"
        BY <4>1
      <4> QED BY <4>1, <4>2, <4>3 DEF Reasons
    <3> QED BY <3>1, <3>2
  <2>6. CASE Write(c)
    <3> DEFINE t == Target(status[c])
    <3>1. /\ pc[c] = "write" /\ t # "none" /\ why[c] = "moved"
          /\ left[c] = <<t>> \/ left[c] = <<"awaiting_payment", t>>
      BY <2>6 DEF Write
    <3>2. UNCHANGED <<status, why>>
      BY <2>6 DEF Write
    <3> HIDE DEF t
    <3>3. \/ pc'[c] = "audit"
          \/ pc'[c] = "walk" /\ left'[c] = <<t>>
      <4>1. Tail(left[c]) = <<>> \/ Tail(left[c]) = <<t>>
        <5>1. t \in APState  BY <3>1, TargetFacts DEF t, APState
        <5>2. CASE left[c] = <<t>>  BY <5>1, <5>2, WalkFacts
        <5>3. CASE left[c] = <<"awaiting_payment", t>>  BY <5>1, <5>3, WalkFacts
        <5> QED BY <3>1, <5>2, <5>3
      <4>2. /\ left'[c] = Tail(left[c])
            /\ pc'[c] = IF Tail(left[c]) = <<>> THEN "audit" ELSE "walk"
        BY <2>6 DEF Write
      <4> QED BY <4>1, <4>2
    <3>4. \A d \in Caller : d # c => pc'[d] = pc[d] /\ left'[d] = left[d]
                                    /\ valid'[d] = valid[d]
      BY <2>6 DEF Write
    <3> QED BY <3>1, <3>2, <3>3, <3>4 DEF t, Reasons
  <2>7. CASE Audit(c)  BY <2>7 DEF Audit
  <2> QED BY <1>5, <2>1, <2>2, <2>3, <2>4, <2>5, <2>6, <2>7 DEF CallStep
<1>6. ASSUME NEW c \in Caller, Crash(c) PROVE OnThePath'
  BY <1>6 DEF Crash
<1> QED BY <1>1, <1>2, <1>3, <1>4, <1>5, <1>6 DEF Next

\* The unique index makes the call that inserts the only recorder.
LEMMA OneRecorderNext ==
  TypeOK /\ OnThePath /\ OneRecorder /\ [Next]_vars => OneRecorder'
<1> SUFFICES ASSUME TypeOK, OnThePath, OneRecorder, [Next]_vars PROVE OneRecorder'
  OBVIOUS
<1> USE DEF TypeOK, OneRecorder, Recording, Status, Goto, Says, Return, world, local, ghost
<1>1. CASE UNCHANGED vars  BY <1>1 DEF vars
<1>2. CASE OtherValidates \/ OtherWrites  BY <1>2 DEF OtherValidates, OtherWrites
<1>3. CASE \E p \in Payment : Happen(p)  BY <1>3 DEF Happen
<1>4. ASSUME NEW c \in Caller, NEW p \in Payment, Deliver(c, p) PROVE OneRecorder'
  BY <1>4 DEF Deliver
<1>5. ASSUME NEW c \in Caller, CallStep(c) PROVE OneRecorder'
  <2>1. CASE GateRefuses(c)  BY <2>1 DEF GateRefuses
  <2>2. CASE PreCheck(c)
    <3>1. CASE rows[pay[c]] = "none"  BY <2>2, <3>1 DEF PreCheck
    <3>2. CASE rows[pay[c]] # "none"
      <4>1. Leaves(c)  BY <2>2, <3>2, LeavesFacts
      <4> QED BY <4>1 DEF Leaves
    <3> QED BY <3>1, <3>2
  <2>3. CASE Insert(c)
    <3>1. CASE rows[pay[c]] = "none"
      <4>1. pay[c] \in Payment /\ audit[pay[c]] = "none"
        BY <2>3, <3>1 DEF Insert
      <4>2. \A d \in Caller : pc[d] \in Recording => pay[d] # pay[c]
        BY <3>1
      <4>3. /\ UNCHANGED <<audit, pay, status>> /\ pc' = [pc EXCEPT ![c] = "read"]
            /\ rows' = [rows EXCEPT ![pay[c]] = status[c]]
            /\ pc[c] = "insert" /\ status[c] \in Status
        BY <2>3, <3>1 DEF Insert
      <4>4. rows'[pay[c]] = status[c] /\ status[c] # "none"
        BY <4>1, <4>3
      <4>5. \A p \in Payment : p # pay[c] => rows'[p] = rows[p]
        BY <4>1, <4>3
      <4>6. \A d \in Caller : d # c => pc'[d] = pc[d]
        BY <4>3
      <4> QED BY <4>1, <4>2, <4>3, <4>4, <4>5, <4>6
    <3>2. CASE rows[pay[c]] # "none"
      <4>1. Leaves(c)  BY <2>3, <3>2, LeavesFacts
      <4> QED BY <4>1 DEF Leaves
    <3> QED BY <3>1, <3>2
  <2>4. CASE ReadItem(c)
    <3>1. /\ UNCHANGED <<rows, audit, pay, status>> /\ pc[c] = "read"
          /\ \A d \in Caller : pc'[d] \in Recording <=> pc[d] \in Recording
      BY <2>4 DEF ReadItem
    <3> QED BY <3>1
  <2>5. CASE Validate(c)
    <3>1. /\ UNCHANGED <<rows, audit, pay, status>>
          /\ \A d \in Caller : pc'[d] \in Recording <=> pc[d] \in Recording
      BY <2>5 DEF Validate
    <3> QED BY <3>1
  <2>6. CASE Write(c)
    <3>1. /\ UNCHANGED <<rows, audit, pay, status>>
          /\ \A d \in Caller : pc'[d] \in Recording <=> pc[d] \in Recording
      BY <2>6 DEF Write
    <3> QED BY <3>1
  <2>7. CASE Audit(c)
    <3>1. /\ pc[c] \in Recording /\ pay[c] \in Payment /\ UNCHANGED rows
          /\ rows[pay[c]] # "none"
          /\ audit' = [audit EXCEPT ![pay[c]] = why[c]]
      BY <2>7 DEF Audit
    <3>2. \A d \in Caller : pc'[d] \in Recording =>
            /\ d # c /\ pc[d] \in Recording /\ pay'[d] = pay[d] /\ status'[d] = status[d]
            /\ pay[d] # pay[c] /\ pay[d] \in Payment
      BY <2>7 DEF Audit
    <3>3. \A p \in Payment : p # pay[c] => audit'[p] = audit[p]
      BY <3>1
    <3> QED BY <3>1, <3>2, <3>3
  <2> QED BY <1>5, <2>1, <2>2, <2>3, <2>4, <2>5, <2>6, <2>7 DEF CallStep
<1>6. ASSUME NEW c \in Caller, Crash(c) PROVE OneRecorder'
  BY <1>6 DEF Crash
<1> QED BY <1>1, <1>2, <1>3, <1>4, <1>5, <1>6 DEF Next

\* A legal move never leaves the states in which the item is settled.
LEMMA DoneIsFinal ==
  ASSUME NEW s \in APState, NEW t, s \in Done, ValidTransition(s, t)
  PROVE  t \in Done
BY DEF Done, ValidTransition, VALID_TRANSITIONS, APState

LEMMA RacedStays == [Next]_vars => (raced => raced')
BY DEF Next, vars, CallStep, OtherValidates, OtherWrites, Happen, Deliver, GateRefuses, PreCheck, Insert,
       ReadItem, Validate, Write, Audit, Crash, ghost

\* Unless two moves raced, no step takes a settled item back.
LEMMA DoneStays ==
  ASSUME TypeOK, OnThePath, [Next]_vars, ~raced', state \in Done
  PROVE  state' \in Done
<1>1. CASE OtherWrites
  <2>1. state' = state \/ (state = other.from /\ state' = other.to)
    BY <1>1 DEF OtherWrites
  <2>2. ValidTransition(other.from, other.to)
    BY <1>1 DEF OtherWrites, TypeOK, OtherIsLegal
  <2> QED BY <2>1, <2>2, DoneIsFinal DEF TypeOK
<1>2. ASSUME NEW c \in Caller, Write(c) PROVE state' \in Done
  <2>1. state = valid[c] /\ ValidTransition(valid[c], Head(left[c]))
    BY <1>2 DEF Write, OnThePath
  <2> QED BY <1>2, <2>1, DoneIsFinal DEF Write, TypeOK
<1>3. CASE ~OtherWrites /\ ~\E c \in Caller : Write(c)
  BY <1>3 DEF Next, vars, CallStep, OtherValidates, Happen, Deliver, GateRefuses, PreCheck, Insert,
     ReadItem, Validate, Audit, Crash
<1> QED BY <1>1, <1>2, <1>3

LEMMA AboutToBeRightNext ==
  TypeOK /\ OnThePath /\ AboutToBeRight /\ [Next]_vars => AboutToBeRight'
<1> SUFFICES ASSUME TypeOK, OnThePath, AboutToBeRight, [Next]_vars
             PROVE  AboutToBeRight'
  OBVIOUS
<1> SUFFICES ASSUME ~raced', NEW c \in Caller, pc'[c] = "audit",
                    status'[c] = "confirmed", why'[c] \in {"moved", "already"}
             PROVE  state' \in Done
  BY DEF AboutToBeRight, Done
<1>0. ~raced  BY RacedStays
<1> USE DEF TypeOK, Goto, Says, Return, world, local, ghost
<1>1. CASE pc[c] = "audit" /\ status[c] = "confirmed" /\ why[c] = why'[c]
  BY <1>0, <1>1, DoneStays DEF AboutToBeRight
<1>2. CASE ReadItem(c)
  <2>1. status[c] = "confirmed" /\ UNCHANGED state /\ Target(status[c]) = "payment_executed"
    BY <1>2 DEF ReadItem, Target
  <2>2. why'[c] # "moved"
    BY <1>2, <2>1 DEF ReadItem, Path
  <2> QED BY <1>2, <2>1, <2>2 DEF ReadItem, Done
<1>3. CASE Write(c)
  <2>1. Target(status[c]) = "payment_executed"
    BY <1>3 DEF Write, Target
  <2>2. Tail(left[c]) = <<>>
    BY <1>3 DEF Write
  <2>3. left[c] = <<"payment_executed">>
    <3>1. \/ left[c] = <<"payment_executed">>
          \/ left[c] = <<"awaiting_payment", "payment_executed">>
      BY <1>3, <2>1 DEF Write, OnThePath
    <3>2. "payment_executed" \in APState  BY DEF APState
    <3>3. CASE left[c] = <<"awaiting_payment", "payment_executed">>
      BY <2>2, <3>2, <3>3, WalkFacts
    <3> QED BY <3>1, <3>3
  <2> QED BY <1>3, <2>3 DEF Write, Done
<1>4. CASE Validate(c)
  BY <1>4 DEF Validate
<1>5. CASE ~ReadItem(c) /\ ~Write(c) /\ ~Validate(c)
  <2>1. pc[c] = "audit" /\ status[c] = status'[c] /\ why[c] = why'[c]
    BY <1>5 DEF Next, vars, CallStep, OtherValidates, OtherWrites, Happen, Deliver, GateRefuses, PreCheck,
       Insert, ReadItem, Validate, Write, Audit, Crash
  <2> QED BY <1>1, <2>1
<1> QED BY <1>2, <1>3, <1>4, <1>5

LEMMA AuditIsRightNext ==
  TypeOK /\ OnThePath /\ OneRecorder /\ AboutToBeRight /\ AuditIsRight /\ [Next]_vars
    => AuditIsRight'
<1> SUFFICES ASSUME TypeOK, OnThePath, OneRecorder, AboutToBeRight, AuditIsRight, [Next]_vars
             PROVE  AuditIsRight'
  OBVIOUS
<1> SUFFICES ASSUME ~raced', NEW p \in Payment, rows'[p] = "confirmed",
                    audit'[p] \in {"moved", "already"}
             PROVE  state' \in Done
  BY DEF AuditIsRight, Done
<1>1. ~raced  BY RacedStays
<1>2. CASE audit'[p] = audit[p]
  <2>1. rows[p] = rows'[p]
    <3>1. rows[p] # "none"  BY <1>2 DEF OneRecorder
    <3>2. ASSUME NEW c \in Caller, Insert(c) PROVE rows[p] = rows'[p]
      BY <3>1, <3>2 DEF Insert, TypeOK
    <3>3. CASE ~\E c \in Caller : Insert(c)
      BY <3>3 DEF Next, vars, CallStep, OtherValidates, OtherWrites, Happen, Deliver, GateRefuses, PreCheck,
         ReadItem, Validate, Write, Audit, Crash, world, local, ghost
    <3> QED BY <3>2, <3>3
  <2>2. state \in Done  BY <1>1, <1>2, <2>1 DEF AuditIsRight
  <2> QED BY <2>2, DoneStays
<1>3. ASSUME NEW c \in Caller, Audit(c), audit'[p] # audit[p] PROVE state' \in Done
  <2>1. /\ pc[c] = "audit" /\ UNCHANGED <<rows, state>>
        /\ audit' = [audit EXCEPT ![pay[c]] = why[c]]
    BY <1>3 DEF Audit
  <2>2. p = pay[c] /\ audit'[p] = why[c]
    BY <1>3, <2>1 DEF TypeOK
  <2>3. status[c] = "confirmed"
    BY <2>1, <2>2 DEF OneRecorder, Recording
  <2> QED BY <1>1, <2>1, <2>2, <2>3 DEF AboutToBeRight
<1>4. CASE ~\E c \in Caller : Audit(c)
  <2>1. audit' = audit
    BY <1>4 DEF Next, vars, CallStep, OtherValidates, OtherWrites, Happen, Deliver, GateRefuses, PreCheck,
       Insert, ReadItem, Validate, Write, Crash, world, local, ghost
  <2> QED BY <1>2, <2>1
<1> QED BY <1>2, <1>3, <1>4

-----------------------------------------------------------------------------
(* Theorems *)

PaymentInvariant == TypeOK /\ OnThePath /\ OneRecorder /\ AboutToBeRight

\* Every variable keeps to its set, one call records a payment, and a call that
\* will report an arrival is right: what the theorems below rest on.
THEOREM PaymentInvariantHolds == Spec => []PaymentInvariant
<1>1. Init => PaymentInvariant
  BY PaymentInitType
     DEF Init, PaymentInvariant, OnThePath, OneRecorder, Recording, AboutToBeRight
<1>2. PaymentInvariant /\ [Next]_vars => PaymentInvariant'
  BY PaymentNextType, OnThePathNext, OneRecorderNext, AboutToBeRightNext
     DEF PaymentInvariant
<1> QED BY <1>1, <1>2, PTL DEF Spec

\* Every variable keeps to its set.
THEOREM PaymentTypeCorrect == Spec => []TypeOK
<1>1. PaymentInvariant => TypeOK  BY DEF PaymentInvariant
<1> QED BY <1>1, PaymentInvariantHolds, PTL

\* An audit event that reports that a confirmed payment reached the item stays
\* right, whatever is delivered, redelivered or lost afterwards, as long as no
\* two moves raced.
THEOREM ReportedArrivalsStand == Spec => []AuditIsRight
<1>1. Init => AuditIsRight
  BY DEF Init, AuditIsRight
<1>2. PaymentInvariant /\ AuditIsRight /\ [Next]_vars => AuditIsRight'
  BY AuditIsRightNext DEF PaymentInvariant
<1> QED BY <1>1, <1>2, PaymentInvariantHolds, PTL DEF Spec

\* The ledger as the rows hold it, and the payments reported.
Entries == {<<p, rows[p]>> : p \in {q \in Payment : rows[q] # "none"}}
Told    == {p \in Payment : audit[p] # "none"}

\* A row is an entry.
LEMMA RowIsEntry ==
  ASSUME NEW p \in Payment, rows[p] \in Status
  PROVE  <<p, rows[p]>> \in Entries
BY DEF Entries, Status

LEMMA InsertEnters ==
  ASSUME TypeOK, NEW c \in Caller, Insert(c), rows[pay[c]] = "none"
  PROVE  Ledger!Enter(pay[c], status[c])
<1>1. /\ pay[c] \in Payment /\ status[c] \in Status /\ pc[c] = "insert"
      /\ rows' = [rows EXCEPT ![pay[c]] = status[c]] /\ UNCHANGED <<state, audit>>
  BY DEF Insert, TypeOK
<1>2. ~Ledger!Recorded(pay[c])
  BY DEF Ledger!Recorded
<1>3. rows'[pay[c]] = status[c] /\ status[c] # "none"
      /\ \A p \in Payment : p # pay[c] => rows'[p] = rows[p]
  BY <1>1 DEF TypeOK, Status
<1>4. Entries' = Entries \cup {<<pay[c], status[c]>>}
  <2>1. ASSUME NEW x, x \in Entries' PROVE x \in Entries \cup {<<pay[c], status[c]>>}
    <3>1. PICK p \in Payment : rows'[p] # "none" /\ x = <<p, rows'[p]>>
      BY <2>1 DEF Entries
    <3> QED BY <1>3, <3>1 DEF Entries
  <2>2. ASSUME NEW x, x \in Entries PROVE x \in Entries'
    <3>1. PICK p \in Payment : rows[p] # "none" /\ x = <<p, rows[p]>>
      BY <2>2 DEF Entries
    <3>2. p # pay[c]  BY <3>1
    <3> QED BY <1>3, <3>1, <3>2 DEF Entries
  <2>3. <<pay[c], status[c]>> \in Entries'
    BY <1>1, <1>3 DEF Entries
  <2> QED BY <2>1, <2>2, <2>3
<1>5. Told' = Told
  BY <1>1 DEF Told
<1> QED BY <1>1, <1>2, <1>4, <1>5 DEF Ledger!Enter, Entries, Told

\* A walk moves the item on the evidence of its own row.
LEMMA WriteAdvances ==
  ASSUME PaymentInvariant, NEW c \in Caller, Write(c)
  PROVE  \E t \in APState : Ledger!Advance(t)
<1> USE DEF PaymentInvariant
<1> DEFINE t == Head(left[c])
           u == Target(status[c])
<1>1. /\ pc[c] = "write" /\ state' = t /\ UNCHANGED <<rows, audit>>
      /\ pay[c] \in Payment /\ status[c] \in Status
  BY DEF Write, TypeOK
<1>2. rows[pay[c]] = status[c]
  BY <1>1 DEF OneRecorder, Recording
<1>3. u # "none" /\ (left[c] = <<u>> \/ left[c] = <<"awaiting_payment", u>>)
  BY <1>1 DEF OnThePath
<1>4. u \in APState /\ (t = u \/ t = "awaiting_payment")
  <2>1. u \in APState  BY <1>3, TargetFacts DEF APState
  <2>2. CASE left[c] = <<u>>  BY <2>1, <2>2, WalkFacts
  <2>3. CASE left[c] = <<"awaiting_payment", u>>  BY <2>1, <2>3, WalkFacts
  <2> QED BY <1>3, <2>1, <2>2, <2>3
<1>5. \/ u = "payment_executed" /\ status[c] = "confirmed"
      \/ u = "payment_failed" /\ status[c] = "failed"
  BY <1>3 DEF Target
<1>6. Ledger!Evidence(status[c])
  BY <1>1, <1>2, RowIsEntry DEF Ledger!Evidence, Entries
<1>7. t \in APState  BY <1>4 DEF APState
<1> HIDE DEF t, u
<1>8. Ledger!Advance(t)
  BY <1>1, <1>4, <1>5, <1>6 DEF Ledger!Advance, Entries, Told
<1> QED BY <1>7, <1>8

LEMMA AuditReports ==
  ASSUME PaymentInvariant, NEW c \in Caller, Audit(c)
  PROVE  Ledger!Report(pay[c])
<1> USE DEF PaymentInvariant
<1>1. /\ pc[c] = "audit" /\ audit' = [audit EXCEPT ![pay[c]] = why[c]]
      /\ UNCHANGED <<rows, state>> /\ pay[c] \in Payment /\ status[c] \in Status
  BY DEF Audit, TypeOK
<1>2. rows[pay[c]] = status[c] /\ audit[pay[c]] = "none"
  BY <1>1 DEF OneRecorder, Recording
<1>3. Ledger!Recorded(pay[c])
  BY <1>1, <1>2, RowIsEntry DEF Ledger!Recorded, Entries
<1>4. why[c] # "none"
  BY <1>1 DEF OnThePath, Reasons
<1>5. Told' = Told \cup {pay[c]}
  BY <1>1, <1>4 DEF Told, TypeOK
<1> QED BY <1>1, <1>2, <1>3, <1>5 DEF Ledger!Report, Told

LEMMA SameGraph == Ledger!APState = APState /\ Ledger!VALID_TRANSITIONS = VALID_TRANSITIONS
BY DEF Ledger!APState, APState, Ledger!VALID_TRANSITIONS, VALID_TRANSITIONS

\* The calls implement the ledger.
THEOREM PaymentTrackingImplementsLedger == Spec => ImplementsLedger
<1> USE DEF ImplementsLedger, Ledger!LedgerSpec
<1>1. Init => Ledger!LedgerInit
  <2> SUFFICES ASSUME Init PROVE Ledger!LedgerInit
    OBVIOUS
  <2>1. state \in APState \ {"payment_executed", "payment_failed"}
    BY DEF Init, APState
  <2>2. Entries = {} /\ Told = {}
    BY DEF Init, Entries, Told
  <2> QED BY <2>1, <2>2, SameGraph DEF Ledger!LedgerInit, Entries, Told
<1>2. PaymentInvariant /\ [Next]_vars
        => [Ledger!LedgerNext]_<<state,
             {<<p, rows[p]>> : p \in {q \in Payment : rows[q] # "none"}},
             {p \in Payment : audit[p] # "none"}>>
  <2> SUFFICES ASSUME PaymentInvariant, [Next]_vars
               PROVE  Ledger!LedgerNext \/ UNCHANGED <<state, rows, audit>>
    OBVIOUS
  <2>1. CASE OtherWrites
    <3>1. /\ UNCHANGED <<rows, audit>>
          /\ \/ state' = state
             \/ state' \in APState \ {"payment_executed", "payment_failed"}
      BY <2>1 DEF OtherWrites, PaymentInvariant, TypeOK, OtherIsLegal
    <3>2. CASE state' # state
      <4>1. Ledger!MovedElsewhere
        BY <3>1, <3>2, SameGraph DEF Ledger!MovedElsewhere
      <4> QED BY <4>1 DEF Ledger!LedgerNext
    <3> QED BY <3>1, <3>2
  <2>2. ASSUME NEW c \in Caller, Insert(c)
        PROVE  Ledger!LedgerNext \/ UNCHANGED <<state, rows, audit>>
    <3>1. CASE rows[pay[c]] = "none"
      <4>1. pay[c] \in Payment /\ status[c] \in Status
        BY <2>2 DEF Insert, PaymentInvariant, TypeOK
      <4>2. Ledger!Enter(pay[c], status[c])
        BY <2>2, <3>1, InsertEnters DEF PaymentInvariant
      <4>3. \E s \in Status : Ledger!Enter(pay[c], s)
        BY <4>1, <4>2 DEF Ledger!Enter, Ledger!Recorded
      <4>4. \E p \in Payment : \E s \in Status : Ledger!Enter(p, s)
        BY <4>1, <4>3
      <4> QED BY <4>4 DEF Ledger!LedgerNext
    <3>2. CASE rows[pay[c]] # "none"
      BY <2>2, <3>2 DEF Insert
    <3> QED BY <3>1, <3>2
  <2>3. ASSUME NEW c \in Caller, Write(c) PROVE Ledger!LedgerNext
    <3>1. PICK t \in APState : Ledger!Advance(t)
      BY <2>3, WriteAdvances
    <3> QED BY <3>1, SameGraph DEF Ledger!LedgerNext
  <2>4. ASSUME NEW c \in Caller, Audit(c) PROVE Ledger!LedgerNext
    <3>1. pay[c] \in Payment
      BY <2>4 DEF PaymentInvariant, TypeOK, Audit
    <3>2. Ledger!Report(pay[c])
      BY <2>4, AuditReports
    <3>3. \E p \in Payment : Ledger!Report(p)
      BY <3>1, <3>2 DEF Ledger!Report, Ledger!Recorded
    <3> QED BY <3>3 DEF Ledger!LedgerNext
  <2>5. CASE ~OtherWrites /\ ~\E c \in Caller : Insert(c) \/ Write(c) \/ Audit(c)
    BY <2>5 DEF Next, vars, CallStep, OtherValidates, Happen, Deliver, GateRefuses, PreCheck,
       ReadItem, Validate, Crash
  <2> QED BY <2>1, <2>2, <2>3, <2>4, <2>5
<1> QED BY <1>1, <1>2, PaymentInvariantHolds, PTL DEF Spec

\* No order of deliveries, races or crashes pays or fails an item without the
\* confirmation of a payment that says so.
THEOREM PaidOnlyOnEvidence == Spec => []Ledger!PaidOnEvidence
BY PaymentTrackingImplementsLedger, LedgerEvidence, PTL DEF ImplementsLedger
=============================================================================
