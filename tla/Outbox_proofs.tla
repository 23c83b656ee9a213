---------------------------- MODULE Outbox_proofs ----------------------------
(* Type correctness, exclusive claims and the dispatch budget of Outbox, for  *)
(* every set of rows, workers and producers and every bound.                  *)
EXTENDS Outbox, FiniteSetTheorems, TLAPS

USE OutboxAssumption

\* A held row is open, or was skipped under its holder; nobody else counted an
\* attempt of it since the claim.
HeldOpen ==
  \A w \in Worker : \A r \in Held(w) :
    /\ status[r] \in {"processing", "succeeded"}
    /\ seen[w][r] = attempts[r]

\* A row leaves the batch when it is dispatched.
BatchApart == \A w \in Worker : current[w] \notin batch[w]

\* What is left of a row's budget, by how far its current attempt has come.
Budget ==
  \A r \in Row :
    /\ dispatches[r] <= attempts[r] + 1
    /\ dispatches[r] <= MaxAttempts + retried[r]
    /\ attempts[r] <= MaxAttempts + retried[r]
    /\ status[r] = "absent" => dispatches[r] = 0 /\ attempts[r] = 0
    /\ status[r] \in {"pending", "failed", "dead"} => dispatches[r] <= attempts[r]
    /\ status[r] \in {"pending", "failed"} => attempts[r] < MaxAttempts + retried[r]
    /\ \A w \in Worker :
         /\ r \in batch[w] => dispatches[r] <= attempts[r]
         /\ r \in Held(w) => attempts[r] < MaxAttempts + retried[r]

Hold == ClaimExclusive /\ HeldOpen /\ BatchApart

IInv == TypeOK /\ Hold /\ Budget

-----------------------------------------------------------------------------
(* The next-state relation, disjunct by disjunct, for the CASE steps below. *)

LEMMA NextCases ==
  ASSUME Next
  PROVE  \/ \E p \in Producer : \/ EnqueueInsert(p)
                               \/ EnqueueUnkeyed(p)
                               \/ \E k \in Key : EnqueueLookup(p, k)
         \/ \E w \in Worker : \/ ClaimDueEvents(w) \/ Dispatch(w)
                             \/ MarkDead(w) \/ HandlerReturns(w)
                             \/ HandlerRaises(w) \/ MarkSucceeded(w)
                             \/ MarkSucceededRaises(w) \/ MarkFailed(w)
                             \/ Crash(w)
         \/ \E r \in Row : BackoffElapses(r) \/ RetryEvent(r) \/ SkipEvent(r)
         \/ ReplaySelect
         \/ ReplayCopy
BY DEF Next, WorkerStep

\* Type correctness: every step keeps each column and register in its domain.
LEMMA TypeInvariance == TypeOK /\ [Next]_vars => TypeOK'
<1> SUFFICES ASSUME TypeOK, [Next]_vars
             PROVE  TypeOK'
  OBVIOUS
<1> USE DEF TypeOK
<1>1. ASSUME NEW p \in Producer, EnqueueInsert(p) PROVE TypeOK'
  BY <1>1 DEF EnqueueInsert, Insert, Status, table, workers, history
<1>2. ASSUME NEW p \in Producer, EnqueueUnkeyed(p) PROVE TypeOK'
  BY <1>2 DEF EnqueueUnkeyed, Insert, Status, table, workers, history
<1>3. ASSUME NEW p \in Producer, NEW k \in Key, EnqueueLookup(p, k)
      PROVE TypeOK'
  BY <1>3 DEF EnqueueLookup, table, workers, history
<1>4. ASSUME NEW w \in Worker, ClaimDueEvents(w) PROVE TypeOK'
  BY <1>4 DEF ClaimDueEvents, Claimable, Status, table, workers, history
<1>5. ASSUME NEW w \in Worker, Dispatch(w) PROVE TypeOK'
  BY <1>5 DEF Dispatch, table, workers, history
<1>6. ASSUME NEW w \in Worker, MarkDead(w) PROVE TypeOK'
  BY <1>6 DEF MarkDead, Status, table, workers, history
<1>7. ASSUME NEW w \in Worker, HandlerReturns(w) PROVE TypeOK'
  BY <1>7 DEF HandlerReturns, table, workers, history
<1>8. ASSUME NEW w \in Worker, HandlerRaises(w) PROVE TypeOK'
  BY <1>8 DEF HandlerRaises, table, workers, history
<1>9. ASSUME NEW w \in Worker, MarkSucceeded(w) PROVE TypeOK'
  BY <1>9 DEF MarkSucceeded, Settle, Status, table, workers, history
<1>10. ASSUME NEW w \in Worker, MarkSucceededRaises(w) PROVE TypeOK'
  BY <1>10 DEF MarkSucceededRaises, table, workers, history
<1>11. ASSUME NEW w \in Worker, MarkFailed(w) PROVE TypeOK'
  BY <1>11 DEF MarkFailed, Settle, Status, table, workers, history
<1>12. ASSUME NEW w \in Worker, Crash(w) PROVE TypeOK'
  BY <1>12 DEF Crash, table, workers, history
<1>13. ASSUME NEW r \in Row, BackoffElapses(r) PROVE TypeOK'
  BY <1>13 DEF BackoffElapses, table, workers, history
<1>14. ASSUME NEW r \in Row, RetryEvent(r) PROVE TypeOK'
  BY <1>14 DEF RetryEvent, Status, table, workers, history
<1>15. ASSUME NEW r \in Row, SkipEvent(r) PROVE TypeOK'
  BY <1>15 DEF SkipEvent, Present, Status, table, workers, history
<1>16. CASE ReplaySelect
  BY <1>16 DEF ReplaySelect, Present, table, workers, history
<1>17. CASE ReplayCopy
  BY <1>17 DEF ReplayCopy, Insert, Status, table, workers, history
<1>18. CASE UNCHANGED vars
  BY <1>18 DEF vars, table, workers, history
<1>19. QED
  BY NextCases, <1>1, <1>2, <1>3, <1>4, <1>5, <1>6, <1>7, <1>8, <1>9, <1>10, <1>11, <1>12, <1>13, <1>14, <1>15, <1>16, <1>17, <1>18

LEMMA ClaimFacts ==
  ASSUME NEW w \in Worker, ClaimDueEvents(w)
  PROVE  \E S \in SUBSET Claimable :
           /\ status' = [r \in Row |-> IF r \in S THEN "processing" ELSE status[r]]
           /\ batch' = [batch EXCEPT ![w] = S]
           /\ seen' = [seen EXCEPT ![w] =
                         [r \in Row |-> IF r \in S THEN attempts[r] ELSE 0]]
BY Zenon DEF ClaimDueEvents

\* Claims stay exclusive: only an unheld open row is claimed, and an operator can
\* move a held row to succeeded only, from where it is not claimed.
LEMMA HoldInvariance == TypeOK /\ Hold /\ [Next]_vars => Hold'
<1> SUFFICES ASSUME TypeOK, Hold, [Next]_vars
             PROVE  Hold'
  OBVIOUS
<1> USE DEF TypeOK, Hold, ClaimExclusive, HeldOpen, BatchApart, Held
<1>1. ASSUME NEW p \in Producer, EnqueueInsert(p) PROVE Hold'
  BY <1>1 DEF EnqueueInsert, Insert, table, workers, history
<1>2. ASSUME NEW p \in Producer, EnqueueUnkeyed(p) PROVE Hold'
  BY <1>2 DEF EnqueueUnkeyed, Insert, table, workers, history
<1>3. ASSUME NEW p \in Producer, NEW k \in Key, EnqueueLookup(p, k)
      PROVE Hold'
  BY <1>3 DEF EnqueueLookup, table, workers, history
<1>4. ASSUME NEW w \in Worker, ClaimDueEvents(w) PROVE Hold'
  <2>1. PICK S \in SUBSET Claimable :
          /\ status' = [r \in Row |-> IF r \in S THEN "processing" ELSE status[r]]
          /\ batch' = [batch EXCEPT ![w] = S]
          /\ seen' = [seen EXCEPT ![w] =
                        [r \in Row |-> IF r \in S THEN attempts[r] ELSE 0]]
    BY <1>4, ClaimFacts
  <2>2. /\ batch[w] = {} /\ current[w] = NoRow
        /\ UNCHANGED <<attempts, current, dispatches, retried>>
    BY <1>4 DEF ClaimDueEvents, Idle, history
  <2>3. S \subseteq Row /\ \A r \in S : status[r] \in {"pending", "failed"}
    BY DEF Claimable
  <2>4. \A v \in Worker : S \cap Held(v) = {}
    BY <2>3
  <2>5. /\ Held(w)' = S
        /\ \A v \in Worker \ {w} : Held(v)' = Held(v)
    BY <2>1, <2>2, OutboxAssumption
  <2>6. ClaimExclusive'
    BY <2>4, <2>5
  <2>7. HeldOpen'
    <3> SUFFICES ASSUME NEW v \in Worker, NEW r \in Held(v)'
                 PROVE  status[r]' \in {"processing", "succeeded"} /\ seen[v][r]' = attempts[r]'
      BY DEF HeldOpen
    <3>1. CASE v = w
      BY <3>1, <2>1, <2>2, <2>3, <2>5
    <3>2. CASE v # w
      BY <3>2, <2>1, <2>2, <2>4, <2>5
    <3> QED
      BY <3>1, <3>2
  <2>8. BatchApart'
    BY <2>1, <2>2, <2>3, OutboxAssumption
  <2> QED
    BY <2>6, <2>7, <2>8 DEF Hold
<1>5. ASSUME NEW w \in Worker, Dispatch(w) PROVE Hold'
  BY <1>5 DEF Dispatch, table, workers, history
<1>6. ASSUME NEW w \in Worker, MarkDead(w) PROVE Hold'
  BY <1>6 DEF MarkDead, table, workers, history
<1>7. ASSUME NEW w \in Worker, HandlerReturns(w) PROVE Hold'
  BY <1>7 DEF HandlerReturns, table, workers, history
<1>8. ASSUME NEW w \in Worker, HandlerRaises(w) PROVE Hold'
  BY <1>8 DEF HandlerRaises, table, workers, history
<1>9. ASSUME NEW w \in Worker, MarkSucceeded(w) PROVE Hold'
  BY <1>9 DEF MarkSucceeded, Settle, table, workers, history
<1>10. ASSUME NEW w \in Worker, MarkSucceededRaises(w) PROVE Hold'
  BY <1>10 DEF MarkSucceededRaises, table, workers, history
<1>11. ASSUME NEW w \in Worker, MarkFailed(w) PROVE Hold'
  BY <1>11 DEF MarkFailed, Settle, table, workers, history
<1>12. ASSUME NEW w \in Worker, Crash(w) PROVE Hold'
  BY <1>12 DEF Crash, table, workers, history
<1>13. ASSUME NEW r \in Row, BackoffElapses(r) PROVE Hold'
  BY <1>13 DEF BackoffElapses, table, workers, history
<1>14. ASSUME NEW r \in Row, RetryEvent(r) PROVE Hold'
  BY <1>14 DEF RetryEvent, table, workers, history
<1>15. ASSUME NEW r \in Row, SkipEvent(r) PROVE Hold'
  BY <1>15 DEF SkipEvent, Present, table, workers, history
<1>16. CASE ReplaySelect
  BY <1>16 DEF ReplaySelect, Present, table, workers, history
<1>17. CASE ReplayCopy
  BY <1>17 DEF ReplayCopy, Insert, table, workers, history
<1>18. CASE UNCHANGED vars
  BY <1>18 DEF vars, table, workers, history
<1>19. QED
  BY NextCases, <1>1, <1>2, <1>3, <1>4, <1>5, <1>6, <1>7, <1>8, <1>9, <1>10, <1>11, <1>12, <1>13, <1>14, <1>15, <1>16, <1>17, <1>18

\* The budget of a row survives every step.
LEMMA BudgetInvariance == TypeOK /\ Hold /\ Budget /\ [Next]_vars => Budget'
<1> SUFFICES ASSUME TypeOK, Hold, Budget, [Next]_vars
             PROVE  Budget'
  OBVIOUS
<1> USE DEF TypeOK, Hold, ClaimExclusive, HeldOpen, BatchApart, Held, Budget
<1>1. ASSUME NEW p \in Producer, EnqueueInsert(p) PROVE Budget'
  BY <1>1 DEF EnqueueInsert, Insert, table, workers, history
<1>2. ASSUME NEW p \in Producer, EnqueueUnkeyed(p) PROVE Budget'
  BY <1>2 DEF EnqueueUnkeyed, Insert, table, workers, history
<1>3. ASSUME NEW p \in Producer, NEW k \in Key, EnqueueLookup(p, k)
      PROVE Budget'
  BY <1>3 DEF EnqueueLookup, table, workers, history
<1>4. ASSUME NEW w \in Worker, ClaimDueEvents(w) PROVE Budget'
  <2>1. PICK S \in SUBSET Claimable :
          /\ status' = [r \in Row |-> IF r \in S THEN "processing" ELSE status[r]]
          /\ batch' = [batch EXCEPT ![w] = S]
          /\ seen' = [seen EXCEPT ![w] =
                        [r \in Row |-> IF r \in S THEN attempts[r] ELSE 0]]
    BY <1>4, ClaimFacts
  <2>2. /\ batch[w] = {} /\ current[w] = NoRow
        /\ UNCHANGED <<attempts, current, dispatches, retried>>
    BY <1>4 DEF ClaimDueEvents, Idle, history
  <2>3. S \subseteq Row /\ \A r \in S : status[r] \in {"pending", "failed"}
    BY DEF Claimable
  <2>4. Held(w)' = S /\ \A v \in Worker \ {w} : Held(v)' = Held(v)
    BY <2>1, <2>2, OutboxAssumption
  <2>5. \A v \in Worker \ {w} : batch'[v] = batch[v]
    BY <2>1
  <2>6. batch'[w] = S
    BY <2>1
  <2>7. ASSUME NEW r \in Row
        PROVE  /\ status'[r] \in {"pending", "failed", "dead", "absent"}
                    => status'[r] = status[r]
               /\ r \in S => status[r] \in {"pending", "failed"}
    BY <2>1, <2>3
  <2>8. ASSUME NEW r \in Row, NEW v \in Worker
        PROVE  /\ r \in batch'[v] => dispatches[r] <= attempts[r]
               /\ r \in Held(v)' => attempts[r] < MaxAttempts + retried[r]
    <3>1. CASE v = w
      BY <3>1, <2>4, <2>6, <2>7
    <3>2. CASE v # w
      BY <3>2, <2>4, <2>5
    <3> QED
      BY <3>1, <3>2
  <2>9. ASSUME NEW r \in Row
        PROVE  /\ status'[r] = "absent" => dispatches[r] = 0 /\ attempts[r] = 0
               /\ status'[r] \in {"pending", "failed", "dead"}
                    => dispatches[r] <= attempts[r]
               /\ status'[r] \in {"pending", "failed"}
                    => attempts[r] < MaxAttempts + retried[r]
    BY <2>7
  <2> HIDE DEF Held
  <2> QED
    BY <2>2, <2>8, <2>9
<1>5. ASSUME NEW w \in Worker, Dispatch(w) PROVE Budget'
  <2>1. PICK r \in batch[w] :
          /\ batch' = [batch EXCEPT ![w] = @ \ {r}]
          /\ current' = [current EXCEPT ![w] = r]
          /\ dispatches' = [dispatches EXCEPT ![r] = @ + 1]
    BY <1>5 DEF Dispatch
  <2>2. UNCHANGED <<status, attempts, retried>> /\ current[w] = NoRow
    BY <1>5 DEF Dispatch, table
  <2>3. r \in Row /\ r \in Held(w)
    OBVIOUS
  <2>4. \A v \in Worker : Held(v)' \subseteq Held(v) /\ batch'[v] \subseteq batch[v]
    BY <2>1, <2>2, <2>3, OutboxAssumption
  <2>5. \A v \in Worker : r \notin batch'[v]
    <3>1. \A v \in Worker \ {w} : r \notin batch[v]
      BY <2>3
    <3>2. QED
      BY <2>1, <3>1
  <2>6. /\ dispatches[r] <= attempts[r] /\ attempts[r] < MaxAttempts + retried[r]
        /\ status[r] \in {"processing", "succeeded"}
    BY <2>3
  <2>7. /\ dispatches'[r] = dispatches[r] + 1
        /\ \A q \in Row \ {r} : dispatches'[q] = dispatches[q]
    BY <2>1, <2>3
  <2> HIDE DEF Held
  <2>8. ASSUME NEW q \in Row, NEW v \in Worker
        PROVE  /\ q \in batch'[v] => dispatches'[q] <= attempts[q]
               /\ q \in Held(v)' => attempts[q] < MaxAttempts + retried[q]
    <3>1. q \in batch'[v] => q # r /\ q \in batch[v]
      BY <2>4, <2>5
    <3>2. q \in Held(v)' => q \in Held(v)
      BY <2>4
    <3>3. QED
      BY <3>1, <3>2, <2>7
  <2>9. ASSUME NEW q \in Row
        PROVE  /\ dispatches'[q] <= attempts[q] + 1
               /\ dispatches'[q] <= MaxAttempts + retried[q]
               /\ status[q] = "absent" => dispatches'[q] = 0 /\ attempts[q] = 0
               /\ status[q] \in {"pending", "failed", "dead"}
                    => dispatches'[q] <= attempts[q]
    <3>1. CASE q = r
      <4>1. /\ dispatches[r] \in Nat /\ attempts[r] \in Nat
            /\ MaxAttempts \in Nat /\ retried[r] \in Nat
        BY <2>3
      <4>2. /\ dispatches'[r] <= attempts[r] + 1
            /\ dispatches'[r] <= MaxAttempts + retried[r]
        BY <4>1, <2>6, <2>7
      <4>3. QED
        BY <3>1, <4>2, <2>6
    <3>2. CASE q # r
      BY <3>2, <2>7
    <3>3. QED
      BY <3>1, <3>2
  <2> QED
    BY <2>2, <2>8, <2>9
<1>6. ASSUME NEW w \in Worker, MarkDead(w) PROVE Budget'
  BY <1>6 DEF MarkDead, table, workers, history
<1>7. ASSUME NEW w \in Worker, HandlerReturns(w) PROVE Budget'
  BY <1>7 DEF HandlerReturns, table, workers, history
<1>8. ASSUME NEW w \in Worker, HandlerRaises(w) PROVE Budget'
  BY <1>8 DEF HandlerRaises, table, workers, history
<1>9. ASSUME NEW w \in Worker, MarkSucceeded(w) PROVE Budget'
  BY <1>9 DEF MarkSucceeded, Settle, table, workers, history
<1>10. ASSUME NEW w \in Worker, MarkSucceededRaises(w) PROVE Budget'
  BY <1>10 DEF MarkSucceededRaises, table, workers, history
<1>11. ASSUME NEW w \in Worker, MarkFailed(w) PROVE Budget'
  BY <1>11 DEF MarkFailed, Settle, table, workers, history
<1>12. ASSUME NEW w \in Worker, Crash(w) PROVE Budget'
  BY <1>12 DEF Crash, table, workers, history
<1>13. ASSUME NEW r \in Row, BackoffElapses(r) PROVE Budget'
  BY <1>13 DEF BackoffElapses, table, workers, history
<1>14. ASSUME NEW r \in Row, RetryEvent(r) PROVE Budget'
  BY <1>14 DEF RetryEvent, table, workers, history
<1>15. ASSUME NEW r \in Row, SkipEvent(r) PROVE Budget'
  BY <1>15 DEF SkipEvent, Present, table, workers, history
<1>16. CASE ReplaySelect
  BY <1>16 DEF ReplaySelect, Present, table, workers, history
<1>17. CASE ReplayCopy
  BY <1>17 DEF ReplayCopy, Insert, table, workers, history
<1>18. CASE UNCHANGED vars
  BY <1>18 DEF vars, table, workers, history
<1>19. QED
  BY NextCases, <1>1, <1>2, <1>3, <1>4, <1>5, <1>6, <1>7, <1>8, <1>9, <1>10, <1>11, <1>12, <1>13, <1>14, <1>15, <1>16, <1>17, <1>18

LEMMA InitIInv == Init => IInv
<1> SUFFICES ASSUME Init PROVE IInv
  OBVIOUS
<1>1. TypeOK
  BY DEF Init, TypeOK
<1>2. Hold /\ Budget
  BY DEF Init, Hold, ClaimExclusive, HeldOpen, BatchApart, Held, Budget, TypeOK
<1> QED
  BY <1>1, <1>2 DEF IInv

\* The inductive invariant of the outbox.
THEOREM OutboxInvariant == Spec => []IInv
<1>1. IInv /\ [Next]_vars => IInv'
  BY TypeInvariance, HoldInvariance, BudgetInvariance DEF IInv
<1>2. QED
  BY InitIInv, <1>1, PTL DEF Spec

\* Every column and register keeps its domain.
THEOREM OutboxTypeCorrect == Spec => []TypeOK
BY OutboxInvariant, PTL DEF IInv

\* No row is ever in the hands of two workers.
THEOREM OutboxClaimExclusive == Spec => []ClaimExclusive
BY OutboxInvariant, PTL DEF IInv, Hold

\* A row is dispatched at most max_attempts times plus once per manual retry.
THEOREM OutboxDispatchBudget == Spec => []DispatchBudget
<1>1. IInv => DispatchBudget
  BY DEF IInv, Budget, DispatchBudget
<1>2. QED
  BY OutboxInvariant, <1>1, PTL

\* A step that leaves the status of every succeeded row alone.
LEMMA OthersKeepSucceeded ==
  ASSUME TypeOK, [Next]_vars, \A w \in Worker : ~MarkDead(w) /\ ~MarkFailed(w)
  PROVE  \A r \in Row : status[r] = "succeeded" => status'[r] = "succeeded"
<1> DEFINE Goal == \A r \in Row : status[r] = "succeeded" => status'[r] = "succeeded"
<1> USE DEF TypeOK
<1>1. ASSUME NEW k, NEW t, Insert(k, t) PROVE Goal
  BY <1>1 DEF Insert
<1>2. ASSUME NEW p \in Producer,
             EnqueueInsert(p) \/ EnqueueUnkeyed(p) \/ \E k \in Key : EnqueueLookup(p, k)
      PROVE  Goal
  BY <1>1, <1>2 DEF EnqueueInsert, EnqueueUnkeyed, EnqueueLookup, table
<1>3. ASSUME NEW w \in Worker, ClaimDueEvents(w) PROVE Goal
  BY <1>3, ClaimFacts DEF Claimable
<1>4. ASSUME NEW w \in Worker,
             \/ Dispatch(w) \/ HandlerReturns(w) \/ HandlerRaises(w)
             \/ MarkSucceededRaises(w) \/ Crash(w)
      PROVE  Goal
  BY <1>4 DEF Dispatch, HandlerReturns, HandlerRaises, MarkSucceededRaises, Crash, table
<1>5. ASSUME NEW w \in Worker, MarkSucceeded(w) PROVE Goal
  BY <1>5 DEF MarkSucceeded, Settle
<1>6. ASSUME NEW r \in Row, BackoffElapses(r) \/ RetryEvent(r) \/ SkipEvent(r) PROVE Goal
  BY <1>6 DEF BackoffElapses, RetryEvent, SkipEvent
<1>7. CASE ReplaySelect \/ ReplayCopy \/ UNCHANGED vars
  BY <1>1, <1>7 DEF ReplaySelect, ReplayCopy, table, vars
<1> QED BY NextCases, <1>2, <1>3, <1>4, <1>5, <1>6, <1>7

\* No worker that claims a row, and no retry, takes it out of succeeded.
THEOREM OutboxSucceededSticks == Spec => SucceededSticks
<1>1. TypeOK /\ [Next]_vars => [LeavesSucceededHeld]_vars
  <2> SUFFICES ASSUME TypeOK, [Next]_vars PROVE LeavesSucceededHeld
    OBVIOUS
  <2>1. ASSUME NEW w \in Worker, MarkDead(w) PROVE LeavesSucceededHeld
    BY <2>1 DEF MarkDead, LeavesSucceededHeld, TypeOK
  <2>2. ASSUME NEW w \in Worker, MarkFailed(w) PROVE LeavesSucceededHeld
    BY <2>2 DEF MarkFailed, Settle, LeavesSucceededHeld, TypeOK
  <2>3. CASE \A w \in Worker : ~MarkDead(w) /\ ~MarkFailed(w)
    BY <2>3, OthersKeepSucceeded DEF LeavesSucceededHeld
  <2> QED BY <2>1, <2>2, <2>3
<1> QED BY <1>1, OutboxTypeCorrect, PTL DEF Spec, SucceededSticks

-----------------------------------------------------------------------------
(* What a crash leaves behind *)

\* Only finitely many rows were ever inserted, and a worker holds at most a batch
\* of them.
FewHeld ==
  /\ IsFiniteSet(Present)
  /\ \A w \in Worker : Cardinality(Held(w)) <= BatchSize

StrandInv == FewHeld /\ CrashStrandsABatch

\* Rows that are held or stranded are present.
LEMMA FiniteRows ==
  ASSUME TypeOK, Hold, IsFiniteSet(Present)
  PROVE  /\ IsFiniteSet(Stranded)
         /\ \A w \in Worker : IsFiniteSet(Held(w))
<1>1. Stranded \subseteq Present
  BY DEF Stranded, Present
<1>2. \A w \in Worker : Held(w) \subseteq Present
  BY DEF Hold, HeldOpen, Held, Present, TypeOK
<1> QED BY <1>1, <1>2, FS_Subset

\* A step adds one row at most.
LEMMA PresentStep ==
  ASSUME TypeOK, [Next]_vars
  PROVE  Present' \subseteq Present \/ \E r \in Row : Present' \subseteq Present \cup {r}
<1> DEFINE Goal == \/ Present' \subseteq Present
                   \/ \E r \in Row : Present' \subseteq Present \cup {r}
<1> USE DEF TypeOK, Present
<1>1. ASSUME NEW k, NEW t, Insert(k, t) PROVE Goal
  BY <1>1 DEF Insert
<1>2. CASE UNCHANGED status
  BY <1>2
<1>3. ASSUME NEW p \in Producer,
             EnqueueInsert(p) \/ EnqueueUnkeyed(p) \/ \E k \in Key : EnqueueLookup(p, k)
      PROVE  Goal
  BY <1>1, <1>2, <1>3 DEF EnqueueInsert, EnqueueUnkeyed, EnqueueLookup, table
<1>4. ASSUME NEW w \in Worker, ClaimDueEvents(w) PROVE Goal
  BY <1>4, ClaimFacts DEF Claimable
<1>5. ASSUME NEW w \in Worker,
             \/ Dispatch(w) \/ HandlerReturns(w) \/ HandlerRaises(w)
             \/ MarkSucceededRaises(w) \/ Crash(w)
      PROVE  Goal
  BY <1>2, <1>5
     DEF Dispatch, HandlerReturns, HandlerRaises, MarkSucceededRaises, Crash, table
<1>6. ASSUME NEW w \in Worker, MarkDead(w) PROVE Goal
  <2>1. PICK r \in batch[w] : status' = [status EXCEPT ![r] = "dead"]
    BY <1>6 DEF MarkDead
  <2> QED BY <2>1
<1>7. ASSUME NEW w \in Worker, MarkSucceeded(w) \/ MarkFailed(w) PROVE Goal
  BY <1>7 DEF MarkSucceeded, MarkFailed, Settle
<1>8. ASSUME NEW r \in Row, BackoffElapses(r) \/ RetryEvent(r) \/ SkipEvent(r) PROVE Goal
  BY <1>8 DEF BackoffElapses, RetryEvent, SkipEvent
<1>9. CASE ReplaySelect \/ ReplayCopy \/ UNCHANGED vars
  BY <1>1, <1>2, <1>9 DEF ReplaySelect, ReplayCopy, table, vars
<1> QED BY NextCases, <1>3, <1>4, <1>5, <1>6, <1>7, <1>8, <1>9

\* A claim fills the hands of an idle worker with one batch.
LEMMA ClaimHeld ==
  ASSUME TypeOK, NEW w \in Worker, ClaimDueEvents(w)
  PROVE  \E S \in SUBSET Row :
           /\ Held(w) = {} /\ Held(w)' = S /\ Cardinality(S) <= BatchSize
           /\ \A v \in Worker \ {w} : Held(v)' = Held(v)
           /\ status' = [r \in Row |-> IF r \in S THEN "processing" ELSE status[r]]
<1>1. PICK S \in SUBSET Claimable :
        /\ Cardinality(S) <= BatchSize
        /\ status' = [r \in Row |-> IF r \in S THEN "processing" ELSE status[r]]
        /\ batch' = [batch EXCEPT ![w] = S]
  BY Zenon DEF ClaimDueEvents
<1>2. /\ batch[w] = {} /\ current[w] = NoRow /\ current' = current
      /\ S \subseteq Row
  BY DEF ClaimDueEvents, Idle, Claimable
<1> QED BY <1>1, <1>2 DEF Held, TypeOK

\* Outside a claim no worker gets hold of a row, and a row that leaves the hands of
\* a worker that lives is not left in processing.
LEMMA OtherSteps ==
  ASSUME TypeOK, Hold, [Next]_vars, \A w \in Worker : ~ClaimDueEvents(w)
  PROVE  /\ \A w \in Worker : Held(w)' \subseteq Held(w)
         /\ \/ Stranded' \subseteq Stranded /\ crashes' = crashes
            \/ \E w \in Worker : /\ Stranded' \subseteq Stranded \cup Held(w)
                                 /\ crashes' = crashes + 1
<1> DEFINE Live == /\ \A w \in Worker : Held(w)' \subseteq Held(w)
                   /\ Stranded' \subseteq Stranded /\ crashes' = crashes
<1> USE DEF TypeOK, Stranded
<1>1. ASSUME UNCHANGED <<batch, current, crashes>>,
             \A r \in Row : status'[r] = "processing" => status[r] = "processing"
      PROVE  Live
  BY <1>1 DEF Held
<1>2. ASSUME NEW k, NEW t, Insert(k, t), UNCHANGED <<workers, history>> PROVE Live
  <2>1. \A r \in Row : status'[r] = "processing" => status[r] = "processing"
    BY <1>2 DEF Insert
  <2> QED BY <1>1, <1>2, <2>1 DEF workers, history
<1>3. ASSUME NEW p \in Producer,
             EnqueueInsert(p) \/ EnqueueUnkeyed(p) \/ \E k \in Key : EnqueueLookup(p, k)
      PROVE  Live
  BY <1>1, <1>2, <1>3
     DEF EnqueueInsert, EnqueueUnkeyed, EnqueueLookup, table, workers, history
<1>4. ASSUME NEW w \in Worker, Dispatch(w) PROVE Live
  <2>1. PICK r \in batch[w] : /\ batch' = [batch EXCEPT ![w] = @ \ {r}]
                              /\ current' = [current EXCEPT ![w] = r]
    BY <1>4 DEF Dispatch
  <2>2. current[w] = NoRow /\ UNCHANGED <<status, crashes>> /\ r \in Row
    BY <1>4 DEF Dispatch, table
  <2>3. \A v \in Worker : Held(v)' = Held(v)
    BY <2>1, <2>2 DEF Held
  <2> HIDE DEF Held
  <2> QED BY <2>2, <2>3
<1>5. ASSUME NEW w \in Worker, NEW r \in Row, status'[r] # "processing",
             \A q \in Row \ {r} : status'[q] = status[q],
             \A v \in Worker : /\ Held(v)' \subseteq Held(v)
                               /\ Held(v) \subseteq Held(v)' \cup {r},
             crashes' = crashes
      PROVE  Live
  BY <1>5
<1>6. ASSUME NEW w \in Worker, MarkDead(w) PROVE Live
  <2>1. PICK r \in batch[w] : /\ batch' = [batch EXCEPT ![w] = @ \ {r}]
                              /\ status' = [status EXCEPT ![r] = "dead"]
    BY <1>6 DEF MarkDead
  <2>2. UNCHANGED <<current, crashes>> /\ r \in Row
    BY <1>6 DEF MarkDead, history
  <2>3. \A v \in Worker : /\ Held(v)' \subseteq Held(v)
                          /\ Held(v) \subseteq Held(v)' \cup {r}
    BY <2>1, <2>2 DEF Held
  <2>4. status'[r] # "processing" /\ \A q \in Row \ {r} : status'[q] = status[q]
    BY <2>1, <2>2
  <2> QED BY <1>5, <2>2, <2>3, <2>4
<1>7. ASSUME NEW w \in Worker, MarkSucceeded(w) \/ MarkFailed(w) PROVE Live
  <2>1. /\ current[w] \in Row
        /\ current' = [current EXCEPT ![w] = NoRow] /\ UNCHANGED <<batch, crashes>>
        /\ \E s \in {"succeeded", "dead", "failed"} :
             status' = [status EXCEPT ![current[w]] = s]
    BY <1>7 DEF MarkSucceeded, MarkFailed, Settle, history
  <2>2. \A v \in Worker : /\ Held(v)' \subseteq Held(v)
                          /\ Held(v) \subseteq Held(v)' \cup {current[w]}
    BY <2>1 DEF Held
  <2>3. /\ status'[current[w]] # "processing"
        /\ \A q \in Row \ {current[w]} : status'[q] = status[q]
    BY <2>1
  <2> QED BY <1>5, <2>1, <2>2, <2>3
<1>8. ASSUME NEW w \in Worker,
             HandlerReturns(w) \/ HandlerRaises(w) \/ MarkSucceededRaises(w)
      PROVE  Live
  BY <1>1, <1>8 DEF HandlerReturns, HandlerRaises, MarkSucceededRaises, table, history
<1>9. ASSUME NEW w \in Worker, Crash(w)
      PROVE  /\ \A v \in Worker : Held(v)' \subseteq Held(v)
             /\ Stranded' \subseteq Stranded \cup Held(w) /\ crashes' = crashes + 1
  <2>1. /\ batch' = [batch EXCEPT ![w] = {}] /\ current' = [current EXCEPT ![w] = NoRow]
        /\ crashes' = crashes + 1 /\ status' = status
    BY <1>9 DEF Crash, table
  <2>2. Held(w)' = {} /\ \A v \in Worker \ {w} : Held(v)' = Held(v)
    BY <2>1 DEF Held
  <2> HIDE DEF Held, Stranded
  <2>3. ASSUME NEW r \in Stranded', r \notin Held(w) PROVE r \in Stranded
    <3>1. r \in Row /\ status[r] = "processing" /\ \A v \in Worker : r \notin Held(v)'
      BY <2>1, <2>3 DEF Stranded
    <3>2. \A v \in Worker : r \notin Held(v)
      BY <2>2, <2>3, <3>1
    <3> QED BY <3>1, <3>2 DEF Stranded
  <2> QED BY <2>1, <2>2, <2>3
<1>10. ASSUME NEW r \in Row, BackoffElapses(r) \/ RetryEvent(r) \/ SkipEvent(r) PROVE Live
  <2>1. \A q \in Row : status'[q] = "processing" => status[q] = "processing"
    BY <1>10 DEF BackoffElapses, RetryEvent, SkipEvent
  <2> QED BY <1>1, <1>10, <2>1 DEF BackoffElapses, RetryEvent, SkipEvent, workers, history
<1>11. CASE ReplaySelect \/ ReplayCopy \/ UNCHANGED vars
  BY <1>1, <1>2, <1>11 DEF ReplaySelect, ReplayCopy, table, workers, history, vars
<1> QED BY NextCases, <1>3, <1>4, <1>6, <1>7, <1>8, <1>9, <1>10, <1>11

LEMMA StrandInvariance == TypeOK /\ Hold /\ StrandInv /\ [Next]_vars => StrandInv'
<1> SUFFICES ASSUME TypeOK, Hold, StrandInv, [Next]_vars PROVE StrandInv'
  OBVIOUS
<1>0. /\ TypeOK' /\ Hold' /\ crashes \in Nat
      /\ IsFiniteSet(Present) /\ IsFiniteSet(Stranded)
      /\ \A w \in Worker : IsFiniteSet(Held(w)) /\ Cardinality(Held(w)) <= BatchSize
      /\ Cardinality(Stranded) <= crashes * BatchSize
  BY TypeInvariance, HoldInvariance, FiniteRows
     DEF StrandInv, FewHeld, CrashStrandsABatch, TypeOK
<1>1. IsFiniteSet(Present)'
  <2>1. \A r \in Row : IsFiniteSet(Present \cup {r})
    BY <1>0, FS_AddElement
  <2> QED BY <1>0, <2>1, PresentStep, FS_Subset
<1>2. CASE \E w \in Worker : ClaimDueEvents(w)
  <2>1. PICK w \in Worker : ClaimDueEvents(w)
    BY <1>2
  <2>2. PICK S \in SUBSET Row :
          /\ Held(w) = {} /\ Held(w)' = S /\ Cardinality(S) <= BatchSize
          /\ \A v \in Worker \ {w} : Held(v)' = Held(v)
          /\ status' = [r \in Row |-> IF r \in S THEN "processing" ELSE status[r]]
    BY <2>1, ClaimHeld
  <2>3. \A v \in Worker : Cardinality(Held(v)') <= BatchSize
    BY <1>0, <2>2
  <2>4. Stranded' \subseteq Stranded /\ crashes' = crashes
    BY <2>1, <2>2 DEF Stranded, ClaimDueEvents, history
  <2>5. Cardinality(Stranded') <= Cardinality(Stranded) /\ IsFiniteSet(Stranded')
    BY <1>0, <2>4, FS_Subset
  <2>6. Cardinality(Stranded') \in Nat /\ Cardinality(Stranded) \in Nat
    BY <1>0, <2>5, FS_CardinalityType
  <2>7. Cardinality(Stranded') <= crashes' * BatchSize
    BY <1>0, <2>4, <2>5, <2>6
  <2> QED BY <1>1, <2>3, <2>7 DEF StrandInv, FewHeld, CrashStrandsABatch
<1>3. CASE \A w \in Worker : ~ClaimDueEvents(w)
  <2>1. /\ \A w \in Worker : Held(w)' \subseteq Held(w)
        /\ \/ Stranded' \subseteq Stranded /\ crashes' = crashes
           \/ \E w \in Worker : /\ Stranded' \subseteq Stranded \cup Held(w)
                                /\ crashes' = crashes + 1
    BY <1>3, OtherSteps
  <2>2. ASSUME NEW w \in Worker PROVE Cardinality(Held(w)') <= BatchSize
    <3>1. /\ IsFiniteSet(Held(w)') /\ Cardinality(Held(w)') <= Cardinality(Held(w))
      BY <1>0, <2>1, FS_Subset
    <3>2. Cardinality(Held(w)') \in Nat /\ Cardinality(Held(w)) \in Nat
      BY <1>0, <3>1, FS_CardinalityType
    <3> QED BY <1>0, <3>1, <3>2
  <2>3. ASSUME NEW T, NEW n \in Nat, IsFiniteSet(T), Stranded' \subseteq T,
               Cardinality(T) <= n
        PROVE  Cardinality(Stranded') <= n
    <3>1. IsFiniteSet(Stranded') /\ Cardinality(Stranded') <= Cardinality(T)
      BY <2>3, FS_Subset
    <3>2. Cardinality(Stranded') \in Nat /\ Cardinality(T) \in Nat
      BY <2>3, <3>1, FS_CardinalityType
    <3> QED BY <2>3, <3>1, <3>2
  <2>4. CASE Stranded' \subseteq Stranded /\ crashes' = crashes
    <3>1. crashes * BatchSize \in Nat
      BY <1>0
    <3> QED BY <1>0, <1>1, <2>2, <2>3, <2>4, <3>1 DEF StrandInv, FewHeld, CrashStrandsABatch
  <2>5. ASSUME NEW w \in Worker, Stranded' \subseteq Stranded \cup Held(w),
               crashes' = crashes + 1
        PROVE  StrandInv'
    <3>1. /\ IsFiniteSet(Stranded \cup Held(w))
          /\ Cardinality(Stranded \cup Held(w))
               <= Cardinality(Stranded) + Cardinality(Held(w))
      <4>1. /\ IsFiniteSet(Stranded \cup Held(w))
            /\ Cardinality(Stranded \cup Held(w)) =
                 Cardinality(Stranded) + Cardinality(Held(w))
                   - Cardinality(Stranded \cap Held(w))
        BY <1>0, FS_Union
      <4>2. Cardinality(Stranded \cap Held(w)) = 0
        BY FS_EmptySet DEF Stranded
      <4>3. Cardinality(Stranded) \in Nat /\ Cardinality(Held(w)) \in Nat
        BY <1>0, FS_CardinalityType
      <4> QED BY <4>1, <4>2, <4>3
    <3>2. /\ Cardinality(Stranded) \in Nat /\ Cardinality(Held(w)) \in Nat
          /\ Cardinality(Stranded \cup Held(w)) \in Nat
      BY <1>0, <3>1, FS_CardinalityType
    <3>3. /\ crashes' * BatchSize = crashes * BatchSize + BatchSize
          /\ crashes' * BatchSize \in Nat /\ crashes * BatchSize \in Nat
      BY <1>0, <2>5
    <3>4. Cardinality(Stranded \cup Held(w)) <= crashes' * BatchSize
      BY <1>0, <3>1, <3>2, <3>3
    <3> QED BY <1>1, <2>2, <2>3, <2>5, <3>1, <3>3, <3>4
            DEF StrandInv, FewHeld, CrashStrandsABatch
  <2> QED BY <2>1, <2>4, <2>5
<1> QED BY <1>2, <1>3

\* Rows stay in processing without a worker only after a crash, one batch per crash,
\* whatever claims, marks, retries, skips and replays interleave.
THEOREM OutboxCrashStrandsABatch == Spec => []CrashStrandsABatch
<1>1. Init => StrandInv
  <2> SUFFICES ASSUME Init PROVE StrandInv
    OBVIOUS
  <2>1. Present = {} /\ Stranded = {} /\ crashes = 0
        /\ \A w \in Worker : Held(w) = {}
    BY DEF Init, Present, Stranded, Held
  <2>2. 0 <= BatchSize /\ 0 <= 0 * BatchSize
    OBVIOUS
  <2> QED BY <2>1, <2>2, FS_EmptySet DEF StrandInv, FewHeld, CrashStrandsABatch
<1>2. StrandInv => CrashStrandsABatch
  BY DEF StrandInv
<1>3. IInv => TypeOK /\ Hold
  BY DEF IInv
<1> QED BY <1>1, <1>2, <1>3, StrandInvariance, OutboxInvariant, PTL DEF Spec
=============================================================================
