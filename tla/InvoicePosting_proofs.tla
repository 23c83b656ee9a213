----------------------- MODULE InvoicePosting_proofs -----------------------
(***************************************************************************)
(* Theorems about InvoicePosting for any number of posters, bills, calls   *)
(* and faults.  The inductive invariant has one part per resource: who     *)
(* holds the lock, how many bills the ERP can hold, what a success means,  *)
(* and what a recorded posting fixes.                                      *)
(***************************************************************************)
EXTENDS InvoicePosting, TLAPS

\* Where a call can be.
Places == Section \cup {"idle", "resume", "walk", "post", "record", "close",
                        "settle"}

\* As long as every lock found a pool connection, a call inside the section holds it.
HolderInside ==
  "pool" \notin faults =>
    \A p \in Poster : pc[p] \in Section => lock = p

\* An adapter that looks bills up, and none of the faults so far under which
\* even that may create two.
Careful == PreCheck /\ {"pool", "lookup", "late"} \cap faults = {}

\* A call that is about to create a bill has seen none, and none appears
\* before it does.
NoBillYet ==
  Careful => /\ late = {}
             /\ \A p \in Poster : pc[p] = "create" => bills = {}
             /\ \A a, b \in bills : a = b

\* A success comes from a bill, and whoever reports it has put it on record.
Backed ==
  /\ \A p \in Poster : result[p] = "success" => bills # {}
  /\ \A p \in Poster : pc[p] = "close" => erpRef
  /\ \A p \in Poster : pc[p] = "settle" /\ result[p] = "success" => erpRef
  /\ erpRef => bills # {}

\* Only a posted item has a reference, and every posted item has one.
Recorded == Backed /\ (erpRef <=> state \in {"posted_to_erp", "closed"})

\* A drain that is under way has claimed the job, and no other drain has.
DrainOwnsJob ==
  /\ \A d \in Poster : pc[d] = "settle" => Kind[d] = "drain"
  /\ \A d \in Poster : Kind[d] = "drain" /\ pc[d] # "idle" => job = "running"
  /\ \A d, e \in Poster :
       Kind[d] = "drain" /\ Kind[e] = "drain" /\ pc[d] # "idle" /\ pc[e] # "idle"
         => d = e

\* A job that can be claimed has an attempt left.
Budget ==
  /\ job = "none" => attempts = 0
  /\ job \in {"none", "pending"} => attempts < MaxRetries
  /\ JobBudget

-----------------------------------------------------------------------------
(* The transition graph: a posted item moves on to closed only. *)

LEMMA PostedMoves ==
  /\ \A t \in {"needs_approval", "approved", "ready_to_post", "failed_post"} :
       ~ValidTransition("posted_to_erp", t) /\ ~ValidTransition("closed", t)
  /\ ~ValidTransition("closed", "posted_to_erp")
BY DEF ValidTransition, VALID_TRANSITIONS, APState

\* What a walk asks for is a state before the posting.
LEMMA WalkTargetType ==
  \A p \in Poster :
    WalkTarget(p) \in {"needs_approval", "approved", "ready_to_post", "none"}
BY DEF WalkTarget

-----------------------------------------------------------------------------
(* Types *)

LEMMA InitType == Init => TypeOK
<1> SUFFICES ASSUME Init PROVE TypeOK
  OBVIOUS
<1>1. billKey \in [Bill -> Keys \cup {<<"none">>}]
  <2>1. <<"none">> \in Keys \cup {<<"none">>}
    OBVIOUS
  <2>2. billKey = [b \in Bill |-> <<"none">>]
    BY DEF Init
  <2> QED BY <2>1, <2>2, Zenon
<1>2. /\ pc \in [Poster -> Places]
      /\ seen \in [Poster -> APState]
      /\ result \in [Poster -> Results]
  BY DEF Init, Places, APState, Results
<1>3. attempts \in Nat /\ faults \in SUBSET FaultKind /\ calls \in [Poster -> Nat]
  BY DEF Init
<1> QED BY <1>1, <1>2, <1>3, PostingAssumption
       DEF Init, TypeOK, Places, APState, JobStatus

\* One leaf per action: each writes literals of the right set.
LEMMA NextType == TypeOK /\ [Next]_vars => TypeOK'
<1> SUFFICES ASSUME TypeOK, [Next]_vars PROVE TypeOK'
  OBVIOUS
<1> USE PostingAssumption
    DEF TypeOK, Goto, Answer, Called, Fault, Release, Unlocked, CanLock, NoLock,
        Finish, Leave,
        item, erp, queue, local, count, APState, Section, JobStatus, Results
<1>0. CASE UNCHANGED vars  BY <1>0 DEF vars
<1>1. CASE Revert \/ SessionCloses  BY <1>1 DEF Revert, SessionCloses
<1>2. ASSUME NEW p \in Poster, Start(p) PROVE TypeOK'
  <2>1. CASE ApproveStart(p)  BY <2>1 DEF ApproveStart
  <2>2. CASE AutoStart(p)  BY <2>2 DEF AutoStart
  <2>3. CASE ClaimJob(p)  BY <2>3 DEF ClaimJob
  <2>4. CASE RetryStart(p)  BY <2>4 DEF RetryStart
  <2> QED BY <1>2, <2>1, <2>2, <2>3, <2>4 DEF Start
<1>3. ASSUME NEW p \in Poster, PosterStep(p) PROVE TypeOK'
  <2>1. CASE Resume(p)  BY <2>1 DEF Resume
  <2>2. CASE WalkStep(p)  BY <2>2, WalkTargetType DEF WalkStep
  <2>3. CASE WalkFails(p)  BY <2>3 DEF WalkFails
  <2>4. CASE TakeLock(p)  BY <2>4 DEF TakeLock
  <2>5. CASE LockHeld(p)  BY <2>5 DEF LockHeld
  <2>6. CASE Guard(p)  BY <2>6 DEF Guard
  <2>7. CASE PrePostValidate(p)  BY <2>7 DEF PrePostValidate
  <2>8. CASE LookupBill(p)  BY <2>8 DEF LookupBill
  <2>9. CASE CreateBill(p)
    <3>1. PostKey(p) \in Keys  BY DEF Keys
    <3>2. bills' \in SUBSET Bill /\ billKey' \in [Bill -> Keys \cup {<<"none">>}]
      BY <2>9, <3>1 DEF CreateBill, Accept
    <3>3. faults' \in SUBSET FaultKind
      BY <2>9 DEF CreateBill
    <3> QED BY <2>9, <3>2, <3>3 DEF CreateBill
  <2>10. CASE Respond(p)  BY <2>10 DEF Respond
  <2>11. CASE RecordPosted(p)  BY <2>11 DEF RecordPosted
  <2>12. CASE RecordPostedRaises(p)  BY <2>12 DEF RecordPostedRaises
  <2>13. CASE RecordFailed(p)  BY <2>13 DEF RecordFailed, EnqueueRetry
  <2>14. CASE RecordFailedRaises(p)  BY <2>14 DEF RecordFailedRaises
  <2>15. CASE Close(p)  BY <2>15 DEF Close
  <2>16. CASE SettleJob(p)  BY <2>16 DEF SettleJob
  <2> QED BY <1>3, <2>1, <2>2, <2>3, <2>4, <2>5, <2>6, <2>7, <2>8, <2>9,
             <2>10, <2>11, <2>12, <2>13, <2>14, <2>15, <2>16 DEF PosterStep
<1>4. ASSUME NEW p \in Poster, Disturb(p) PROVE TypeOK'
  <2>1. CASE LockUnavailable(p)  BY <2>1 DEF LockUnavailable
  <2>2. CASE LookupRaises(p)  BY <2>2 DEF LookupRaises
  <2>3. CASE RefuseBill(p)  BY <2>3 DEF RefuseBill
  <2>4. CASE AbandonBill(p)  BY <2>4 DEF AbandonBill
  <2>5. CASE HandleLate(p)
    <3>1. PostKey(p) \in Keys  BY DEF Keys
    <3> QED BY <2>5, <3>1 DEF HandleLate, Accept
  <2>6. CASE DrainTimeout(p)  BY <2>6 DEF DrainTimeout
  <2>7. CASE Crash(p)  BY <2>7 DEF Crash
  <2> QED BY <1>4, <2>1, <2>2, <2>3, <2>4, <2>5, <2>6, <2>7 DEF Disturb
<1> HIDE DEF TypeOK
<1> QED BY <1>0, <1>1, <1>2, <1>3, <1>4 DEF Next

\* TypeOK holds in every reachable state.
THEOREM PostingTypeCorrect == Spec => []TypeOK
<1> QED BY InitType, NextType, PTL DEF Spec
-----------------------------------------------------------------------------
(* The parts of the invariant *)

\* Only TakeLock enters the section, and every way out unlocks.
LEMMA HolderInsideStep == TypeOK /\ HolderInside /\ [Next]_vars => HolderInside'
<1> SUFFICES ASSUME TypeOK, HolderInside, [Next]_vars PROVE HolderInside'
  OBVIOUS
<1> USE PostingAssumption
    DEF TypeOK, Goto, Answer, Called, Fault, Release, Unlocked, CanLock, NoLock,
        Finish, Leave,
        item, erp, queue, local, count, Section, HolderInside
<1>0. CASE UNCHANGED vars  BY <1>0 DEF vars
<1>1. CASE Revert \/ SessionCloses  BY <1>1 DEF Revert, SessionCloses
<1>2. ASSUME NEW p \in Poster, Start(p) PROVE HolderInside'
  <2>1. CASE ApproveStart(p)  BY <2>1 DEF ApproveStart
  <2>2. CASE AutoStart(p)  BY <2>2 DEF AutoStart
  <2>3. CASE ClaimJob(p)  BY <2>3 DEF ClaimJob
  <2>4. CASE RetryStart(p)  BY <2>4 DEF RetryStart
  <2> QED BY <1>2, <2>1, <2>2, <2>3, <2>4 DEF Start
<1>3. ASSUME NEW p \in Poster, PosterStep(p) PROVE HolderInside'
  <2>1. CASE Resume(p)  BY <2>1 DEF Resume
  <2>2. CASE WalkStep(p)  BY <2>2, WalkTargetType DEF WalkStep
  <2>3. CASE WalkFails(p)  BY <2>3 DEF WalkFails
  <2>4. CASE TakeLock(p)  BY <2>4 DEF TakeLock
  <2>5. CASE LockHeld(p)  BY <2>5 DEF LockHeld
  <2>6. CASE Guard(p)  BY <2>6 DEF Guard
  <2>7. CASE PrePostValidate(p)  BY <2>7 DEF PrePostValidate
  <2>8. CASE LookupBill(p)  BY <2>8 DEF LookupBill
  <2>9. CASE CreateBill(p)  BY <2>9 DEF CreateBill, Accept
  <2>10. CASE Respond(p)  BY <2>10 DEF Respond
  <2>11. CASE RecordPosted(p)  BY <2>11 DEF RecordPosted
  <2>12. CASE RecordPostedRaises(p)  BY <2>12 DEF RecordPostedRaises
  <2>13. CASE RecordFailed(p)  BY <2>13 DEF RecordFailed
  <2>14. CASE RecordFailedRaises(p)  BY <2>14 DEF RecordFailedRaises
  <2>15. CASE Close(p)  BY <2>15 DEF Close
  <2>16. CASE SettleJob(p)  BY <2>16 DEF SettleJob
  <2> QED BY <1>3, <2>1, <2>2, <2>3, <2>4, <2>5, <2>6, <2>7, <2>8, <2>9, <2>10, <2>11, <2>12, <2>13, <2>14, <2>15, <2>16 DEF PosterStep
<1>4. ASSUME NEW p \in Poster, Disturb(p) PROVE HolderInside'
  <2>1. CASE LockUnavailable(p)  BY <2>1 DEF LockUnavailable
  <2>2. CASE LookupRaises(p)  BY <2>2 DEF LookupRaises
  <2>3. CASE RefuseBill(p)  BY <2>3 DEF RefuseBill
  <2>4. CASE AbandonBill(p)  BY <2>4 DEF AbandonBill
  <2>5. CASE HandleLate(p)  BY <2>5 DEF HandleLate, Accept
  <2>6. CASE DrainTimeout(p)  BY <2>6 DEF DrainTimeout
  <2>7. CASE Crash(p)  BY <2>7 DEF Crash
  <2> QED BY <1>4, <2>1, <2>2, <2>3, <2>4, <2>5, <2>6, <2>7 DEF Disturb
<1> HIDE DEF HolderInside
<1> QED BY <1>0, <1>1, <1>2, <1>3, <1>4 DEF Next

\* Between the lookup and the request nobody else can create a bill: the
\* caller holds the lock.
LEMMA NoBillYetStep == TypeOK /\ HolderInside /\ NoBillYet /\ [Next]_vars => NoBillYet'
<1> SUFFICES ASSUME TypeOK, HolderInside, NoBillYet, [Next]_vars PROVE NoBillYet'
  OBVIOUS
<1> USE PostingAssumption
    DEF TypeOK, Goto, Answer, Called, Fault, Release, Finish, Leave,
        item, erp, queue, local, count, Section, HolderInside, NoBillYet, Careful
<1>0. CASE UNCHANGED vars  BY <1>0 DEF vars
<1>1. CASE Revert \/ SessionCloses  BY <1>1 DEF Revert, SessionCloses
<1>2. ASSUME NEW p \in Poster, Start(p) PROVE NoBillYet'
  <2>1. CASE ApproveStart(p)  BY <2>1 DEF ApproveStart
  <2>2. CASE AutoStart(p)  BY <2>2 DEF AutoStart
  <2>3. CASE ClaimJob(p)  BY <2>3 DEF ClaimJob
  <2>4. CASE RetryStart(p)  BY <2>4 DEF RetryStart
  <2> QED BY <1>2, <2>1, <2>2, <2>3, <2>4 DEF Start
<1>3. ASSUME NEW p \in Poster, PosterStep(p) PROVE NoBillYet'
  <2>1. CASE Resume(p)  BY <2>1 DEF Resume
  <2>2. CASE WalkStep(p)  BY <2>2, WalkTargetType DEF WalkStep
  <2>3. CASE WalkFails(p)  BY <2>3 DEF WalkFails
  <2>4. CASE TakeLock(p)  BY <2>4 DEF TakeLock
  <2>5. CASE LockHeld(p)  BY <2>5 DEF LockHeld
  <2>6. CASE Guard(p)  BY <2>6 DEF Guard
  <2>7. CASE PrePostValidate(p)  BY <2>7 DEF PrePostValidate
  <2>8. CASE LookupBill(p)  BY <2>8 DEF LookupBill
  <2>9. CASE CreateBill(p)  BY <2>9 DEF CreateBill, Accept
  <2>10. CASE Respond(p)  BY <2>10 DEF Respond
  <2>11. CASE RecordPosted(p)  BY <2>11 DEF RecordPosted
  <2>12. CASE RecordPostedRaises(p)  BY <2>12 DEF RecordPostedRaises
  <2>13. CASE RecordFailed(p)  BY <2>13 DEF RecordFailed
  <2>14. CASE RecordFailedRaises(p)  BY <2>14 DEF RecordFailedRaises
  <2>15. CASE Close(p)  BY <2>15 DEF Close
  <2>16. CASE SettleJob(p)  BY <2>16 DEF SettleJob
  <2> QED BY <1>3, <2>1, <2>2, <2>3, <2>4, <2>5, <2>6, <2>7, <2>8, <2>9, <2>10, <2>11, <2>12, <2>13, <2>14, <2>15, <2>16 DEF PosterStep
<1>4. ASSUME NEW p \in Poster, Disturb(p) PROVE NoBillYet'
  <2>1. CASE LockUnavailable(p)  BY <2>1 DEF LockUnavailable
  <2>2. CASE LookupRaises(p)  BY <2>2 DEF LookupRaises
  <2>3. CASE RefuseBill(p)  BY <2>3 DEF RefuseBill
  <2>4. CASE AbandonBill(p)  BY <2>4 DEF AbandonBill
  <2>5. CASE HandleLate(p)  BY <2>5 DEF HandleLate, Accept
  <2>6. CASE DrainTimeout(p)  BY <2>6 DEF DrainTimeout
  <2>7. CASE Crash(p)  BY <2>7 DEF Crash
  <2> QED BY <1>4, <2>1, <2>2, <2>3, <2>4, <2>5, <2>6, <2>7 DEF Disturb
<1> HIDE DEF HolderInside, NoBillYet
<1> QED BY <1>0, <1>1, <1>2, <1>3, <1>4 DEF Next

\* Successes follow a bill, and a recorded posting is never taken back.
LEMMA BackedStep == TypeOK /\ Backed /\ [Next]_vars => Backed'
<1> SUFFICES ASSUME TypeOK, Backed, [Next]_vars PROVE Backed'
  OBVIOUS
<1> USE PostingAssumption
    DEF TypeOK, Goto, Answer, Called, Fault, Release, Finish, Leave,
        item, erp, queue, local, count, Section, Backed, CanMove
<1>0. CASE UNCHANGED vars  BY <1>0 DEF vars
<1>1. CASE Revert \/ SessionCloses  BY <1>1 DEF Revert, SessionCloses
<1>2. ASSUME NEW p \in Poster, Start(p) PROVE Backed'
  <2>1. CASE ApproveStart(p)  BY <2>1 DEF ApproveStart
  <2>2. CASE AutoStart(p)  BY <2>2 DEF AutoStart
  <2>3. CASE ClaimJob(p)  BY <2>3 DEF ClaimJob
  <2>4. CASE RetryStart(p)  BY <2>4 DEF RetryStart
  <2> QED BY <1>2, <2>1, <2>2, <2>3, <2>4 DEF Start
<1>3. ASSUME NEW p \in Poster, PosterStep(p) PROVE Backed'
  <2>1. CASE Resume(p)  BY <2>1 DEF Resume
  <2>2. CASE WalkStep(p)  BY <2>2 DEF WalkStep
  <2>3. CASE WalkFails(p)  BY <2>3 DEF WalkFails
  <2>4. CASE TakeLock(p)  BY <2>4 DEF TakeLock
  <2>5. CASE LockHeld(p)  BY <2>5 DEF LockHeld
  <2>6. CASE Guard(p)  BY <2>6 DEF Guard
  <2>7. CASE PrePostValidate(p)  BY <2>7 DEF PrePostValidate
  <2>8. CASE LookupBill(p)  BY <2>8 DEF LookupBill
  <2>9. CASE CreateBill(p)  BY <2>9 DEF CreateBill, Accept, Replayed
  <2>10. CASE Respond(p)  BY <2>10 DEF Respond
  <2>11. CASE RecordPosted(p)  BY <2>11 DEF RecordPosted
  <2>12. CASE RecordPostedRaises(p)  BY <2>12 DEF RecordPostedRaises
  <2>13. CASE RecordFailed(p)  BY <2>13 DEF RecordFailed
  <2>14. CASE RecordFailedRaises(p)  BY <2>14 DEF RecordFailedRaises
  <2>15. CASE Close(p)  BY <2>15 DEF Close
  <2>16. CASE SettleJob(p)  BY <2>16 DEF SettleJob
  <2> QED BY <1>3, <2>1, <2>2, <2>3, <2>4, <2>5, <2>6, <2>7, <2>8, <2>9, <2>10, <2>11, <2>12, <2>13, <2>14, <2>15, <2>16 DEF PosterStep
<1>4. ASSUME NEW p \in Poster, Disturb(p) PROVE Backed'
  <2>1. CASE LockUnavailable(p)  BY <2>1 DEF LockUnavailable
  <2>2. CASE LookupRaises(p)  BY <2>2 DEF LookupRaises
  <2>3. CASE RefuseBill(p)  BY <2>3 DEF RefuseBill
  <2>4. CASE AbandonBill(p)  BY <2>4 DEF AbandonBill
  <2>5. CASE HandleLate(p)  BY <2>5 DEF HandleLate, Accept, Replayed
  <2>6. CASE DrainTimeout(p)  BY <2>6 DEF DrainTimeout
  <2>7. CASE Crash(p)  BY <2>7 DEF Crash
  <2> QED BY <1>4, <2>1, <2>2, <2>3, <2>4, <2>5, <2>6, <2>7 DEF Disturb
<1> HIDE DEF Backed
<1> QED BY <1>0, <1>1, <1>2, <1>3, <1>4 DEF Next

\* The graph keeps every other writer off a posted
\* item.
LEMMA RecordedStep == TypeOK /\ Recorded /\ [Next]_vars => Recorded'
<1> SUFFICES ASSUME TypeOK, Recorded, [Next]_vars PROVE Recorded'
  OBVIOUS
<1> USE PostingAssumption
    DEF TypeOK, Goto, Answer, Called, Fault, Release, Finish, Leave,
        item, erp, queue, local, count, Section, Recorded, CanMove
<1>b. Backed'  BY BackedStep
<1>0. CASE UNCHANGED vars  BY <1>b, <1>0 DEF vars
<1>1. CASE Revert \/ SessionCloses  BY <1>b, <1>1 DEF Revert, SessionCloses
<1>2. ASSUME NEW p \in Poster, Start(p) PROVE Recorded'
  <2>1. CASE ApproveStart(p)  BY <1>b, <2>1 DEF ApproveStart
  <2>2. CASE AutoStart(p)  BY <1>b, <2>2 DEF AutoStart
  <2>3. CASE ClaimJob(p)  BY <1>b, <2>3 DEF ClaimJob
  <2>4. CASE RetryStart(p)  BY <1>b, <2>4 DEF RetryStart
  <2> QED BY <1>2, <2>1, <2>2, <2>3, <2>4 DEF Start
<1>3. ASSUME NEW p \in Poster, PosterStep(p) PROVE Recorded'
  <2>1. CASE Resume(p)  BY <1>b, <2>1 DEF Resume
  <2>2. CASE WalkStep(p)  BY <1>b, <2>2, PostedMoves, WalkTargetType DEF WalkStep
  <2>3. CASE WalkFails(p)  BY <1>b, <2>3 DEF WalkFails
  <2>4. CASE TakeLock(p)  BY <1>b, <2>4 DEF TakeLock
  <2>5. CASE LockHeld(p)  BY <1>b, <2>5 DEF LockHeld
  <2>6. CASE Guard(p)  BY <1>b, <2>6 DEF Guard
  <2>7. CASE PrePostValidate(p)  BY <1>b, <2>7 DEF PrePostValidate
  <2>8. CASE LookupBill(p)  BY <1>b, <2>8 DEF LookupBill
  <2>9. CASE CreateBill(p)  BY <1>b, <2>9 DEF CreateBill, Accept, Replayed
  <2>10. CASE Respond(p)  BY <1>b, <2>10 DEF Respond
  <2>11. CASE RecordPosted(p)  BY <1>b, <2>11, PostedMoves, WalkTargetType DEF RecordPosted
  <2>12. CASE RecordPostedRaises(p)  BY <1>b, <2>12 DEF RecordPostedRaises
  <2>13. CASE RecordFailed(p)  BY <1>b, <2>13, PostedMoves, WalkTargetType DEF RecordFailed
  <2>14. CASE RecordFailedRaises(p)  BY <1>b, <2>14 DEF RecordFailedRaises
  <2>15. CASE Close(p)  BY <1>b, <2>15, PostedMoves, WalkTargetType DEF Close, Backed
  <2>16. CASE SettleJob(p)  BY <1>b, <2>16 DEF SettleJob
  <2> QED BY <1>3, <2>1, <2>2, <2>3, <2>4, <2>5, <2>6, <2>7, <2>8, <2>9, <2>10, <2>11, <2>12, <2>13, <2>14, <2>15, <2>16 DEF PosterStep
<1>4. ASSUME NEW p \in Poster, Disturb(p) PROVE Recorded'
  <2>1. CASE LockUnavailable(p)  BY <1>b, <2>1 DEF LockUnavailable
  <2>2. CASE LookupRaises(p)  BY <1>b, <2>2 DEF LookupRaises
  <2>3. CASE RefuseBill(p)  BY <1>b, <2>3 DEF RefuseBill
  <2>4. CASE AbandonBill(p)  BY <1>b, <2>4 DEF AbandonBill
  <2>5. CASE HandleLate(p)  BY <1>b, <2>5 DEF HandleLate, Accept, Replayed
  <2>6. CASE DrainTimeout(p)  BY <1>b, <2>6 DEF DrainTimeout
  <2>7. CASE Crash(p)  BY <1>b, <2>7 DEF Crash
  <2> QED BY <1>4, <2>1, <2>2, <2>3, <2>4, <2>5, <2>6, <2>7 DEF Disturb
<1> HIDE DEF Recorded
<1> QED BY <1>0, <1>1, <1>2, <1>3, <1>4 DEF Next

\* A job is claimed while it is pending; nothing makes it pending again but its
\* own settlement.
LEMMA DrainOwnsJobStep == TypeOK /\ DrainOwnsJob /\ [Next]_vars => DrainOwnsJob'
<1> SUFFICES ASSUME TypeOK, DrainOwnsJob, [Next]_vars PROVE DrainOwnsJob'
  OBVIOUS
<1> USE PostingAssumption
    DEF TypeOK, Goto, Answer, Called, Fault, Release, Finish, Leave,
        item, erp, queue, local, count, Section, DrainOwnsJob, EnqueueRetry
<1>0. CASE UNCHANGED vars  BY <1>0 DEF vars
<1>1. CASE Revert \/ SessionCloses  BY <1>1 DEF Revert, SessionCloses
<1>2. ASSUME NEW p \in Poster, Start(p) PROVE DrainOwnsJob'
  <2>1. CASE ApproveStart(p)  BY <2>1 DEF ApproveStart
  <2>2. CASE AutoStart(p)  BY <2>2 DEF AutoStart
  <2>3. CASE ClaimJob(p)  BY <2>3 DEF ClaimJob
  <2>4. CASE RetryStart(p)  BY <2>4 DEF RetryStart
  <2> QED BY <1>2, <2>1, <2>2, <2>3, <2>4 DEF Start
<1>3. ASSUME NEW p \in Poster, PosterStep(p) PROVE DrainOwnsJob'
  <2>1. CASE Resume(p)  BY <2>1 DEF Resume
  <2>2. CASE WalkStep(p)  BY <2>2 DEF WalkStep
  <2>3. CASE WalkFails(p)  BY <2>3 DEF WalkFails
  <2>4. CASE TakeLock(p)  BY <2>4 DEF TakeLock
  <2>5. CASE LockHeld(p)  BY <2>5 DEF LockHeld
  <2>6. CASE Guard(p)  BY <2>6 DEF Guard
  <2>7. CASE PrePostValidate(p)  BY <2>7 DEF PrePostValidate
  <2>8. CASE LookupBill(p)  BY <2>8 DEF LookupBill
  <2>9. CASE CreateBill(p)  BY <2>9 DEF CreateBill, Accept, Replayed
  <2>10. CASE Respond(p)  BY <2>10 DEF Respond
  <2>11. CASE RecordPosted(p)  BY <2>11 DEF RecordPosted
  <2>12. CASE RecordPostedRaises(p)  BY <2>12 DEF RecordPostedRaises
  <2>13. CASE RecordFailed(p)  BY <2>13 DEF RecordFailed
  <2>14. CASE RecordFailedRaises(p)  BY <2>14 DEF RecordFailedRaises
  <2>15. CASE Close(p)  BY <2>15 DEF Close
  <2>16. CASE SettleJob(p)  BY <2>16 DEF SettleJob
  <2> QED BY <1>3, <2>1, <2>2, <2>3, <2>4, <2>5, <2>6, <2>7, <2>8, <2>9, <2>10, <2>11, <2>12, <2>13, <2>14, <2>15, <2>16 DEF PosterStep
<1>4. ASSUME NEW p \in Poster, Disturb(p) PROVE DrainOwnsJob'
  <2>1. CASE LockUnavailable(p)  BY <2>1 DEF LockUnavailable
  <2>2. CASE LookupRaises(p)  BY <2>2 DEF LookupRaises
  <2>3. CASE RefuseBill(p)  BY <2>3 DEF RefuseBill
  <2>4. CASE AbandonBill(p)  BY <2>4 DEF AbandonBill
  <2>5. CASE HandleLate(p)  BY <2>5 DEF HandleLate, Accept, Replayed
  <2>6. CASE DrainTimeout(p)  BY <2>6 DEF DrainTimeout
  <2>7. CASE Crash(p)  BY <2>7 DEF Crash
  <2> QED BY <1>4, <2>1, <2>2, <2>3, <2>4, <2>5, <2>6, <2>7 DEF Disturb
<1> HIDE DEF DrainOwnsJob
<1> QED BY <1>0, <1>1, <1>2, <1>3, <1>4 DEF Next

\* A job goes back to pending only below its budget.
LEMMA BudgetStep == TypeOK /\ Budget /\ [Next]_vars => Budget'
<1> SUFFICES ASSUME TypeOK, Budget, [Next]_vars PROVE Budget'
  OBVIOUS
<1> USE PostingAssumption
    DEF TypeOK, Goto, Answer, Called, Fault, Finish, item, erp, queue,
        local, count, Budget, JobBudget, JobStatus
<1>0. CASE UNCHANGED vars  BY <1>0 DEF vars
<1>1. CASE Revert \/ SessionCloses  BY <1>1 DEF Revert, SessionCloses
<1>2. ASSUME NEW p \in Poster, Start(p) PROVE Budget'
  <2>1. CASE ApproveStart(p)  BY <2>1 DEF ApproveStart
  <2>2. CASE AutoStart(p)  BY <2>2 DEF AutoStart
  <2>3. CASE ClaimJob(p)  BY <2>3 DEF ClaimJob
  <2>4. CASE RetryStart(p)  BY <2>4 DEF RetryStart
  <2> QED BY <1>2, <2>1, <2>2, <2>3, <2>4 DEF Start
<1>3. ASSUME NEW p \in Poster, PosterStep(p) PROVE Budget'
  <2>1. CASE Resume(p)  BY <2>1 DEF Resume
  <2>2. CASE WalkStep(p)  BY <2>2 DEF WalkStep
  <2>3. CASE WalkFails(p)  BY <2>3 DEF WalkFails
  <2>4. CASE TakeLock(p)  BY <2>4 DEF TakeLock
  <2>5. CASE LockHeld(p)  BY <2>5 DEF LockHeld
  <2>6. CASE Guard(p)  BY <2>6 DEF Guard
  <2>7. CASE PrePostValidate(p)  BY <2>7 DEF PrePostValidate
  <2>8. CASE LookupBill(p)  BY <2>8 DEF LookupBill
  <2>9. CASE CreateBill(p)  BY <2>9 DEF CreateBill
  <2>10. CASE Respond(p)  BY <2>10 DEF Respond
  <2>11. CASE RecordPosted(p)  BY <2>11 DEF RecordPosted
  <2>12. CASE RecordPostedRaises(p)  BY <2>12 DEF RecordPostedRaises
  <2>13. CASE RecordFailed(p)  BY <2>13 DEF RecordFailed, EnqueueRetry
  <2>14. CASE RecordFailedRaises(p)  BY <2>14 DEF RecordFailedRaises
  <2>15. CASE Close(p)  BY <2>15 DEF Close
  <2>16. CASE SettleJob(p)  BY <2>16 DEF SettleJob
  <2> QED BY <1>3, <2>1, <2>2, <2>3, <2>4, <2>5, <2>6, <2>7, <2>8, <2>9, <2>10, <2>11, <2>12, <2>13, <2>14, <2>15, <2>16 DEF PosterStep
<1>4. ASSUME NEW p \in Poster, Disturb(p) PROVE Budget'
  <2>1. CASE LockUnavailable(p)  BY <2>1 DEF LockUnavailable
  <2>2. CASE LookupRaises(p)  BY <2>2 DEF LookupRaises
  <2>3. CASE RefuseBill(p)  BY <2>3 DEF RefuseBill
  <2>4. CASE AbandonBill(p)  BY <2>4 DEF AbandonBill
  <2>5. CASE HandleLate(p)  BY <2>5 DEF HandleLate
  <2>6. CASE DrainTimeout(p)  BY <2>6 DEF DrainTimeout
  <2>7. CASE Crash(p)  BY <2>7 DEF Crash
  <2> QED BY <1>4, <2>1, <2>2, <2>3, <2>4, <2>5, <2>6, <2>7 DEF Disturb
<1> HIDE DEF Budget
<1> QED BY <1>0, <1>1, <1>2, <1>3, <1>4 DEF Next

-----------------------------------------------------------------------------
(* Theorems *)

\* The inductive invariant of the posting protocol.
PostingInvariant ==
  TypeOK /\ HolderInside /\ NoBillYet /\ Recorded /\ Budget /\ DrainOwnsJob

\* It holds in every reachable state, whatever callers, drains and faults do.
THEOREM PostingInvariantHolds == Spec => []PostingInvariant
<1>1. Init => PostingInvariant
  <2>1. Init => TypeOK  BY InitType
  <2>2. Init => HolderInside /\ NoBillYet
    BY DEF Init, HolderInside, NoBillYet, Section
  <2>3. Init => Recorded /\ Budget /\ DrainOwnsJob
    BY PostingAssumption DEF Init, Recorded, Backed, Budget, JobBudget, DrainOwnsJob
  <2> QED BY <2>1, <2>2, <2>3 DEF PostingInvariant
<1>2. PostingInvariant /\ [Next]_vars => PostingInvariant'
  BY NextType, HolderInsideStep, NoBillYetStep, RecordedStep, BudgetStep,
     DrainOwnsJobStep DEF PostingInvariant
<1> QED BY <1>1, <1>2, PTL DEF Spec

\* While every lock found a connection, two calls are never between the lock and the
\* unlock of _post_to_erp.
THEOREM PostingMutualExclusion == Spec => []OnePosterInside
<1>1. PostingInvariant => OnePosterInside
  BY DEF PostingInvariant, HolderInside, OnePosterInside
<1> QED BY <1>1, PostingInvariantHolds, PTL

\* An adapter that looks the bill up never creates a second one, whatever the
\* number of posters, lost answers, crashes, cancelled resumes and reverts.
THEOREM PostingAtMostOneBill ==
  ASSUME PreCheck PROVE Spec => []AtMostOneBill
<1>1. PostingInvariant => AtMostOneBill
  BY DEF PostingInvariant, NoBillYet, Careful, AtMostOneBill
<1> QED BY <1>1, PostingInvariantHolds, PTL

\* An item that says it was posted has a bill behind it, under every fault.
THEOREM PostingIsReal == Spec => []PostedIsReal
<1>1. PostingInvariant => PostedIsReal
  BY DEF PostingInvariant, Recorded, Backed, PostedIsReal
<1> QED BY <1>1, PostingInvariantHolds, PTL

\* No step of any poster takes a recorded posting back.
THEOREM PostingSticks == Spec => PostedSticks
<1>1. PostingInvariant /\ PostingInvariant' /\ [Next]_vars
        => [erpRef => erpRef' /\ state' \in {"posted_to_erp", "closed"}]_vars
  <2> SUFFICES ASSUME PostingInvariant, PostingInvariant', [Next]_vars, erpRef
               PROVE  erpRef'
    BY DEF PostingInvariant, Recorded
  <2> QED
    BY DEF Next, vars, item, Revert, Start, PosterStep, Disturb, ApproveStart,
           AutoStart, ClaimJob, RetryStart, Resume, WalkStep, WalkFails,
           TakeLock, LockHeld, Guard, PrePostValidate, LookupBill, CreateBill,
           Respond, RecordPosted, RecordPostedRaises, RecordFailed,
           RecordFailedRaises, Close, SettleJob, LockUnavailable,
           LookupRaises, RefuseBill, AbandonBill, HandleLate, DrainTimeout,
           Crash, SessionCloses
<1> QED BY <1>1, PostingInvariantHolds, PTL DEF Spec, PostedSticks

\* A retry job is never tried more often than max_retries.
THEOREM PostingJobBudget == Spec => []JobBudget
<1>1. PostingInvariant => JobBudget
  BY DEF PostingInvariant, Budget
<1> QED BY <1>1, PostingInvariantHolds, PTL
-----------------------------------------------------------------------------
(* Approval *)

\* Where a call can be that has released nothing: a resume that finds nothing to
\* resume, or a drain that settles its job after that.
Waiting == {"idle", "resume", "settle"}

\* Until somebody releases the item, it is where only an approval leads on from.
HeldBack ==
  ~Released => /\ state \in {"validated", "needs_approval"}
               /\ bills = {} /\ late = {}
               /\ \A p \in Poster : pc[p] \in Waiting

\* A call that does not release the item goes on waiting and touches nothing.
LEMMA HeldBackCall ==
  ASSUME TypeOK, NEW p \in Poster, pc[p] \in Waiting, late = {}, ~Released',
         state \notin {"failed_post", "ready_to_post"},
         Start(p) \/ PosterStep(p) \/ Disturb(p)
  PROVE  /\ UNCHANGED <<state, bills, late>>
         /\ \A q \in Poster : pc'[q] = pc[q] \/ pc'[q] \in Waiting
<1> USE DEF TypeOK, Waiting, Goto, Finish, item, erp, queue, local, count
<1>1. CASE Start(p)
  <2>1. ~ApproveStart(p)  BY DEF ApproveStart, Released
  <2>2. ~AutoStart(p)     BY DEF AutoStart, Called, Released
  <2> QED BY <1>1, <2>1, <2>2 DEF Start, ClaimJob, RetryStart
<1>2. CASE PosterStep(p)
  BY <1>2 DEF PosterStep, Resume, WalkStep, WalkFails, TakeLock, LockHeld, Guard,
     PrePostValidate, LookupBill, CreateBill, Respond, RecordPosted,
     RecordPostedRaises, RecordFailed, RecordFailedRaises, Close, SettleJob
<1>3. CASE Disturb(p)
  BY <1>3 DEF Disturb, LockUnavailable, LookupRaises, RefuseBill, AbandonBill,
     HandleLate, DrainTimeout, Crash, Section
<1> QED BY <1>1, <1>2, <1>3

\* A release is never forgotten: decision keys stay claimed, calls are counted.
LEMMA ReleasedStays == TypeOK /\ Released /\ [Next]_vars => Released'
<1> SUFFICES ASSUME TypeOK, [Next]_vars
             PROVE  /\ claimed \subseteq claimed'
                    /\ \A q \in Poster : calls[q] > 0 => calls'[q] > 0
  BY DEF Released
<1> USE DEF TypeOK, Called, count
<1>1. CASE UNCHANGED vars \/ Revert \/ SessionCloses
  BY <1>1 DEF vars, Revert, SessionCloses
<1>2. ASSUME NEW p \in Poster, Start(p)
      PROVE  /\ claimed \subseteq claimed'
             /\ \A q \in Poster : calls[q] > 0 => calls'[q] > 0
  BY <1>2 DEF Start, ApproveStart, AutoStart, ClaimJob, RetryStart
<1>3. ASSUME NEW p \in Poster, PosterStep(p) \/ Disturb(p)
      PROVE  UNCHANGED <<claimed, calls>>
  BY <1>3 DEF PosterStep, Resume, WalkStep, WalkFails, TakeLock, LockHeld, Guard,
     PrePostValidate, LookupBill, CreateBill, Respond, RecordPosted,
     RecordPostedRaises, RecordFailed, RecordFailedRaises, Close, SettleJob, Disturb,
     LockUnavailable, LookupRaises, RefuseBill, AbandonBill, HandleLate,
     DrainTimeout, Crash
<1> QED BY <1>1, <1>2, <1>3 DEF Next

\* No resume, drain or retry posts what nobody approved, for any number of them
\* and under every fault.
THEOREM PostingNeedsApproval == Spec => []BillsNeedApproval
<1>1. Init => HeldBack
  BY DEF Init, HeldBack, Waiting
<1>2. TypeOK /\ HeldBack /\ [Next]_vars => HeldBack'
  <2> SUFFICES ASSUME TypeOK, HeldBack, [Next]_vars, ~Released' PROVE HeldBack'
    BY DEF HeldBack
  <2>1. ~Released  BY ReleasedStays
  <2>2. CASE UNCHANGED vars
    BY <2>1, <2>2 DEF HeldBack, vars, item, erp, local
  <2>3. CASE Revert \/ SessionCloses
    BY <2>1, <2>3 DEF HeldBack, Revert, SessionCloses, item, erp, local
  <2>4. ASSUME NEW p \in Poster, Start(p) \/ PosterStep(p) \/ Disturb(p) PROVE HeldBack'
    BY <2>1, <2>4, HeldBackCall DEF HeldBack
  <2> QED BY <2>2, <2>3, <2>4 DEF Next
<1>3. HeldBack => BillsNeedApproval
  BY DEF HeldBack, BillsNeedApproval
<1> QED BY <1>1, <1>2, <1>3, PostingTypeCorrect, PTL DEF Spec

-----------------------------------------------------------------------------
(* Refinement: the protocol implements PostOnce. *)

\* Only these steps change what PostOnce sees.
Seen(p) ==
  \/ ClaimJob(p) \/ CreateBill(p) \/ HandleLate(p) \/ RecordPosted(p)
  \/ RecordFailed(p) \/ SettleJob(p)

\* What a state of the item before or after the posting means to PostOnce.
OnRecord == state \in {"posted_to_erp", "closed"}

\* Every other step of a poster leaves bills, record and job alone; it may be the
\* fault that excuses a second bill.
LEMMA OthersOnlyExcuse ==
  ASSUME PostingInvariant, NEW p \in Poster, ~Seen(p),
         Start(p) \/ PosterStep(p) \/ Disturb(p)
  PROVE  UNCHANGED <<bills, OnRecord, job, attempts>> /\ faults \subseteq faults'
<1> USE DEF Seen, OnRecord, Fault, item, erp, queue, local, count
<1>1. CASE Start(p)
  BY <1>1 DEF Start, ApproveStart, AutoStart, RetryStart
<1>2. CASE PosterStep(p)
  <2>1. CASE WalkStep(p)
    BY <2>1, PostedMoves, WalkTargetType DEF WalkStep, CanMove
  <2>2. CASE Close(p)
    BY <2>2, PostedMoves DEF Close, PostingInvariant, Recorded, Backed
  <2>3. CASE ~WalkStep(p) /\ ~Close(p)
    BY <1>2, <2>3 DEF PosterStep, Resume, WalkFails, TakeLock, LockHeld, Guard,
       PrePostValidate, LookupBill, Respond, RecordPostedRaises, RecordFailedRaises
  <2> QED BY <2>1, <2>2, <2>3
<1>3. CASE Disturb(p)
  BY <1>3 DEF Disturb, LockUnavailable, LookupRaises, RefuseBill, AbandonBill,
              DrainTimeout, Crash
<1> QED BY <1>1, <1>2, <1>3

\* A request that the ERP handles makes a bill, or repeats an answer.
LEMMA AcceptRefines ==
  ASSUME NEW p \in Poster, Accept(p), bills = {} \/ Excused,
         UNCHANGED <<OnRecord, Excused, job, attempts>>
  PROVE  Once!MakeBill \/ UNCHANGED Once!once
BY DEF Accept, OnRecord, Once!MakeBill, Once!once

\* Step by step: what the calls do to the ERP, the item and the job is what
\* PostOnce allows.
LEMMA SeenRefines ==
  ASSUME PostingInvariant, NEW p \in Poster, Seen(p)
  PROVE  Once!OnceNext \/ UNCHANGED Once!once
<1> USE DEF PostingInvariant, OnRecord, Excused, item, erp, queue, local, count
<1>1. CASE ClaimJob(p)
  BY <1>1 DEF ClaimJob, Budget, Once!Claim, Once!OnceNext
<1>2. CASE CreateBill(p)
  <2>1. bills = {} \/ Excused
    BY <1>2 DEF CreateBill, NoBillYet, Careful
  <2>2. UNCHANGED Excused
    BY <1>2 DEF CreateBill, Fault
  <2> QED BY <1>2, <2>1, <2>2, AcceptRefines DEF CreateBill, Once!OnceNext
<1>3. CASE HandleLate(p)
  <2>1. Excused
    BY <1>3 DEF HandleLate, NoBillYet, Careful
  <2> QED BY <1>3, <2>1, AcceptRefines DEF HandleLate, Once!OnceNext
<1>4. CASE RecordPosted(p)
  BY <1>4 DEF RecordPosted, Recorded, Backed, Once!Record, Once!OnceNext, Once!once
<1>5. CASE RecordFailed(p)
  <2>1. ~OnRecord /\ ~OnRecord'
    BY <1>5, PostedMoves DEF RecordFailed, CanMove
  <2> QED BY <1>5, <2>1 DEF RecordFailed, EnqueueRetry, Once!Enqueue, Once!OnceNext,
             Once!once
<1>6. CASE SettleJob(p)
  <2>1. job = "running" /\ (result[p] = "success" => OnRecord)
    BY <1>6 DEF SettleJob, DrainOwnsJob, Recorded, Backed
  <2> QED BY <1>6, <2>1 DEF SettleJob, Once!Settle, Once!OnceNext
<1> QED BY <1>1, <1>2, <1>3, <1>4, <1>5, <1>6 DEF Seen

LEMMA PostingStepRefines ==
  PostingInvariant /\ [Next]_vars => [Once!OnceNext]_(Once!once)
<1> SUFFICES ASSUME PostingInvariant, [Next]_vars
             PROVE  Once!OnceNext \/ UNCHANGED Once!once
  OBVIOUS
<1>1. ASSUME UNCHANGED <<bills, OnRecord, job, attempts>>, faults \subseteq faults'
      PROVE  Once!OnceNext \/ UNCHANGED Once!once
  BY <1>1 DEF OnRecord, Excused, Once!Excuse, Once!OnceNext, Once!once
<1>2. CASE UNCHANGED vars
  BY <1>1, <1>2 DEF vars, OnRecord, item, erp, queue, count
<1>3. CASE Revert \/ SessionCloses
  BY <1>1, <1>3, PostedMoves DEF Revert, SessionCloses, Fault, OnRecord, item, erp, queue, count
<1>4. ASSUME NEW p \in Poster, Start(p) \/ PosterStep(p) \/ Disturb(p)
      PROVE  Once!OnceNext \/ UNCHANGED Once!once
  BY <1>1, <1>4, SeenRefines, OthersOnlyExcuse
<1> QED BY <1>2, <1>3, <1>4 DEF Next

\* Any number of entry points that race, die, are cancelled and retry implement
\* PostOnce: an excused second bill at most, a record with a bill behind it that is
\* never taken back, and a retry job that says completed only when the posting is
\* on record.
THEOREM PostingImplementsPostOnce == Spec => ImplementsPostOnce
<1>1. Init => Once!OnceInit
  BY DEF Init, Once!OnceInit, Excused
<1> QED BY <1>1, PostingStepRefines, PostingInvariantHolds, PTL
        DEF Spec, ImplementsPostOnce, Once!OnceSpec

\* What PostOnce needs to keep its promise: a job that is not claimed yet was
\* claimed less often than its budget.
OnceInvariant ==
  /\ Once!BooksAgree
  /\ attempts \in Nat
  /\ job \in {"none", "pending", "running", "completed", "dead_letter"}
  /\ job = "none" => attempts = 0

\* What PostOnce promises follows from PostOnce alone.
THEOREM PostOnceKeepsBooks == Once!OnceSpec => []Once!BooksAgree
<1>1. Once!OnceInit => OnceInvariant
  BY PostingAssumption DEF Once!OnceInit, OnceInvariant, Once!BooksAgree
<1>2. OnceInvariant /\ [Once!OnceNext]_(Once!once) => OnceInvariant'
  <2> SUFFICES ASSUME OnceInvariant, [Once!OnceNext]_(Once!once)
               PROVE  OnceInvariant'
    OBVIOUS
  <2> USE PostingAssumption DEF OnceInvariant, Once!BooksAgree
  <2>1. CASE UNCHANGED Once!once  BY <2>1 DEF Once!once
  <2>2. CASE Once!MakeBill        BY <2>2 DEF Once!MakeBill
  <2>3. CASE Once!Record          BY <2>3 DEF Once!Record
  <2>4. CASE Once!Excuse          BY <2>4 DEF Once!Excuse
  <2>5. CASE Once!Enqueue         BY <2>5 DEF Once!Enqueue
  <2>6. CASE Once!Claim           BY <2>6 DEF Once!Claim
  <2>7. CASE Once!Settle          BY <2>7 DEF Once!Settle
  <2> QED BY <2>1, <2>2, <2>3, <2>4, <2>5, <2>6, <2>7 DEF Once!OnceNext
<1>3. OnceInvariant => Once!BooksAgree  BY DEF OnceInvariant
<1> QED BY <1>1, <1>2, <1>3, PTL DEF Once!OnceSpec

\* Whatever raced for the item, finance's books agree: without an excuse there is
\* one bill, a posted item has it, and a completed retry job means a posted item.
THEOREM PostingKeepsBooks == Spec => []Once!BooksAgree
BY PostingImplementsPostOnce, PostOnceKeepsBooks, PTL DEF ImplementsPostOnce
=============================================================================
