------------------------ MODULE Coordination_proofs ------------------------
(***************************************************************************)
(* Theorems about Coordination for any number of workers, events, direct   *)
(* calls and faults.  A step of the direct path, and every step of a       *)
(* worker inside _post_to_erp, is a step of InvoicePosting: what           *)
(* InvoicePosting_proofs shows of such a step is used here as it stands.   *)
(***************************************************************************)
EXTENDS Coordination, InvoicePosting_proofs

\* Where the call of a worker to _post_to_erp can be, and what a worker that
\* asked for the lock in vain comes back with.
WorkerCalls ==
  \A w \in Worker :
    /\ pc[w] \in {"idle", "post", "record"} \cup Section
    /\ pc[w] # "idle" => phase[w] = "posting"

\* While the lock works a running plan holds it, and its own post is refused.
PlanHolds ==
  NoPool =>
    \A w \in Worker :
      /\ phase[w] \in InPlan => lock = Session(w)
      /\ phase[w] # "backstop"
      /\ pc[w] = "record" => result[w] # "success"

EngineInvariant == LockIsLive /\ HolderInside /\ WorkerCalls /\ PlanHolds

-----------------------------------------------------------------------------
(* Sessions and steps *)

\* Every worker has a session of its own, which is no poster.
LEMMA SessionFacts ==
  /\ \A w \in Worker : Session(w) \notin Poster \cup {NoPoster, Pooled}
  /\ \A w, v \in Worker : Session(w) = Session(v) => w = v
<1>1. \A w \in Worker : Session(w) \in OtherHolder
  BY CoordinationAssumption DEF Sessions
<1>2. \A w \in Worker : Session(w) \notin Poster \cup {NoPoster, Pooled}
  BY <1>1, PostingAssumption
<1>3. \A w, v \in Worker : Session(w) = Session(v) => w = v
  BY DEF Session
<1> QED BY <1>2, <1>3

\* The steps of an engine that leave item, ERP, lock and calls alone.
Quiet(w) ==
  \/ LockPlanHeld(w) \/ PreWrite(w) \/ PreWriteFails(w) \/ Gate(w)
  \/ GateBlocks(w) \/ GateRaises(w) \/ Complete(w)
  \/ Simple(w) \/ Validate(w) \/ ValidateRefuses(w)

LEMMA QuietSteps == \A w \in Worker : Quiet(w) => UNCHANGED vars
BY DEF Quiet, LockPlanHeld, PreWrite, PreWriteFails, Gate, GateBlocks,
       GateRaises, Complete, Simple, Validate, ValidateRefuses

\* The steps that InvoicePosting defines are steps of InvoicePosting.
LEMMA DirectIsNext == Direct => Next
BY CoordinationAssumption DEF Direct, Caller, Next, Disturb

LEMMA PostIsNext == \A w \in Worker : PostToErp(w) => Next
BY CoordinationAssumption DEF PostToErp, Next, PosterStep, Disturb

\* No poster touches the lock of another session.
LEMMA SessionsUntouched ==
  ASSUME TypeOK, Next, NEW s \in OtherHolder
  PROVE  lock = s <=> lock' = s
<1> USE PostingAssumption
    DEF Release, Unlocked, CanLock, NoLock, Leave, TypeOK, erp, queue, local, count, item
<1>1. CASE Revert \/ SessionCloses  BY <1>1 DEF Revert, SessionCloses
<1>2. ASSUME NEW p \in Poster, Start(p) PROVE lock = s <=> lock' = s
  BY <1>2 DEF Start, ApproveStart, AutoStart, ClaimJob, RetryStart
<1>3. ASSUME NEW p \in Poster, PosterStep(p) PROVE lock = s <=> lock' = s
  <2>1. CASE Resume(p) \/ WalkStep(p) \/ WalkFails(p) \/ TakeLock(p) \/ LockHeld(p)
    BY <2>1 DEF Resume, WalkStep, WalkFails, TakeLock, LockHeld
  <2>2. CASE Guard(p) \/ PrePostValidate(p) \/ LookupBill(p)
    BY <2>2 DEF Guard, PrePostValidate, LookupBill
  <2>3. CASE CreateBill(p) \/ Respond(p)
    BY <2>3 DEF CreateBill, Respond
  <2>4. CASE RecordPosted(p) \/ RecordPostedRaises(p) \/ RecordFailed(p)
             \/ RecordFailedRaises(p) \/ Close(p) \/ SettleJob(p)
    BY <2>4 DEF RecordPosted, RecordPostedRaises, RecordFailed,
                RecordFailedRaises, Close, SettleJob
  <2> QED BY <1>3, <2>1, <2>2, <2>3, <2>4 DEF PosterStep
<1>4. ASSUME NEW p \in Poster, Disturb(p) PROVE lock = s <=> lock' = s
  BY <1>4 DEF Disturb, LockUnavailable, LookupRaises, RefuseBill, AbandonBill,
              HandleLate, DrainTimeout, Crash
<1> QED BY <1>1, <1>2, <1>3, <1>4 DEF Next

\* Faults are never forgotten.
LEMMA FaultsGrow == ASSUME TypeOK, Next PROVE faults \subseteq faults'
<1> USE DEF Fault, item, erp, queue, local, count
<1>1. CASE Revert \/ SessionCloses  BY <1>1 DEF Revert, SessionCloses
<1>2. ASSUME NEW p \in Poster, Start(p) PROVE faults \subseteq faults'
  BY <1>2 DEF Start, ApproveStart, AutoStart, ClaimJob, RetryStart
<1>3. ASSUME NEW p \in Poster, PosterStep(p) PROVE faults \subseteq faults'
  BY <1>3 DEF PosterStep, Resume, WalkStep, WalkFails, TakeLock, LockHeld, Guard,
       PrePostValidate, LookupBill, CreateBill, Respond, RecordPosted,
       RecordPostedRaises, RecordFailed, RecordFailedRaises, Close, SettleJob
<1>4. ASSUME NEW p \in Poster, Disturb(p) PROVE faults \subseteq faults'
  BY <1>4 DEF Disturb, LockUnavailable, LookupRaises, RefuseBill, AbandonBill,
              HandleLate, DrainTimeout, Crash
<1> QED BY <1>1, <1>2, <1>3, <1>4 DEF Next

\* A step of one poster leaves the calls of all others where they are.
LEMMA OthersUntouched ==
  ASSUME TypeOK, NEW p \in Poster, NEW q \in Poster, p # q,
         Start(p) \/ PosterStep(p) \/ Disturb(p)
  PROVE  pc'[q] = pc[q] /\ result'[q] = result[q]
<1> USE DEF TypeOK, Goto, Answer, Leave, Finish, item, erp, queue, local, count
<1>1. CASE Start(p)
  BY <1>1 DEF Start, ApproveStart, AutoStart, ClaimJob, RetryStart
<1>2. CASE PosterStep(p)
  <2>1. CASE Resume(p) \/ WalkStep(p) \/ WalkFails(p) \/ TakeLock(p) \/ LockHeld(p)
    BY <2>1 DEF Resume, WalkStep, WalkFails, TakeLock, LockHeld
  <2>2. CASE Guard(p) \/ PrePostValidate(p) \/ LookupBill(p)
    BY <2>2 DEF Guard, PrePostValidate, LookupBill
  <2>3. CASE CreateBill(p) \/ Respond(p)
    BY <2>3 DEF CreateBill, Respond
  <2>4. CASE RecordPosted(p) \/ RecordPostedRaises(p) \/ RecordFailed(p)
             \/ RecordFailedRaises(p) \/ Close(p) \/ SettleJob(p)
    BY <2>4 DEF RecordPosted, RecordPostedRaises, RecordFailed,
                RecordFailedRaises, Close, SettleJob
  <2> QED BY <1>2, <2>1, <2>2, <2>3, <2>4 DEF PosterStep
<1>3. CASE Disturb(p)
  BY <1>3 DEF Disturb, LockUnavailable, LookupRaises, RefuseBill, AbandonBill,
              HandleLate, DrainTimeout, Crash
<1> QED BY <1>1, <1>2, <1>3

-----------------------------------------------------------------------------
(* Types *)

\* A legal move ends in a state.
LEMMA TargetIsState ==
  ASSUME NEW s \in APState, NEW t, ValidTransition(s, t)
  PROVE  t \in APState
BY DEF ValidTransition, VALID_TRANSITIONS, APState

LEMMA CInitType == CInit => CTypeOK
<1> SUFFICES ASSUME CInit PROVE CTypeOK
  OBVIOUS
<1>1. TypeOK  BY InitType DEF CInit
<1>2. step \in [Worker -> Nat \ {0}]  BY DEF CInit
<1> QED BY <1>1, <1>2 DEF CInit, CTypeOK, Phases, Outcomes

\* Steps that are not the engine's change none of its variables.
LEMMA CNextType == CTypeOK /\ [CNext]_cvars => CTypeOK'
<1> SUFFICES ASSUME CTypeOK, [CNext]_cvars PROVE CTypeOK'
  OBVIOUS
<1>1. CASE UNCHANGED cvars
  <2>1. UNCHANGED vars  BY <1>1 DEF cvars
  <2>2. TypeOK'  BY <2>1, NextType DEF CTypeOK
  <2> QED BY <1>1, <2>2 DEF CTypeOK, cvars, plans, intake, engine, trace
<1>2. CASE Direct /\ UNCHANGED plans
  <2>1. TypeOK'  BY <1>2, DirectIsNext, NextType DEF CTypeOK
  <2> QED BY <1>2, <2>1 DEF CTypeOK, plans, intake, engine, trace
<1>3. ASSUME NEW e \in Event, Enqueue(e) \/ Redeliver(e) PROVE CTypeOK'
  <2>1. TypeOK'  BY <1>3, NextType DEF CTypeOK, Enqueue, Redeliver
  <2> QED BY <1>3, <2>1 DEF CTypeOK, Enqueue, Redeliver, engine, trace
<1>4. ASSUME NEW w \in Worker, NEW e \in Event, Take(w, e) PROVE CTypeOK'
  <2>1. TypeOK'  BY <1>4, NextType DEF CTypeOK, Take
  <2> QED BY <1>4, <2>1 DEF CTypeOK, Take, trace, To, Phases
<1>5. ASSUME NEW w \in Worker, WorkerStep(w) \/ WorkerTrouble(w) PROVE CTypeOK'
  <2> USE DEF CTypeOK, At, To, Stay, Ended, NextAction, Trouble, Phases, Outcomes,
              intake, engine, trace, plans
  <2>w. w \in Poster  BY CoordinationAssumption
  <2>1. CASE LockPlan(w)
    <3>1. Session(w) \in OtherHolder  BY CoordinationAssumption DEF Sessions
    <3>2. TypeOK'  BY <2>1, <3>1 DEF LockPlan, TypeOK, item, erp, local, queue, count
    <3> QED BY <2>1, <3>2 DEF LockPlan
  <2>1n. CASE LockPlanUnavailable(w)
    <3>1. TypeOK'
      BY <2>1n DEF LockPlanUnavailable, NoLock, TypeOK, item, erp, local, queue, count
    <3> QED BY <2>1n, <3>1 DEF LockPlanUnavailable
  <2>2. CASE Quiet(w)
    <3>1. TypeOK'  BY <2>2, QuietSteps, NextType DEF CTypeOK
    <3>2. CASE LockPlanHeld(w) \/ PreWriteFails(w) \/ Gate(w)
      BY <3>1, <3>2 DEF LockPlanHeld, PreWriteFails, Gate
    <3>3. CASE GateBlocks(w) \/ GateRaises(w) \/ Complete(w)
      BY <3>1, <3>3 DEF GateBlocks, GateRaises, Complete
    <3>4. CASE Simple(w) \/ Validate(w) \/ ValidateRefuses(w)
      BY <3>1, <3>4 DEF Simple, Validate, ValidateRefuses
    <3>5. CASE PreWrite(w)
      <4>1. hand[w] \in Event /\ step[w] \in Nat  BY <3>5 DEF PreWrite
      <4>2. rows' \in SUBSET (Event \X Nat)  BY <3>5, <4>1 DEF PreWrite
      <4> QED BY <3>1, <3>5, <4>2 DEF PreWrite, Granted
    <3> QED BY <2>2, <3>2, <3>3, <3>4, <3>5 DEF Quiet
  <2>3. CASE ActionFails(w)
    <3>1. state' \in APState
      BY <2>3, TargetIsState DEF ActionFails, TypeOK
    <3>2. TypeOK'  BY <2>3, <3>1 DEF ActionFails, TypeOK, erp, local, queue, count
    <3> QED BY <2>3, <3>2 DEF ActionFails
  <2>4. CASE MoveBoxStage(w)
    <3>1. state' \in APState
      BY <2>4, TargetIsState DEF MoveBoxStage, TypeOK
    <3>2. TypeOK'  BY <2>4, <3>1 DEF MoveBoxStage, TypeOK, erp, local, queue, count
    <3> QED BY <2>4, <3>2 DEF MoveBoxStage
  <2>5. CASE MoveToException(w)
    <3>1. state' \in APState
      BY <2>5 DEF MoveToException, TypeOK, APState
    <3>2. TypeOK'  BY <2>5, <3>1 DEF MoveToException, TypeOK, erp, local, queue, count
    <3> QED BY <2>5, <3>2 DEF MoveToException
  <2>6. CASE PostBill(w)
    <3>1. TypeOK'
      BY <2>6, <2>w DEF PostBill, TypeOK, Goto, item, erp, queue, count, Section
    <3> QED BY <2>6, <3>1 DEF PostBill
  <2>7. CASE Posting(w)
    <3>1. TypeOK'  BY <2>7, PostIsNext, NextType DEF Posting
    <3> QED BY <2>7, <3>1 DEF Posting
  <2>8. CASE PostReturns(w)
    <3>1. TypeOK'
      BY <2>8, <2>w DEF PostReturns, TypeOK, Goto, item, erp, queue, count
    <3> QED BY <2>8, <3>1 DEF PostReturns
  <2>9. CASE WriteReference(w)
    <3>1. TypeOK'
      BY <2>9 DEF WriteReference, TypeOK, erp, local, queue, count
    <3> QED BY <2>9, <3>1 DEF WriteReference
  <2>10. CASE LeavePlan(w)
    <3>1. TypeOK'
      BY <2>10 DEF LeavePlan, Unlock, Unlocked, TypeOK, item, erp, local, queue, count
    <3> QED BY <2>10, <3>1 DEF LeavePlan
  <2>11. CASE PostTimesOut(w)
    <3>1. TypeOK'
      BY <2>11, <2>w DEF PostTimesOut, Release, Unlocked, Goto, TypeOK, item, queue, count
    <3> QED BY <2>11, <3>1 DEF PostTimesOut
  <2>12. CASE WorkerCrash(w)
    <3>1. TypeOK'
      BY <2>12, <2>w DEF WorkerCrash, Goto, TypeOK, item, erp, queue, count
    <3> QED BY <2>12, <3>1 DEF WorkerCrash
  <2> QED BY <1>5, <2>1, <2>1n, <2>2, <2>3, <2>4, <2>5, <2>6, <2>7, <2>8, <2>9, <2>10,
             <2>11, <2>12 DEF WorkerStep, WorkerTrouble, Quiet
<1> QED BY <1>1, <1>2, <1>3, <1>4, <1>5 DEF CNext

\* Both halves stay in their types.
THEOREM CoordinationTypeCorrect == CSpec => []CTypeOK
<1> QED BY CInitType, CNextType, PTL DEF CSpec

-----------------------------------------------------------------------------
(* Locks *)

\* InvoicePosting's half of the invariant in one step of InvoicePosting: the
\* lock of a poster is the lock of a call inside the section.
LEMMA LockLiveNext ==
  ASSUME TypeOK, Next, \A p \in Poster : lock = p => pc[p] \in Section
  PROVE  \A p \in Poster : lock' = p => pc'[p] \in Section
<1> USE PostingAssumption
    DEF TypeOK, Goto, Answer, Leave, Release, Unlocked, CanLock, NoLock, Finish, item,
        erp, queue, local, count, Section
<1>1. CASE Revert \/ SessionCloses  BY <1>1 DEF Revert, SessionCloses
<1>2. ASSUME NEW q \in Poster, Start(q)
      PROVE  \A p \in Poster : lock' = p => pc'[p] \in Section
  BY <1>2 DEF Start, ApproveStart, AutoStart, ClaimJob, RetryStart
<1>3. ASSUME NEW q \in Poster, PosterStep(q)
      PROVE  \A p \in Poster : lock' = p => pc'[p] \in Section
  <2>1. CASE Resume(q) \/ WalkStep(q) \/ WalkFails(q) \/ TakeLock(q) \/ LockHeld(q)
    BY <1>3, <2>1 DEF Resume, WalkStep, WalkFails, TakeLock, LockHeld
  <2>2. CASE Guard(q) \/ PrePostValidate(q) \/ LookupBill(q)
    BY <2>2 DEF Guard, PrePostValidate, LookupBill
  <2>3. CASE CreateBill(q) \/ Respond(q)
    BY <2>3 DEF CreateBill, Respond
  <2>4. CASE RecordPosted(q) \/ RecordPostedRaises(q) \/ RecordFailed(q)
             \/ RecordFailedRaises(q) \/ Close(q) \/ SettleJob(q)
    BY <2>4 DEF RecordPosted, RecordPostedRaises, RecordFailed,
                RecordFailedRaises, Close, SettleJob
  <2> QED BY <1>3, <2>1, <2>2, <2>3, <2>4 DEF PosterStep
<1>4. ASSUME NEW q \in Poster, Disturb(q)
      PROVE  \A p \in Poster : lock' = p => pc'[p] \in Section
  BY <1>4 DEF Disturb, LockUnavailable, LookupRaises, RefuseBill, AbandonBill,
              HandleLate, DrainTimeout, Crash
<1> QED BY <1>1, <1>2, <1>3, <1>4 DEF Next

LEMMA CInitLocks == CInit => EngineInvariant
<1> SUFFICES ASSUME CInit PROVE EngineInvariant
  OBVIOUS
<1> QED BY SessionFacts, PostingAssumption, CoordinationAssumption
        DEF CInit, Init, EngineInvariant, LockIsLive, HolderInside, WorkerCalls,
            PlanHolds, InPlan, Section

\* A direct call leaves the workers' calls, phases and sessions alone.
LEMMA DirectLocks ==
  ASSUME CTypeOK, EngineInvariant, Direct, UNCHANGED plans
  PROVE  EngineInvariant'
<1>1. Next /\ TypeOK  BY DirectIsNext DEF CTypeOK
<1>2. HolderInside'
  BY <1>1, HolderInsideStep DEF EngineInvariant
<1>3. \A p \in Poster : lock' = p => pc'[p] \in Section
  BY <1>1, LockLiveNext DEF EngineInvariant, LockIsLive
<1>4. \A w \in Worker : lock = Session(w) <=> lock' = Session(w)
  BY <1>1, SessionsUntouched, CoordinationAssumption DEF Sessions
<1>5. \A w \in Worker : pc'[w] = pc[w] /\ result'[w] = result[w]
  <2>1. CASE Revert \/ SessionCloses  BY <2>1 DEF Revert, SessionCloses, local
  <2>2. ASSUME NEW p \in Caller, Start(p) \/ PosterStep(p) \/ Disturb(p)
        PROVE  \A w \in Worker : pc'[w] = pc[w] /\ result'[w] = result[w]
    BY <1>1, <2>2, OthersUntouched, CoordinationAssumption DEF Caller
  <2>3. CASE \E w \in Worker : HandleLate(w)
    BY <2>3 DEF HandleLate, local
  <2> QED BY <2>1, <2>2, <2>3 DEF Direct
<1>6. phase' = phase /\ troubles' = troubles
  BY DEF plans, engine
<1>7. NoPool' => NoPool
  <2>1. faults \subseteq faults'  BY <1>1, FaultsGrow
  <2> QED BY <2>1, <1>6 DEF NoPool
<1> QED BY <1>2, <1>3, <1>4, <1>5, <1>6, <1>7
        DEF EngineInvariant, LockIsLive, WorkerCalls, PlanHolds
\* A worker inside _post_to_erp: with a working lock it can only be refused,
\* by its own session.
LEMMA PostingLocks ==
  ASSUME CTypeOK, EngineInvariant, NEW w \in Worker, Posting(w)
  PROVE  EngineInvariant'
<1>w. w \in Poster  BY CoordinationAssumption
<1>1. Next /\ TypeOK  BY PostIsNext DEF Posting, CTypeOK
<1>2. HolderInside'
  BY <1>1, HolderInsideStep DEF EngineInvariant
<1>3. \A p \in Poster : lock' = p => pc'[p] \in Section
  BY <1>1, LockLiveNext DEF EngineInvariant, LockIsLive
<1>4. \A v \in Worker : lock = Session(v) <=> lock' = Session(v)
  BY <1>1, SessionsUntouched, CoordinationAssumption DEF Sessions
<1>5. \A v \in Worker : v # w => pc'[v] = pc[v] /\ result'[v] = result[v]
  BY <1>1, <1>w, OthersUntouched, CoordinationAssumption
     DEF Posting, PostToErp, PosterStep, Disturb
<1>6. phase' = phase /\ troubles' = troubles /\ phase[w] = "posting"
  BY DEF Posting, plans, engine, At
<1>7. NoPool' => NoPool
  <2>1. faults \subseteq faults'  BY <1>1, FaultsGrow
  <2> QED BY <2>1, <1>6 DEF NoPool
<1>8. pc'[w] \in {"record"} \cup Section
  BY <1>w DEF Posting, PostToErp, TakeLock, LockHeld, LockUnavailable, Guard,
       PrePostValidate, LookupBill, LookupRaises, CreateBill, AbandonBill, RefuseBill,
       Respond, Leave, Goto, Section, CTypeOK, TypeOK, item, erp, queue, local, count
<1>9. NoPool' => (pc'[w] = "record" => result'[w] # "success")
  <2> SUFFICES ASSUME NoPool' PROVE pc'[w] = "record" => result'[w] # "success"
    OBVIOUS
  <2>1. lock = Session(w) /\ lock \notin {NoPoster, Pooled} /\ lock # w
    BY <1>6, <1>7, <1>w, SessionFacts DEF EngineInvariant, PlanHolds, InPlan
  <2>2. pc[w] \notin Section
    BY <1>7, <1>w, <2>1 DEF EngineInvariant, HolderInside, NoPool
  <2>3. pc[w] = "post"
    BY <2>2 DEF Posting, PostToErp, TakeLock, LockHeld, LockUnavailable, Guard,
         PrePostValidate, LookupBill, LookupRaises, CreateBill, AbandonBill,
         RefuseBill, Respond, Section
  <2>4. LockHeld(w)
    <3>1. ~TakeLock(w)  BY <2>1 DEF TakeLock, CanLock
    <3>2. ~LockUnavailable(w)  BY DEF LockUnavailable, Fault, NoPool
    <3> QED BY <2>3, <3>1, <3>2 DEF Posting, PostToErp, Guard, PrePostValidate,
          LookupBill, LookupRaises, CreateBill, AbandonBill, RefuseBill, Respond
  <2> QED BY <2>4, <1>w DEF LockHeld, Answer, CTypeOK, TypeOK
<1> QED BY <1>2, <1>3, <1>4, <1>5, <1>6, <1>7, <1>8, <1>9
        DEF EngineInvariant, LockIsLive, WorkerCalls, PlanHolds

\* The engine's own steps: it takes the lock when it is free and gives back only
\* its own.
LEMMA EngineLocks ==
  ASSUME CTypeOK, EngineInvariant, NEW w \in Worker,
         WorkerStep(w) \/ WorkerTrouble(w), ~Posting(w)
  PROVE  EngineInvariant'
<1>w. w \in Poster  BY CoordinationAssumption
<1>s. Worker \subseteq Poster  BY CoordinationAssumption
<1> USE SessionFacts, <1>w, <1>s
    DEF CTypeOK, TypeOK, EngineInvariant, LockIsLive, HolderInside, WorkerCalls,
        PlanHolds, InPlan, NoPool, At, To, Stay, NextAction, Trouble, Goto,
        item, erp, queue, local, count
<1>1. CASE Quiet(w)
  <2>1. UNCHANGED <<lock, pc, result, faults>>
    BY <1>1, QuietSteps DEF vars
  <2>2. /\ phase' = [phase EXCEPT ![w] = phase'[w]]
        /\ phase[w] # "idle" /\ phase[w] # "posting"
        /\ phase'[w] \notin {"idle", "posting", "backstop"}
        /\ phase'[w] \in InPlan => phase[w] \in InPlan
        /\ troubles \subseteq troubles'
    BY <1>1 DEF Quiet, LockPlanHeld, PreWrite, Granted, PreWriteFails, Gate,
         GateBlocks, GateRaises, Complete, Simple, Validate, ValidateRefuses
  <2>3. \A v \in Worker : v # w => phase'[v] = phase[v]
    BY <2>2
  <2>4. pc[w] = "idle"  BY <2>2
  <2>5. LockIsLive'
    <3>1. \A v \in Worker : phase[v] \in InPlan \cup {"leave"}
                            => phase'[v] \in InPlan \cup {"leave"}
      BY <1>1, <2>3 DEF Quiet, LockPlanHeld, PreWrite, Granted, PreWriteFails,
         Gate, GateBlocks, GateRaises, Complete, Simple, Validate, ValidateRefuses
    <3> QED BY <2>1, <3>1
  <2>6. HolderInside' /\ WorkerCalls'
    BY <2>1, <2>3, <2>4
  <2>7. PlanHolds'
    BY <2>1, <2>2, <2>3, <2>4
  <2> QED BY <2>5, <2>6, <2>7
<1>1n. CASE LockPlanUnavailable(w)
  <2>1. /\ UNCHANGED <<pc, result, faults>> /\ troubles' = troubles \cup {"plan_pool"}
        /\ \A v \in Worker : v # w => phase'[v] = phase[v]
        /\ phase[w] = "lock" /\ phase'[w] = "pre" /\ lock' \in {lock, Pooled}
    BY <1>1n DEF LockPlanUnavailable, NoLock
  <2>2. LockIsLive'  BY <2>1, PostingAssumption
  <2>3. HolderInside'
    \* only a free lock is pooled
    <3>1. lock' = lock \/ lock = NoPoster
      BY <1>1n DEF LockPlanUnavailable, NoLock
    <3> QED BY <2>1, <3>1, PostingAssumption
  <2>4. WorkerCalls'  BY <2>1
  <2>5. ~NoPool'  BY <2>1
  <2> QED BY <2>2, <2>3, <2>4, <2>5
<1>2. CASE LockPlan(w)
  BY <1>2, PostingAssumption DEF LockPlan, CanLock
<1>3. CASE ActionFails(w)
  BY <1>3 DEF ActionFails
<1>4. CASE MoveBoxStage(w)
  BY <1>4 DEF MoveBoxStage
<1>5. CASE MoveToException(w)
  BY <1>5 DEF MoveToException
<1>6. CASE PostBill(w)
  <2>1. /\ UNCHANGED <<lock, result, faults, troubles>>
        /\ \A v \in Worker : v # w => phase'[v] = phase[v]
        /\ \A p \in Poster : p # w => pc'[p] = pc[p]
        /\ phase[w] = "act" /\ pc[w] = "idle"
    BY <1>6 DEF PostBill
  <2>2. \/ phase'[w] = "pre" /\ pc'[w] = "idle"
        \/ phase'[w] = "posting" /\ pc'[w] = "post"
    BY <1>6, <2>1 DEF PostBill
  <2>3. LockIsLive'  BY <2>1, <2>2 DEF Section
  <2>4. HolderInside'  BY <2>1, <2>2 DEF Section
  <2>5. WorkerCalls'  BY <2>1, <2>2 DEF Section
  <2>6. PlanHolds'
    <3>1. \A v \in Worker : v # w => pc'[v] = pc[v] /\ phase'[v] = phase[v]
      BY <2>1
    <3>2. NoPool' => NoPool  BY <2>1
    <3> QED BY <2>1, <2>2, <3>1, <3>2
  <2> QED BY <2>3, <2>4, <2>5, <2>6
<1>7. CASE PostReturns(w)
  BY <1>7 DEF PostReturns, Section
<1>8. CASE WriteReference(w)
  BY <1>8 DEF WriteReference
<1>9. CASE LeavePlan(w)
  BY <1>9, PostingAssumption DEF LeavePlan, Unlock, Unlocked
<1>10. CASE PostTimesOut(w)
  <2>1. /\ UNCHANGED <<result, faults>> /\ troubles \subseteq troubles'
        /\ \A v \in Worker : v # w => phase'[v] = phase[v]
        /\ \A p \in Poster : p # w => pc'[p] = pc[p]
        /\ phase[w] = "posting" /\ pc'[w] = "idle" /\ phase'[w] \in {"act", "abort"}
        /\ lock' \in IF lock = w THEN {NoPoster, Pooled} ELSE {lock}
    BY <1>10 DEF PostTimesOut, Release, Unlocked
  <2>2. LockIsLive'  BY <2>1, PostingAssumption
  <2>3. HolderInside'  BY <2>1 DEF Section
  <2>4. WorkerCalls'  BY <2>1 DEF Section
  <2>5. PlanHolds'
    <3>1. \A v \in Worker : v # w => pc'[v] = pc[v] /\ phase'[v] = phase[v]
      BY <2>1
    <3>2. NoPool' => NoPool  BY <2>1
    <3> QED BY <2>1, <3>1, <3>2
  <2> QED BY <2>2, <2>3, <2>4, <2>5
<1>11. CASE WorkerCrash(w)
  <2>1. /\ UNCHANGED <<result, faults>> /\ troubles \subseteq troubles'
        /\ \A v \in Worker : v # w => phase'[v] = phase[v]
        /\ \A p \in Poster : p # w => pc'[p] = pc[p]
        /\ pc'[w] = "idle" /\ phase'[w] = "idle"
        /\ lock' = IF lock \in {w, Session(w)} THEN NoPoster ELSE lock
    BY <1>11 DEF WorkerCrash
  <2>2. LockIsLive'  BY <2>1, PostingAssumption
  <2>3. HolderInside'  BY <2>1 DEF Section
  <2>4. WorkerCalls'  BY <2>1 DEF Section
  <2>5. PlanHolds'
    <3>1. \A v \in Worker : v # w => pc'[v] = pc[v] /\ phase'[v] = phase[v]
      BY <2>1
    <3>2. NoPool' => NoPool  BY <2>1
    <3> QED BY <2>1, <3>1, <3>2
  <2> QED BY <2>2, <2>3, <2>4, <2>5
<1> QED BY <1>1, <1>1n, <1>2, <1>3, <1>4, <1>5, <1>6, <1>7, <1>8, <1>9, <1>10, <1>11
        DEF WorkerStep, WorkerTrouble, Quiet

\* Deliveries do not touch the lock or anybody who holds it.
LEMMA IntakeLocks ==
  ASSUME CTypeOK, EngineInvariant,
         \/ UNCHANGED cvars
         \/ \E e \in Event : Enqueue(e) \/ Redeliver(e)
         \/ \E w \in Worker, e \in Event : Take(w, e)
  PROVE  EngineInvariant'
<1>1. UNCHANGED <<lock, pc, result, faults, troubles>>
  BY DEF cvars, plans, vars, local, count, Enqueue, Redeliver, Take
<1>2. CASE UNCHANGED phase
  BY <1>1, <1>2 DEF EngineInvariant, LockIsLive, HolderInside, WorkerCalls,
     PlanHolds, NoPool
<1>3. CASE \E w \in Worker, e \in Event : Take(w, e)
  <2> PICK w \in Worker, e \in Event : Take(w, e)  BY <1>3
  <2>1. /\ phase[w] = "idle" /\ phase'[w] = "lock"
        /\ \A v \in Worker : v # w => phase'[v] = phase[v]
    BY DEF Take, At, To, CTypeOK
  <2> QED BY <1>1, <2>1 DEF EngineInvariant, LockIsLive, HolderInside, WorkerCalls,
       PlanHolds, NoPool, InPlan
<1> QED BY <1>2, <1>3 DEF cvars, plans, engine, Enqueue, Redeliver

LEMMA EngineInvariantNext ==
  CTypeOK /\ EngineInvariant /\ [CNext]_cvars => EngineInvariant'
<1> SUFFICES ASSUME CTypeOK, EngineInvariant, [CNext]_cvars PROVE EngineInvariant'
  OBVIOUS
<1>1. ASSUME NEW w \in Worker, WorkerStep(w) \/ WorkerTrouble(w)
      PROVE  EngineInvariant'
  <2>1. CASE Posting(w)   BY <2>1, PostingLocks
  <2>2. CASE ~Posting(w)  BY <1>1, <2>2, EngineLocks
  <2> QED BY <2>1, <2>2
<1> QED BY <1>1, DirectLocks, IntakeLocks DEF CNext

\* Whoever has the lock is inside, calls and engines agree on where a post is, and
\* while the lock works a running plan holds it and is refused its own post.
THEOREM EngineInvariantHolds == CSpec => []EngineInvariant
<1> QED BY CInitLocks, EngineInvariantNext, CoordinationTypeCorrect, PTL DEF CSpec

\* The lock has a holder at work or is with a session that a failed unlock or a
\* failed acquire pooled with it: nothing else leaves it behind.
THEOREM LockLiveOrPooled == CSpec => []LockIsLive
<1>1. EngineInvariant => LockIsLive  BY DEF EngineInvariant
<1> QED BY <1>1, EngineInvariantHolds, PTL

\* A plan that has its lock is alone with the item.
THEOREM PlanIsAlone == CSpec => []PlanExcludesPosts
<1>1. EngineInvariant => PlanExcludesPosts
  BY SessionFacts, CoordinationAssumption
     DEF EngineInvariant, PlanHolds, HolderInside, PlanExcludesPosts, NoPool
<1> QED BY <1>1, EngineInvariantHolds, PTL

\* Its own lock keeps the engine from the ERP.
THEOREM EngineBlocksItself == CSpec => []EngineNeverPosts
<1>1. EngineInvariant => EngineNeverPosts
  <2> SUFFICES ASSUME EngineInvariant, NoPool, NEW w \in Worker
               PROVE  pc[w] \notin Section \cup {"close"} /\ phase[w] # "backstop"
    BY DEF EngineNeverPosts
  <2>1. pc[w] \in Section => lock = w /\ lock = Session(w)
    BY CoordinationAssumption
       DEF EngineInvariant, HolderInside, WorkerCalls, PlanHolds, NoPool, InPlan, Section
  <2>2. pc[w] \notin Section
    BY <2>1, SessionFacts, CoordinationAssumption
  <2>3. pc[w] # "close"
    BY DEF EngineInvariant, WorkerCalls, Section
  <2> QED BY <2>2, <2>3 DEF EngineInvariant, PlanHolds
<1> QED BY <1>1, EngineInvariantHolds, PTL

-----------------------------------------------------------------------------
(* Rule 1 *)

\* The row is written on the way to the action, and rows are never removed.
LEMMA RowFirstNext == CTypeOK /\ RowFirst /\ [CNext]_cvars => RowFirst'
<1> SUFFICES ASSUME CTypeOK, RowFirst, [CNext]_cvars PROVE RowFirst'
  OBVIOUS
<1> USE DEF RowFirst
<1>1. CASE UNCHANGED plans
  BY <1>1 DEF plans, engine, trace
<1>2. CASE \E e \in Event : Enqueue(e) \/ Redeliver(e)
  BY <1>2 DEF Enqueue, Redeliver, engine, trace
<1>3. ASSUME NEW w \in Worker, NEW e \in Event, Take(w, e) PROVE RowFirst'
  BY <1>3 DEF Take, To, trace, CTypeOK
<1>4. ASSUME NEW w \in Worker, WorkerStep(w) \/ WorkerTrouble(w) PROVE RowFirst'
  <2> USE DEF CTypeOK, At, To, Stay, NextAction, trace
  <2>1. CASE LockPlan(w) \/ LockPlanHeld(w) \/ LockPlanUnavailable(w)
    BY <2>1 DEF LockPlan, LockPlanHeld, LockPlanUnavailable
  <2>2. CASE PreWrite(w)
    BY <2>2 DEF PreWrite
  <2>3. CASE PreWriteFails(w) \/ Gate(w) \/ GateBlocks(w) \/ GateRaises(w)
    BY <2>3 DEF PreWriteFails, Gate, GateBlocks, GateRaises
  <2>4. CASE Complete(w) \/ MoveToException(w) \/ LeavePlan(w)
    BY <2>4 DEF Complete, MoveToException, LeavePlan
  <2>5. CASE Simple(w) \/ ActionFails(w) \/ Validate(w) \/ ValidateRefuses(w)
    BY <2>5 DEF Simple, ActionFails, Validate, ValidateRefuses
  <2>6. CASE MoveBoxStage(w) \/ PostBill(w)
    BY <2>6 DEF MoveBoxStage, PostBill
  <2>7. CASE Posting(w)
    BY <2>7 DEF Posting, plans, engine
  <2>8. CASE PostReturns(w) \/ WriteReference(w)
    BY <2>8 DEF PostReturns, WriteReference
  <2>9. CASE PostTimesOut(w) \/ WorkerCrash(w)
    BY <2>9 DEF PostTimesOut, WorkerCrash
  <2> QED BY <1>4, <2>1, <2>2, <2>3, <2>4, <2>5, <2>6, <2>7, <2>8, <2>9
          DEF WorkerStep, WorkerTrouble
<1> QED BY <1>1, <1>2, <1>3, <1>4 DEF CNext, cvars

\* What an action does is on the timeline before it is done.
THEOREM RowsComeFirst == CSpec => []RowFirst
<1>1. CInit => RowFirst  BY DEF CInit, RowFirst
<1> QED BY <1>1, RowFirstNext, CoordinationTypeCorrect, PTL DEF CSpec

-----------------------------------------------------------------------------
(* One bill *)

\* Until a call of a worker timed out, nobody is about to create a second bill.
NoSecondBill == "slow" \notin troubles => NoBillYet

\* What the engine does outside _post_to_erp leaves the ERP alone and starts no
\* request.
LEMMA EngineLeavesBills ==
  ASSUME CTypeOK, WorkerCalls, NEW w \in Worker,
         WorkerStep(w) \/ WorkerTrouble(w), ~Posting(w)
  PROVE  /\ UNCHANGED <<bills, faults, job, attempts>>
         /\ "slow" \notin troubles' => UNCHANGED late
         /\ \A p \in Poster : pc'[p] = pc[p] \/ pc'[p] \in {"idle", "post"}
         /\ UNCHANGED result
<1> USE DEF Trouble, Goto, CTypeOK, TypeOK, item, erp, queue, local, count
<1>1. CASE Quiet(w)
  BY <1>1, QuietSteps DEF vars
<1>2. CASE LockPlan(w) \/ LockPlanUnavailable(w) \/ LeavePlan(w) \/ WriteReference(w)
  BY <1>2 DEF LockPlan, LockPlanUnavailable, LeavePlan, WriteReference
<1>3. CASE ActionFails(w) \/ MoveBoxStage(w) \/ MoveToException(w)
  BY <1>3 DEF ActionFails, MoveBoxStage, MoveToException
<1>4. CASE PostBill(w) \/ PostReturns(w)
  BY <1>4 DEF PostBill, PostReturns
<1>5. CASE PostTimesOut(w) \/ WorkerCrash(w)
  BY <1>5 DEF PostTimesOut, WorkerCrash
<1> QED BY <1>1, <1>2, <1>3, <1>4, <1>5 DEF WorkerStep, WorkerTrouble, Quiet

\* Troubles are never forgotten.
LEMMA TroublesGrow == [CNext]_cvars => troubles \subseteq troubles'
<1> USE DEF Trouble, trace
<1>1. ASSUME NEW w \in Worker, WorkerStep(w) PROVE troubles \subseteq troubles'
  BY <1>1 DEF WorkerStep, LockPlan, LockPlanHeld, PreWrite, Gate, Complete, Simple,
     Validate, MoveBoxStage, PostBill, Posting, plans, PostReturns, WriteReference,
     MoveToException, LeavePlan
<1>2. ASSUME NEW w \in Worker, WorkerTrouble(w) PROVE troubles \subseteq troubles'
  BY <1>2 DEF WorkerTrouble, LockPlanUnavailable, PreWriteFails, GateBlocks,
     GateRaises, ActionFails, ValidateRefuses, PostTimesOut, WorkerCrash
<1> QED BY <1>1, <1>2 DEF CNext, cvars, plans, Enqueue, Redeliver, Take

\* Every step is one of InvoicePosting, leaves its variables alone, or is one of
\* the engine's.
LEMMA StepCases ==
  ASSUME [CNext]_cvars
  PROVE  \/ [Next]_vars
         \/ \E w \in Worker : (WorkerStep(w) \/ WorkerTrouble(w)) /\ ~Posting(w)
<1>1. CASE UNCHANGED cvars  BY <1>1 DEF cvars
<1>2. CASE Direct /\ UNCHANGED plans  BY <1>2, DirectIsNext
<1>3. CASE \E e \in Event : Enqueue(e) \/ Redeliver(e)
  BY <1>3 DEF Enqueue, Redeliver
<1>4. CASE \E w \in Worker, e \in Event : Take(w, e)
  BY <1>4 DEF Take
<1>5. CASE \E w \in Worker : Posting(w)
  BY <1>5, PostIsNext DEF Posting
<1> QED BY <1>1, <1>2, <1>3, <1>4, <1>5 DEF CNext

LEMMA NoSecondBillNext ==
  CTypeOK /\ EngineInvariant /\ NoSecondBill /\ [CNext]_cvars => NoSecondBill'
<1> SUFFICES ASSUME CTypeOK, EngineInvariant, NoSecondBill, [CNext]_cvars,
                    "slow" \notin troubles'
             PROVE  NoBillYet'
  BY DEF NoSecondBill
<1>1. NoBillYet  BY TroublesGrow DEF NoSecondBill
<1>2. CASE [Next]_vars
  BY <1>1, <1>2, NoBillYetStep DEF CTypeOK, EngineInvariant
<1>3. ASSUME NEW w \in Worker, WorkerStep(w) \/ WorkerTrouble(w), ~Posting(w)
      PROVE  NoBillYet'
  <2>1. /\ UNCHANGED <<bills, faults, late>>
        /\ \A p \in Poster : pc'[p] = "create" => pc[p] = "create"
    BY <1>3, EngineLeavesBills DEF EngineInvariant
  <2> QED BY <1>1, <2>1 DEF NoBillYet, Careful
<1> QED BY <1>2, <1>3, StepCases

\* The event path and the direct path together make one bill.
THEOREM BothPathsMakeOneBill ==
  ASSUME PreCheck PROVE CSpec => []OneBillFromBothPaths
<1>1. CInit => NoSecondBill
  BY DEF CInit, Init, NoSecondBill, NoBillYet
<1>2. NoSecondBill => OneBillFromBothPaths
  BY DEF NoSecondBill, NoBillYet, Careful, OneBillFromBothPaths
<1> QED BY <1>1, <1>2, NoSecondBillNext, CoordinationTypeCorrect,
           EngineInvariantHolds, PTL DEF CSpec

-----------------------------------------------------------------------------
(* References *)

\* A row stands for an action of the plan of its event.
RowsOfPlans == \A e \in Event, i \in Nat :
                 <<e, i>> \in rows => i \in 1..Len(PlanFor(e))

LEMMA RowsOfPlansNext == CTypeOK /\ RowsOfPlans /\ [CNext]_cvars => RowsOfPlans'
<1> SUFFICES ASSUME CTypeOK, RowsOfPlans, [CNext]_cvars PROVE RowsOfPlans'
  OBVIOUS
<1> USE DEF RowsOfPlans, PlanFor, trace
<1>1. ASSUME UNCHANGED <<rows, asked>> PROVE RowsOfPlans'
  BY <1>1
<1>2. ASSUME NEW w \in Worker, PreWrite(w) PROVE RowsOfPlans'
  <2>1. /\ step[w] \in Nat \ {0} /\ step[w] <= Len(PlanFor(hand[w]))
        /\ Len(PlanFor(hand[w])) \in Nat
        /\ rows' = rows \cup {<<hand[w], step[w]>>} /\ asked' = asked
    BY <1>2 DEF PreWrite, CTypeOK, Plan, intake
  <2> HIDE DEF PlanFor
  <2>2. \A e \in Event : PlanFor(e)' = PlanFor(e)
    BY <2>1 DEF PlanFor
  <2> QED BY <2>1, <2>2
<1>3. CASE \E e \in Event : Enqueue(e) \/ Redeliver(e)
  BY <1>1, <1>3 DEF Enqueue, Redeliver
<1>4. CASE \E w \in Worker, e \in Event : Take(w, e)
  BY <1>1, <1>4 DEF Take
<1>5. ASSUME NEW w \in Worker, WorkerStep(w) \/ WorkerTrouble(w), ~PreWrite(w)
      PROVE  UNCHANGED <<rows, asked>>
  BY <1>5 DEF WorkerStep, WorkerTrouble, plans, intake, LockPlan, LockPlanHeld, Gate,
     Complete, Simple, Validate, MoveBoxStage, PostBill, Posting, PostReturns,
     WriteReference, MoveToException, LeavePlan, LockPlanUnavailable, PreWriteFails,
     GateBlocks, GateRaises, ActionFails, ValidateRefuses, PostTimesOut, WorkerCrash
<1> QED BY <1>1, <1>2, <1>3, <1>4, <1>5 DEF CNext, cvars, plans, intake

\* While the lock works, what InvoicePosting keeps true of posted items holds
\* beside the engines as well.
RecordedUnderLock == NoPool => Recorded

\* A plan asks for these targets and no others.
PlanTarget == {"approved", "needs_info", "exception", "none"}

\* What an engine does to the item itself: it moves along the graph to a target of
\* a plan, or writes the reference.
LEMMA EngineMoves ==
  ASSUME CTypeOK, RowFirst, RowsOfPlans, NEW w \in Worker,
         WorkerStep(w) \/ WorkerTrouble(w), ~Posting(w)
  PROVE  /\ ~WriteReference(w) => erpRef' = erpRef
         /\ \/ state' = state
            \/ \E t \in PlanTarget : ValidTransition(state, t) /\ state' = t
<1>1. CASE Quiet(w)  BY <1>1, QuietSteps DEF vars, item
<1>2. CASE LockPlan(w) \/ LockPlanUnavailable(w) \/ LeavePlan(w) \/ PostBill(w)
           \/ PostReturns(w) \/ PostTimesOut(w) \/ WorkerCrash(w)
  BY <1>2 DEF LockPlan, LockPlanUnavailable, LeavePlan, PostBill, PostReturns, PostTimesOut,
     WorkerCrash, item
<1>3. CASE WriteReference(w)
  BY <1>3 DEF WriteReference
<1>4. CASE MoveToException(w)
  BY <1>4 DEF MoveToException, PlanTarget
<1>5. CASE MoveBoxStage(w) \/ ActionFails(w)
  <2>1. Current(w).target \in PlanTarget
    <3>1. phase[w] = "act"  BY <1>5 DEF MoveBoxStage, ActionFails, At
    <3>2. hand[w] \in Event /\ step[w] \in 1..Len(PlanFor(hand[w]))
      BY <3>1 DEF RowFirst, RowsOfPlans, CTypeOK
    <3> QED BY <3>2 DEF Current, Plan, PlanFor, Do, Move, PlanTarget
  <2> QED BY <1>5, <2>1 DEF MoveBoxStage, ActionFails
<1> QED BY <1>1, <1>2, <1>3, <1>4, <1>5 DEF WorkerStep, WorkerTrouble, Quiet

\* A posted item moves to none of the targets of a plan.
LEMMA PlanTargets ==
  ASSUME state \in APState, NEW t \in PlanTarget,
         ValidTransition(state, t)
  PROVE  /\ state \notin {"posted_to_erp", "closed"}
         /\ t \notin {"posted_to_erp", "closed"}
BY DEF ValidTransition, VALID_TRANSITIONS, APState, PlanTarget

LEMMA RecordedUnderLockNext ==
  CTypeOK /\ EngineInvariant /\ RowFirst /\ RowsOfPlans /\ RecordedUnderLock
    /\ [CNext]_cvars => RecordedUnderLock'
<1> SUFFICES ASSUME CTypeOK, EngineInvariant, RowFirst, RowsOfPlans,
                    RecordedUnderLock, [CNext]_cvars, NoPool'
             PROVE  Recorded'
  BY DEF RecordedUnderLock
<1>0. faults \subseteq faults'
  BY StepCases, FaultsGrow, EngineLeavesBills
     DEF CTypeOK, EngineInvariant, vars, count
<1>1. NoPool /\ Recorded
  BY <1>0, TroublesGrow DEF RecordedUnderLock, NoPool
<1>2. CASE [Next]_vars
  BY <1>1, <1>2, RecordedStep DEF CTypeOK
<1>3. ASSUME NEW w \in Worker, WorkerStep(w) \/ WorkerTrouble(w), ~Posting(w)
      PROVE  Recorded'
  <2>1. /\ UNCHANGED <<bills, result>>
        /\ \A p \in Poster : pc'[p] \in {"close", "settle"} => pc'[p] = pc[p]
    BY <1>3, EngineLeavesBills DEF EngineInvariant
  <2>2. /\ erpRef' = erpRef
        /\ \/ state' = state
           \/ \E t \in PlanTarget : ValidTransition(state, t) /\ state' = t
    <3>1. ~WriteReference(w)
      BY <1>1 DEF WriteReference, At, EngineInvariant, PlanHolds
    <3> QED BY <1>3, <3>1, EngineMoves
  <2>3. erpRef' <=> state' \in {"posted_to_erp", "closed"}
    BY <1>1, <2>2, PlanTargets DEF Recorded, CTypeOK, TypeOK
  <2> QED BY <1>1, <2>1, <2>2, <2>3 DEF Recorded, Backed
<1> QED BY <1>2, <1>3, StepCases

\* Until a plan or a post runs without the lock, only a posted item has a
\* reference.
THEOREM ReferencesArePostings == CSpec => []ReferenceMeansPosted
<1>1. CInit => RecordedUnderLock
  BY DEF CInit, Init, RecordedUnderLock, Recorded, Backed
<1>2. RecordedUnderLock => ReferenceMeansPosted
  BY DEF RecordedUnderLock, Recorded, ReferenceMeansPosted
<1>3. CInit => RowsOfPlans  BY DEF CInit, RowsOfPlans
<1> QED BY <1>1, <1>2, <1>3, RecordedUnderLockNext, RowsOfPlansNext, RowsComeFirst,
           CoordinationTypeCorrect, EngineInvariantHolds, PTL DEF CSpec

-----------------------------------------------------------------------------
(* The plans of clicks *)

\* How far a plan can come: a rejection to its second action, and an approval to
\* its fourth, where it only arrives when the item has its reference.  The plan of
\* a rejection posts nothing.
PlanBound ==
  \A w \in Worker :
    phase[w] \in InPlan \cup {"lock"} =>
      /\ asked[hand[w]] = "reject" =>
           step[w] \in 1..2 /\ phase[w] \notin {"posting", "backstop"}
      /\ NoPool /\ asked[hand[w]] = "approve" =>
           step[w] \in 1..3 \/ (step[w] = 4 /\ erpRef)

PlansStop == PlanBound /\ ClickPlansAbort

\* No step takes a reference back.
LEMMA ReferenceStays == [CNext]_cvars /\ erpRef => erpRef'
<1> SUFFICES ASSUME [CNext]_cvars, erpRef PROVE erpRef'
  OBVIOUS
<1>1. CASE [Next]_vars
  BY <1>1 DEF Next, vars, item, Revert, SessionCloses, Start, PosterStep, Disturb, ApproveStart,
     AutoStart, ClaimJob, RetryStart, Resume, WalkStep, WalkFails, TakeLock,
     LockHeld, Guard, PrePostValidate, LookupBill, CreateBill, Respond,
     RecordPosted, RecordPostedRaises, RecordFailed, RecordFailedRaises, Close,
     SettleJob, LockUnavailable, LookupRaises, RefuseBill, AbandonBill,
     HandleLate, DrainTimeout, Crash
<1>2. ASSUME NEW w \in Worker, WorkerStep(w) \/ WorkerTrouble(w), ~Posting(w)
      PROVE  erpRef'
  <2>1. CASE Quiet(w)  BY <2>1, QuietSteps DEF vars, item
  <2>2. CASE ~Quiet(w)
    BY <1>2, <2>2 DEF WorkerStep, WorkerTrouble, Quiet, item, LockPlan, LeavePlan,
       LockPlanUnavailable, PostBill, PostReturns, PostTimesOut, WorkerCrash, WriteReference,
       MoveToException, MoveBoxStage, ActionFails
  <2> QED BY <2>1, <2>2
<1> QED BY <1>1, <1>2, StepCases

\* What the plan of a click asks for, action by action.
LEMMA ClickPlans ==
  ASSUME NEW e \in Event
  PROVE  /\ asked[e] = "reject" =>
              /\ Len(PlanFor(e)) = 4
              /\ PlanFor(e)[1].name = "clear_waiting_condition"
              /\ PlanFor(e)[2].name = "move_box_stage"
              /\ PlanFor(e)[2].target = "exception"
         /\ asked[e] = "approve" =>
              /\ Len(PlanFor(e)) = 9
              /\ PlanFor(e)[3].name = "post_bill"
              /\ PlanFor(e)[4].name = "move_box_stage"
              /\ PlanFor(e)[4].target = "approved"
BY DEF PlanFor, Do, Move

\* Where the last action of a click's plan that can be reached leads.
LEMMA TargetsOutOfReach ==
  /\ \A s \in APState : ~ValidTransition(s, "exception")
  /\ ~ValidTransition("posted_to_erp", "approved")
  /\ ~ValidTransition("closed", "approved")
BY DEF ValidTransition, VALID_TRANSITIONS, APState

LEMMA PlansStopNext ==
  CTypeOK /\ EngineInvariant /\ ReferenceMeansPosted /\ PlansStop
    /\ [CNext]_cvars => PlansStop'
<1> SUFFICES ASSUME CTypeOK, EngineInvariant, ReferenceMeansPosted, PlansStop,
                    [CNext]_cvars
             PROVE  PlansStop'
  OBVIOUS
<1>1. NoPool' => NoPool
  <2>1. faults \subseteq faults'
    BY StepCases, FaultsGrow, EngineLeavesBills
       DEF CTypeOK, EngineInvariant, vars, count
  <2> QED BY <2>1, TroublesGrow DEF NoPool
<1>2. asked' = asked
  BY DEF CNext, cvars, plans, intake, Enqueue, Redeliver, Take, WorkerStep,
     WorkerTrouble, LockPlan, LockPlanHeld, PreWrite, Gate, Complete, Simple,
     Validate, MoveBoxStage, PostBill, Posting, PostReturns, WriteReference,
     MoveToException, LeavePlan, LockPlanUnavailable, PreWriteFails, GateBlocks,
     GateRaises, ActionFails, ValidateRefuses, PostTimesOut, WorkerCrash
<1>3. erpRef => erpRef'  BY ReferenceStays
<1> USE DEF PlansStop, PlanBound, ClickPlansAbort
<1>4. ASSUME UNCHANGED <<phase, hand, step, outcome>> PROVE PlansStop'
  BY <1>1, <1>2, <1>3, <1>4 DEF InPlan
<1>5. CASE UNCHANGED cvars \/ (Direct /\ UNCHANGED plans)
  BY <1>4, <1>5 DEF cvars, plans, engine, trace
<1>6. CASE \E e \in Event : Enqueue(e) \/ Redeliver(e)
  BY <1>4, <1>6 DEF Enqueue, Redeliver, engine, trace
<1>7. ASSUME NEW w \in Worker, NEW e \in Event, Take(w, e) PROVE PlansStop'
  BY <1>1, <1>2, <1>3, <1>7 DEF Take, To, CTypeOK, InPlan, trace
<1>8. ASSUME NEW w \in Worker, WorkerStep(w) \/ WorkerTrouble(w) PROVE PlansStop'
  <2> USE DEF At, To, Stay, Ended, Trouble, InPlan, trace, CTypeOK
  <2>a. /\ phase[w] \in InPlan => hand[w] \in Event
        /\ step[w] \in Nat \ {0}
    OBVIOUS
  <2>1. ASSUME UNCHANGED <<hand, step, outcome>>,
               \A v \in Worker : v # w => phase'[v] = phase[v],
               \/ phase'[w] \notin InPlan \cup {"lock"}
               \/ phase[w] \in InPlan \cup {"lock"},
               \/ phase'[w] \notin {"posting", "backstop"}
               \/ phase[w] = "posting" \/ asked[hand[w]] # "reject"
        PROVE  PlansStop'
    BY <1>1, <1>2, <1>3, <2>1
  <2>2. ASSUME NextAction(w), UNCHANGED outcome, phase[w] \in InPlan,
               asked[hand[w]] = "reject" => step[w] = 1,
               NoPool /\ asked[hand[w]] = "approve" =>
                 step[w] < 3 \/ (step[w] = 3 /\ erpRef)
        PROVE  PlansStop'
    BY <1>1, <1>2, <1>3, <2>a, <2>2 DEF NextAction
  <2>3. ASSUME NEW r \in Outcomes \ {"completed"}, Ended(w, r), UNCHANGED <<hand, step>>,
               phase' = [phase EXCEPT ![w] = "leave"]
        PROVE  PlansStop'
    BY <1>1, <1>2, <1>3, <2>3
  <2>4. CASE LockPlan(w) \/ LockPlanUnavailable(w) \/ PreWrite(w) \/ PreWriteFails(w)
             \/ Gate(w) \/ GateBlocks(w) \/ ActionFails(w) \/ ValidateRefuses(w)
             \/ PostReturns(w)
    BY <2>1, <2>4 DEF LockPlan, LockPlanUnavailable, PreWrite, PreWriteFails, Gate,
       GateBlocks, ActionFails, ValidateRefuses, PostReturns, Granted
  <2>5. CASE PostTimesOut(w)
    BY <2>1, <2>5 DEF PostTimesOut
  <2>6. CASE LockPlanHeld(w) \/ GateRaises(w) \/ MoveToException(w)
    BY <2>3, <2>6 DEF LockPlanHeld, GateRaises, MoveToException, Outcomes
  <2>7. CASE LeavePlan(w) \/ WorkerCrash(w)
    BY <1>1, <1>2, <1>3, <2>7 DEF LeavePlan, WorkerCrash
  <2>8. CASE Posting(w)
    BY <1>4, <2>8 DEF Posting, plans, engine
  <2>9. CASE Complete(w)
    <3>1. /\ phase[w] = "pre" /\ step[w] > Len(PlanFor(hand[w]))
          /\ outcome' = [outcome EXCEPT ![hand[w]] = "completed"]
      BY <2>9 DEF Complete, Plan
    <3>2. /\ asked[hand[w]] # "reject"
          /\ NoPool => asked[hand[w]] # "approve"
      <4>1. hand[w] \in Event  BY <2>a, <3>1
      <4>2. step[w] \in Nat
        BY <2>a
      <4>3. ASSUME asked[hand[w]] = "reject" PROVE FALSE
        <5>1. Len(PlanFor(hand[w])) = 4  BY <4>1, <4>3, ClickPlans
        <5>2. step[w] \in 1..2  BY <3>1, <4>3
        <5> QED BY <3>1, <5>1, <5>2
      <4>4. ASSUME NoPool, asked[hand[w]] = "approve" PROVE FALSE
        <5>1. Len(PlanFor(hand[w])) = 9  BY <4>1, <4>4, ClickPlans
        <5>2. step[w] \in 1..4  BY <3>1, <4>4
        <5> QED BY <3>1, <5>1, <5>2
      <4> QED BY <4>3, <4>4
    <3> QED BY <1>1, <1>2, <1>3, <2>9, <3>1, <3>2 DEF Complete
  <2>10. CASE Simple(w) \/ Validate(w)
    <3>1. phase[w] = "act" /\ Current(w).name \notin {"post_bill", "move_box_stage"}
      BY <2>10 DEF Simple, Validate
    <3>2. /\ asked[hand[w]] = "reject" => step[w] = 1
          /\ NoPool /\ asked[hand[w]] = "approve" => step[w] < 3
      BY <2>a, <3>1, ClickPlans DEF Current, Plan
    <3>3. NextAction(w) /\ UNCHANGED outcome => PlansStop'
      BY <2>2, <3>1, <3>2
    <3> QED BY <2>1, <2>10, <3>1, <3>3 DEF Simple, Validate
  <2>11. CASE MoveBoxStage(w)
    <3>1. phase[w] = "act" /\ Current(w).name = "move_box_stage" /\ state \in APState
      BY <2>11 DEF MoveBoxStage, TypeOK
    <3>2. CASE ValidTransition(state, Current(w).target)
      <4>1. asked[hand[w]] = "reject" => step[w] = 1
        BY <2>a, <3>1, <3>2, ClickPlans, TargetsOutOfReach DEF Current, Plan
      <4>2. NoPool /\ asked[hand[w]] = "approve" => step[w] < 3
        BY <2>a, <3>1, <3>2, ClickPlans, TargetsOutOfReach
           DEF Current, Plan, ReferenceMeansPosted
      <4> QED BY <2>2, <2>11, <3>1, <3>2, <4>1, <4>2 DEF MoveBoxStage
    <3>3. CASE ~ValidTransition(state, Current(w).target)
      BY <2>1, <2>11, <3>1, <3>3 DEF MoveBoxStage
    <3> QED BY <3>2, <3>3
  <2>12. CASE PostBill(w)
    <3>1. phase[w] = "act" /\ Current(w).name = "post_bill"
      BY <2>12 DEF PostBill
    <3>2. CASE erpRef
      <4>1. asked[hand[w]] = "reject" => step[w] = 1
        BY <2>a, <3>1, ClickPlans DEF Current, Plan
      <4>2. NoPool /\ asked[hand[w]] = "approve" => step[w] \in 1..3
        BY <2>a, <3>1, ClickPlans DEF Current, Plan
      <4> QED BY <2>2, <2>12, <3>1, <3>2, <4>1, <4>2 DEF PostBill
    <3>3. CASE ~erpRef
      <4>1. asked[hand[w]] # "reject"
        BY <2>a, <3>1, ClickPlans DEF Current, Plan
      <4> QED BY <2>1, <2>12, <3>1, <3>3, <4>1 DEF PostBill
    <3> QED BY <3>2, <3>3
  <2>13. CASE WriteReference(w)
    \* reached without the lock only, and never by the plan of a rejection
    <3>1. phase[w] = "backstop" /\ NextAction(w) /\ UNCHANGED outcome
      BY <2>13 DEF WriteReference
    <3>2. ~NoPool
      BY <3>1 DEF EngineInvariant, PlanHolds
    <3>3. asked[hand[w]] # "reject"
      BY <3>1
    <3> QED BY <2>2, <3>1, <3>2, <3>3
  <2> QED BY <1>8, <2>4, <2>5, <2>6, <2>7, <2>8, <2>9, <2>10, <2>11, <2>12, <2>13
          DEF WorkerStep, WorkerTrouble
<1> QED BY <1>5, <1>6, <1>7, <1>8 DEF CNext

\* The plan of a rejection never runs to its end, nor that of an approval while
\* the lock works.
THEOREM ClickPlansNeverComplete == CSpec => []ClickPlansAbort
<1>1. CInit => PlansStop
  BY DEF CInit, PlansStop, PlanBound, ClickPlansAbort, InPlan
<1>2. PlansStop => ClickPlansAbort  BY DEF PlansStop
<1> QED BY <1>1, <1>2, PlansStopNext, ReferencesArePostings, CoordinationTypeCorrect,
           EngineInvariantHolds, PTL DEF CSpec
-----------------------------------------------------------------------------
(* Approval *)

\* Until the direct path releases the item it is not ready to post, and the post of
\* a plan gets no further than the guard.
CHeldBack ==
  ~Released =>
    /\ state \notin {"failed_post", "ready_to_post", "posted_to_erp", "closed"}
    /\ bills = {} /\ late = {}
    /\ \A p \in Caller : pc[p] \in Waiting
    /\ \A w \in Worker : pc[w] \in {"idle", "post", "guard", "record"}

\* The post of a plan whose item nobody released ends at the guard.
LEMMA PostHeldBack ==
  ASSUME TypeOK, NEW w \in Worker, pc[w] \in {"idle", "post", "guard", "record"},
         state # "ready_to_post", PostToErp(w)
  PROVE  /\ UNCHANGED <<state, bills, late, claimed, calls>>
         /\ \A p \in Poster :
              pc'[p] = pc[p] \/ (p = w /\ pc'[p] \in {"idle", "post", "guard", "record"})
BY DEF PostToErp, TypeOK, Goto, Leave, item, erp, queue, local, count, TakeLock,
   LockHeld, LockUnavailable, Guard, PrePostValidate, LookupBill, LookupRaises,
   CreateBill, AbandonBill, RefuseBill, Respond

LEMMA CHeldBackNext ==
  CTypeOK /\ EngineInvariant /\ RowFirst /\ RowsOfPlans /\ CHeldBack
    /\ [CNext]_cvars => CHeldBack'
<1> SUFFICES ASSUME CTypeOK, EngineInvariant, RowFirst, RowsOfPlans, CHeldBack,
                    [CNext]_cvars, ~Released'
             PROVE  CHeldBack'
  BY DEF CHeldBack
<1> USE DEF CHeldBack
<1>0. TypeOK  BY DEF CTypeOK
<1>1. ASSUME UNCHANGED <<state, bills, late, pc, claimed, calls>> PROVE CHeldBack'
  BY <1>1 DEF Released
<1>2. CASE UNCHANGED cvars
  BY <1>1, <1>2 DEF cvars, vars, item, erp, local, count
<1>3. CASE Direct /\ UNCHANGED plans
  <2>1. ~Released  BY <1>0, <1>3, DirectIsNext, ReleasedStays
  <2>2. CASE Revert \/ SessionCloses
    BY <2>1, <2>2 DEF Revert, SessionCloses, item, erp, local
  <2>3. ASSUME NEW p \in Caller, Start(p) \/ PosterStep(p) \/ Disturb(p)
        PROVE  CHeldBack'
    <3>1. /\ UNCHANGED <<state, bills, late>>
          /\ \A q \in Poster : pc'[q] = pc[q] \/ pc'[q] \in Waiting
      BY <1>0, <2>1, <2>3, HeldBackCall DEF Caller
    <3>2. \A w \in Worker : pc'[w] = pc[w]
      BY <1>0, <2>3, OthersUntouched, CoordinationAssumption DEF Caller
    <3> QED BY <2>1, <3>1, <3>2 DEF Caller
  <2>4. ~ \E w \in Worker : HandleLate(w)
    BY <2>1 DEF HandleLate
  <2> QED BY <1>3, <2>2, <2>3, <2>4 DEF Direct
<1>4. CASE \E e \in Event : Enqueue(e) \/ Redeliver(e)
  BY <1>1, <1>4 DEF Enqueue, Redeliver, vars, item, erp, local, count
<1>5. CASE \E w \in Worker, e \in Event : Take(w, e)
  BY <1>1, <1>5 DEF Take, vars, item, erp, local, count
<1>6. ASSUME NEW w \in Worker, Posting(w) PROVE CHeldBack'
  <2>1. ~Released  BY <1>0, <1>6, PostIsNext, ReleasedStays DEF Posting
  <2>2. /\ UNCHANGED <<state, bills, late>>
        /\ \A p \in Poster :
             pc'[p] = pc[p] \/ (p = w /\ pc'[p] \in {"idle", "post", "guard", "record"})
    BY <1>0, <1>6, <2>1, PostHeldBack DEF Posting
  <2> QED BY <2>1, <2>2, CoordinationAssumption DEF Caller
<1>7. ASSUME NEW w \in Worker, WorkerStep(w) \/ WorkerTrouble(w), ~Posting(w)
      PROVE  CHeldBack'
  <2>1. UNCHANGED <<claimed, calls, bills>>
    BY <1>7, QuietSteps
       DEF WorkerStep, WorkerTrouble, Quiet, vars, erp, count, LockPlan, LeavePlan,
           LockPlanUnavailable, WriteReference, ActionFails, MoveBoxStage, MoveToException, PostBill,
           PostReturns, PostTimesOut, WorkerCrash
  <2>2. ~Released  BY <2>1 DEF Released
  <2>3. late' = late /\ \A p \in Poster :
          pc'[p] = pc[p] \/ (p = w /\ pc'[p] \in {"idle", "post"})
    BY <1>0, <1>7, <2>2, QuietSteps
       DEF WorkerStep, WorkerTrouble, Quiet, vars, erp, local, TypeOK, Goto, LockPlan,
           LockPlanUnavailable, LeavePlan, WriteReference, ActionFails, MoveBoxStage, MoveToException,
           PostBill, PostReturns, PostTimesOut, WorkerCrash
  <2>4. state' \notin {"failed_post", "ready_to_post", "posted_to_erp", "closed"}
    BY <1>7, <2>2, EngineMoves DEF PlanTarget
  <2> QED BY <2>1, <2>2, <2>3, <2>4, CoordinationAssumption DEF Caller
<1> QED BY <1>2, <1>3, <1>4, <1>5, <1>6, <1>7 DEF CNext

\* No plan posts what the direct path has not released: the event of a click, however
\* often it is delivered and with or without the lock, is no approval by itself.
THEOREM BothPathsNeedApproval == CSpec => []BillsNeedApproval
<1>1. CInit => CHeldBack /\ RowsOfPlans
  <2>1. CInit => CHeldBack
    BY CoordinationAssumption DEF CInit, Init, CHeldBack, Caller, Waiting
  <2>2. CInit => RowsOfPlans  BY DEF CInit, RowsOfPlans
  <2> QED BY <2>1, <2>2
<1>2. CHeldBack => BillsNeedApproval
  BY DEF CHeldBack, BillsNeedApproval
<1> QED BY <1>1, <1>2, CHeldBackNext, RowsOfPlansNext, RowsComeFirst,
           CoordinationTypeCorrect, EngineInvariantHolds, PTL DEF CSpec

-----------------------------------------------------------------------------
(* Refinement: both paths together implement PostOnce. *)

\* What carries over from InvoicePosting when engines run beside it, and why an
\* engine that is about to write the reference has a bill for it.
Grounded ==
  /\ Backed /\ Budget /\ DrainOwnsJob
  /\ \A w \in Worker : phase[w] = "backstop" => bills # {}

\* An engine outside _post_to_erp moves its own call to "idle" or "post" and
\* leaves the job alone.
LEMMA EngineKeepsParts ==
  ASSUME CTypeOK, EngineInvariant, Grounded, NEW w \in Worker,
         WorkerStep(w) \/ WorkerTrouble(w), ~Posting(w)
  PROVE  (Backed /\ Budget /\ DrainOwnsJob)'
<1>1. /\ UNCHANGED <<bills, job, attempts, result>>
      /\ \A p \in Poster : pc'[p] = pc[p] \/ pc'[p] \in {"idle", "post"}
  BY EngineLeavesBills DEF EngineInvariant
<1>2. \A p \in Poster : Kind[p] = "drain" => pc'[p] = pc[p]
  <2>1. \A p \in Poster : p # w => pc'[p] = pc[p]
    BY QuietSteps
       DEF WorkerStep, WorkerTrouble, Quiet, vars, local, Goto, LockPlan, LeavePlan,
           LockPlanUnavailable, WriteReference, ActionFails, MoveBoxStage, MoveToException, PostBill,
           PostReturns, PostTimesOut, WorkerCrash, CTypeOK, TypeOK
  <2>2. Kind[w] # "drain"  BY CoordinationAssumption
  <2> QED BY <2>1, <2>2
<1>3. erpRef => erpRef'
  <2>1. [CNext]_cvars  BY DEF CNext
  <2> QED BY <2>1, ReferenceStays
<1>4. erpRef' => erpRef \/ bills # {}
  <2>1. CASE WriteReference(w)
    BY <2>1 DEF WriteReference, At, Grounded
  <2>2. CASE ~WriteReference(w)
    BY <2>2, QuietSteps
       DEF WorkerStep, WorkerTrouble, Quiet, vars, item, LockPlan, LeavePlan,
           LockPlanUnavailable, ActionFails, MoveBoxStage, MoveToException, PostBill, PostReturns,
           PostTimesOut, WorkerCrash
  <2> QED BY <2>1, <2>2
<1>5. Backed'
  BY <1>1, <1>3, <1>4 DEF Grounded, Backed
<1>6. Budget'
  BY <1>1 DEF Grounded, Budget, JobBudget
<1>7. DrainOwnsJob'
  BY <1>1, <1>2 DEF Grounded, DrainOwnsJob
<1> QED BY <1>5, <1>6, <1>7

\* Bills are never taken back.
LEMMA BillsGrow == CTypeOK /\ EngineInvariant /\ [CNext]_cvars => bills \subseteq bills'
<1> SUFFICES ASSUME CTypeOK, EngineInvariant, [CNext]_cvars PROVE bills \subseteq bills'
  OBVIOUS
<1>1. CASE [Next]_vars
  BY <1>1 DEF Next, vars, erp, Revert, SessionCloses, Start, PosterStep, Disturb, ApproveStart,
     AutoStart, ClaimJob, RetryStart, Resume, WalkStep, WalkFails, TakeLock,
     LockHeld, Guard, PrePostValidate, LookupBill, CreateBill, Accept, Respond,
     RecordPosted, RecordPostedRaises, RecordFailed, RecordFailedRaises, Close,
     SettleJob, LockUnavailable, LookupRaises, RefuseBill, AbandonBill,
     HandleLate, DrainTimeout, Crash
<1>2. ASSUME NEW w \in Worker, WorkerStep(w) \/ WorkerTrouble(w), ~Posting(w)
      PROVE  bills \subseteq bills'
  BY <1>2, EngineLeavesBills DEF EngineInvariant
<1> QED BY <1>1, <1>2, StepCases

\* Only a call that came back with a success reaches the backstop.
LEMMA BackstopNext ==
  ASSUME CTypeOK, EngineInvariant, Grounded, [CNext]_cvars, NEW w \in Worker,
         phase'[w] = "backstop"
  PROVE  bills' # {}
<1>1. bills \subseteq bills'  BY BillsGrow
<1>2. CASE phase[w] = "backstop"  BY <1>1, <1>2 DEF Grounded
<1>3. CASE phase[w] # "backstop"
  <2>1. PostReturns(w) /\ result[w] = "success"
    <3>1. PICK v \in Worker : WorkerStep(v) \/ WorkerTrouble(v)
      BY <1>3 DEF CNext, cvars, plans, engine, Enqueue, Redeliver, Take, To, CTypeOK
    <3> USE DEF At, To, NextAction, CTypeOK, Granted
    <3>2. CASE WorkerTrouble(v)
      BY <1>3, <3>2 DEF WorkerTrouble, LockPlanUnavailable, PreWriteFails, GateBlocks,
         GateRaises, ActionFails, ValidateRefuses, PostTimesOut, WorkerCrash
    <3>3. CASE WorkerStep(v) /\ ~PostReturns(v)
      BY <1>3, <3>3 DEF WorkerStep, LockPlan, LockPlanHeld, PreWrite, Gate, Complete,
         Simple, Validate, MoveBoxStage, PostBill, Posting, plans, engine,
         WriteReference, MoveToException, LeavePlan
    <3>4. CASE PostReturns(v)
      BY <1>3, <3>4 DEF PostReturns
    <3> QED BY <3>1, <3>2, <3>3, <3>4
  <2> QED BY <1>1, <2>1, CoordinationAssumption DEF Grounded, Backed
<1> QED BY <1>2, <1>3

LEMMA GroundedNext ==
  CTypeOK /\ EngineInvariant /\ Grounded /\ [CNext]_cvars => Grounded'
<1> SUFFICES ASSUME CTypeOK, EngineInvariant, Grounded, [CNext]_cvars PROVE Grounded'
  OBVIOUS
<1>1. (Backed /\ Budget /\ DrainOwnsJob)'
  <2>1. CASE [Next]_vars
    BY <2>1, BackedStep, BudgetStep, DrainOwnsJobStep DEF CTypeOK, Grounded
  <2>2. CASE ~[Next]_vars
    BY <2>2, StepCases, EngineKeepsParts
  <2> QED BY <2>1, <2>2
<1>2. \A w \in Worker : phase'[w] = "backstop" => bills' # {}
  BY BackstopNext
<1> QED BY <1>1, <1>2 DEF Grounded

BothInvariant == CTypeOK /\ EngineInvariant /\ NoSecondBill /\ Grounded

\* InvoicePosting's steps, seen through the reference.
LEMMA DirectRefines ==
  ASSUME BothInvariant, Next, troubles' = troubles
  PROVE  Both!OnceNext \/ UNCHANGED Both!once
<1> DEFINE Broken == Excused \/ "slow" \in troubles
<1> USE DEF BothInvariant, CTypeOK, Excused
<1>0. Broken \/ NoBillYet
  BY DEF NoSecondBill
<1>1. ASSUME UNCHANGED <<bills, erpRef, job, attempts>>
      PROVE  Both!OnceNext \/ UNCHANGED Both!once
  <2>1. faults \subseteq faults'  BY FaultsGrow
  <2> QED BY <1>1, <2>1 DEF Both!Excuse, Both!OnceNext, Both!once
<1>2. ASSUME NEW p \in Poster, Accept(p), Broken \/ bills = {}, UNCHANGED Broken,
             UNCHANGED <<erpRef, job, attempts>>
      PROVE  Both!OnceNext \/ UNCHANGED Both!once
  BY <1>2 DEF Accept, Both!MakeBill, Both!OnceNext, Both!once
<1> USE DEF Fault, item, erp, queue, local, count
<1>3. CASE Revert \/ SessionCloses  BY <1>1, <1>3 DEF Revert, SessionCloses
<1>4. ASSUME NEW p \in Poster, Seen(p)
      PROVE  Both!OnceNext \/ UNCHANGED Both!once
  <2>1. CASE ClaimJob(p)
    BY <2>1 DEF ClaimJob, Grounded, Budget, Both!Claim, Both!OnceNext
  <2>2. CASE CreateBill(p)
    <3>1. Broken \/ bills = {}
      BY <1>0, <2>2 DEF CreateBill, NoBillYet, Careful
    <3>2. UNCHANGED Broken
      BY <2>2 DEF CreateBill
    <3> QED BY <1>2, <2>2, <3>1, <3>2 DEF CreateBill
  <2>3. CASE HandleLate(p)
    <3>1. Broken
      BY <1>0, <2>3 DEF HandleLate, NoBillYet, Careful
    <3> QED BY <1>2, <2>3, <3>1 DEF HandleLate
  <2>4. CASE RecordPosted(p)
    BY <2>4 DEF RecordPosted, Grounded, Backed, Both!Record, Both!OnceNext, Both!once
  <2>5. CASE RecordFailed(p)
    BY <2>5 DEF RecordFailed, EnqueueRetry, Both!Enqueue, Both!OnceNext, Both!once
  <2>6. CASE SettleJob(p)
    <3>1. job = "running" /\ (result[p] = "success" => erpRef)
      BY <2>6 DEF SettleJob, Grounded, DrainOwnsJob, Backed
    <3> QED BY <2>6, <3>1 DEF SettleJob, Both!Settle, Both!OnceNext
  <2> QED BY <1>4, <2>1, <2>2, <2>3, <2>4, <2>5, <2>6 DEF Seen
<1>5. ASSUME NEW p \in Poster, Start(p) \/ PosterStep(p) \/ Disturb(p), ~Seen(p)
      PROVE  UNCHANGED <<bills, erpRef, job, attempts>>
  BY <1>5 DEF Seen, Start, PosterStep, Disturb, ApproveStart, AutoStart, RetryStart,
     Resume, WalkStep, WalkFails, TakeLock, LockHeld, Guard, PrePostValidate,
     LookupBill, Respond, RecordPostedRaises, RecordFailedRaises, Close,
     LockUnavailable, LookupRaises, RefuseBill, AbandonBill, DrainTimeout, Crash
<1> QED BY <1>1, <1>3, <1>4, <1>5 DEF Next

\* An engine's own steps: the reference of a bill that is there, and the timeout
\* after which bills are no longer counted.
LEMMA EngineRefines ==
  ASSUME BothInvariant, NEW w \in Worker, WorkerStep(w) \/ WorkerTrouble(w),
         ~Posting(w)
  PROVE  Both!OnceNext \/ UNCHANGED Both!once
<1>1. UNCHANGED <<bills, faults, job, attempts>>
  BY EngineLeavesBills DEF BothInvariant, EngineInvariant
<1>2. troubles \subseteq troubles' /\ [CNext]_cvars
  BY TroublesGrow DEF CNext
<1>3. CASE WriteReference(w)
  <2>1. bills # {} /\ erpRef' = TRUE /\ UNCHANGED troubles
    BY <1>3 DEF WriteReference, At, BothInvariant, Grounded
  <2> QED BY <1>1, <2>1 DEF Excused, Both!Record, Both!OnceNext, Both!once,
             BothInvariant, CTypeOK, TypeOK
<1>4. CASE ~WriteReference(w)
  <2>1. erpRef' = erpRef
    BY <1>4, QuietSteps
       DEF WorkerStep, WorkerTrouble, Quiet, vars, item, LockPlan, LeavePlan,
           LockPlanUnavailable, ActionFails, MoveBoxStage, MoveToException, PostBill, PostReturns,
           PostTimesOut, WorkerCrash
  <2> QED BY <1>1, <1>2, <2>1 DEF Excused, Both!Excuse, Both!OnceNext, Both!once
<1> QED BY <1>3, <1>4

LEMMA BothStepRefines == BothInvariant /\ [CNext]_cvars => [Both!OnceNext]_(Both!once)
<1> SUFFICES ASSUME BothInvariant, [CNext]_cvars
             PROVE  Both!OnceNext \/ UNCHANGED Both!once
  OBVIOUS
<1>1. ASSUME UNCHANGED <<vars, troubles>> PROVE UNCHANGED Both!once
  BY <1>1 DEF Both!once, Excused, vars, item, erp, queue, count
<1>2. CASE UNCHANGED cvars  BY <1>1, <1>2 DEF cvars, plans
<1>3. CASE Direct /\ UNCHANGED plans
  BY <1>3, DirectIsNext, DirectRefines DEF plans
<1>4. CASE \E e \in Event : Enqueue(e) \/ Redeliver(e)
  BY <1>1, <1>4 DEF Enqueue, Redeliver
<1>5. CASE \E w \in Worker, e \in Event : Take(w, e)
  BY <1>1, <1>5 DEF Take
<1>6. ASSUME NEW w \in Worker, WorkerStep(w) \/ WorkerTrouble(w)
      PROVE  Both!OnceNext \/ UNCHANGED Both!once
  <2>1. CASE Posting(w)
    BY <2>1, PostIsNext, DirectRefines DEF Posting, plans
  <2>2. CASE ~Posting(w)
    BY <1>6, <2>2, EngineRefines
  <2> QED BY <2>1, <2>2
<1> QED BY <1>2, <1>3, <1>4, <1>5, <1>6 DEF CNext

\* Any number of workers, redelivered events and unguarded plans, together with
\* any number of direct calls, implement PostOnce: the second path adds no bill,
\* no reference without a bill and no try of the retry job.
THEOREM BothPathsImplementPostOnce == CSpec => BothPathsPostOnce
<1>1. CInit => Both!OnceInit /\ NoSecondBill /\ Grounded
  BY PostingAssumption
     DEF CInit, Init, Both!OnceInit, Excused, NoSecondBill, NoBillYet, Grounded,
         Backed, Budget, JobBudget, DrainOwnsJob
<1>2. CTypeOK /\ EngineInvariant /\ NoSecondBill /\ [CNext]_cvars => NoSecondBill'
  BY NoSecondBillNext
<1>3. CTypeOK /\ EngineInvariant /\ Grounded /\ [CNext]_cvars => Grounded'
  BY GroundedNext
<1>4. CTypeOK /\ EngineInvariant /\ NoSecondBill /\ Grounded => BothInvariant
  BY DEF BothInvariant
<1> QED BY <1>1, <1>2, <1>3, <1>4, BothStepRefines, CoordinationTypeCorrect,
           EngineInvariantHolds, PTL DEF CSpec, BothPathsPostOnce, Both!OnceSpec
=============================================================================
