--------------------------- MODULE InvoicePosting ---------------------------
(***************************************************************************)
(* Posting one AP item to the ERP: solden/services/invoice_posting.py with *)
(* the auto-approval of invoice_workflow.py, the retry-job drain of        *)
(* agent_retry_jobs.py, the revert of approval_revert.py and the ERP       *)
(* dispatch of erp_router.py.                                              *)
(*                                                                         *)
(* A poster is one call in some process; each database transaction or ERP  *)
(* request is a step.  update_ap_item is one step here (APItemStore models *)
(* what happens inside it).  The ERP is external: it keeps bills.          *)
(***************************************************************************)
EXTENDS APStates, Naturals, FiniteSets

CONSTANTS
  Poster,      \* concurrent calls that end in _post_to_erp
  NoPoster,    \* the per-box advisory lock is free
  OtherHolder, \* sessions of other code that takes the same lock
  Pooled,      \* an idle session of the pool that still holds the lock
  Kind,        \* Poster -> which entry point the call comes through
  Bill,        \* identities the ERP gives to bills
  PreCheck,    \* the adapter looks the bill up by invoice number first
  KeyDedup,    \* the ERP replays the answer of a request key it has seen
  MaxRetries,  \* max_retries of a retry job
  MaxCalls,    \* bound: Poster -> calls it makes
  FaultKind,   \* the faults that may happen
  MaxFaults    \* bound: kinds of fault in one behaviour, each as often as
               \* the calls allow; "unlock" is not counted

Kinds == {"approve", "auto", "drain", "retry"}

ASSUME PostingAssumption ==
  /\ NoPoster \notin Poster
  /\ OtherHolder \cap (Poster \cup {NoPoster, Pooled}) = {}
  /\ Pooled \notin Poster \cup {NoPoster}
  /\ Kind \in [Poster -> Kinds]
  /\ PreCheck \in BOOLEAN /\ KeyDedup \in BOOLEAN
  /\ MaxRetries \in Nat \ {0}
  /\ MaxCalls \in [Poster -> Nat] /\ MaxFaults \in Nat
  /\ FaultKind \subseteq {"refused", "lost", "lookup", "pool", "crash",
                          "timeout", "revert", "late", "unlock"}

VARIABLES
  state,     \* ap_items.state
  erpRef,    \* ap_items.erp_reference is set
  flagged,   \* a critical exception_code asks an operator to reconcile
  bills,     \* the bills the ERP has created for this invoice
  billKey,   \* Bill -> idempotency key of the request that created it
  late,      \* callers that gave up on a request the ERP has yet to handle
  lock,      \* holder of the per-box advisory lock
  pc,        \* Poster -> where the call is
  seen,      \* Poster -> the state the call last read
  result,    \* Poster -> the status _post_to_erp came back with
  claimed,   \* approvers whose decision key was claimed
  job,       \* status of the item's one erp_post_retry job
  attempts,  \* its retry_count
  calls,     \* Poster -> calls made so far
  faults     \* the kinds of fault that have happened

item  == <<state, erpRef, flagged>>
erp   == <<bills, billKey, late>>
queue == <<job, attempts>>
local == <<pc, seen, result>>
count == <<claimed, calls, faults>>
vars  == <<item, erp, lock, local, queue, count>>

Section   == {"guard", "validate", "lookup", "create", "respond"}
JobStatus == {"none", "pending", "running", "completed", "dead_letter"}
Results   == {"none", "success", "already_posted", "transient", "hard", "dead"}

\* The idempotency key a call posts with: the click's decision key, the auto
\* key of the item, or the one resume key of the item.
PostKey(p) ==
  CASE Kind[p] = "approve" -> <<"decision", p>>
    [] Kind[p] = "auto"    -> <<"auto">>
    [] OTHER               -> <<"resume">>

Keys == {PostKey(p) : p \in Poster}

Init ==
  /\ state \in {"validated", "needs_approval"}
  /\ erpRef = FALSE /\ flagged = FALSE
  /\ bills = {} /\ billKey = [b \in Bill |-> <<"none">>]
  /\ late = {}
  /\ lock = NoPoster
  /\ pc = [p \in Poster |-> "idle"]
  /\ seen = [p \in Poster |-> state]
  /\ result = [p \in Poster |-> "none"]
  /\ claimed = {}
  /\ job = "none" /\ attempts = 0
  /\ calls = [p \in Poster |-> 0] /\ faults = {}

Fault(k) == /\ k \in FaultKind
            /\ faults' = faults \cup {k}
            /\ Cardinality(faults') <= MaxFaults

Goto(p, l)    == pc' = [pc EXCEPT ![p] = l]
Answer(p, r)  == result' = [result EXCEPT ![p] = r]
Called(p)     == /\ calls[p] < MaxCalls[p]
                 /\ calls' = [calls EXCEPT ![p] = @ + 1]

\* release_box_lock: an unlock that raises is swallowed, and the session goes back
\* to the pool with the lock.
Unlocked   == {NoPoster} \cup IF "unlock" \in FaultKind THEN {Pooled} ELSE {}
Release(p) == lock' \in IF lock = p THEN Unlocked ELSE {lock}

\* pg_try_advisory_lock finds the lock free, or asks on the very session that was
\* pooled with it.
CanLock == lock \in {NoPoster, Pooled}

\* No connection for the lock, or acquire_box_lock fails after it was granted and
\* returns the session to the pool with it.
NoLock == lock' \in {lock} \cup IF lock = NoPoster THEN {Pooled} ELSE {}

\* Where a call ends: the drain still has to settle its job.
Finish(p) == Goto(p, IF Kind[p] = "drain" THEN "settle" ELSE "idle")

\* _transition_invoice_state: a move to the state the item is in already only
\* updates other columns, a move the graph lacks raises.
CanMove(t) == state = t \/ ValidTransition(state, t)

-----------------------------------------------------------------------------
(* Entry points *)

\* approve_invoice up to the walk: refuse a posted item, claim the decision key.
\* An approved item is approved once more, like one that needs approval.
ApproveStart(p) ==
  /\ Kind[p] = "approve" /\ pc[p] = "idle" /\ p \notin claimed
  /\ state \notin {"posted_to_erp", "closed"}
  /\ erpRef => state \in {"needs_approval", "validated"}
  /\ Called(p)
  /\ claimed' = claimed \cup {p}
  /\ seen' = [seen EXCEPT ![p] = IF state = "approved" THEN "needs_approval"
                                 ELSE state]
  /\ Goto(p, "walk")
  /\ UNCHANGED <<item, erp, lock, result, queue, faults>>

\* _auto_approve_and_post, reached by an item intake has just validated.
AutoStart(p) ==
  /\ Kind[p] = "auto" /\ pc[p] = "idle"
  /\ state = "validated"
  /\ Called(p)
  /\ seen' = [seen EXCEPT ![p] = state]
  /\ Goto(p, "walk")
  /\ UNCHANGED <<item, erp, lock, result, queue, claimed, faults>>

\* claim_agent_retry_job: one conditional UPDATE.
ClaimJob(p) ==
  /\ Kind[p] = "drain" /\ pc[p] = "idle"
  /\ job = "pending"
  /\ job' = "running" /\ attempts' = attempts + 1
  /\ Called(p)
  /\ Goto(p, "resume")
  /\ UNCHANGED <<item, erp, lock, seen, result, claimed, faults>>

\* A batch retry or a self-recovery calls resume_workflow directly.
RetryStart(p) ==
  /\ Kind[p] = "retry" /\ pc[p] = "idle"
  /\ Called(p)
  /\ Goto(p, "resume")
  /\ UNCHANGED <<item, erp, lock, seen, result, queue, claimed, faults>>

\* Mutant: whatever is not posted yet is resumed.
ResumeOpenItem(p) ==
  /\ pc[p] = "resume"
  /\ seen' = [seen EXCEPT ![p] = state]
  /\ \/ /\ state \notin {"posted_to_erp", "closed"}
        /\ Goto(p, "walk") /\ UNCHANGED result
     \/ /\ state \in {"posted_to_erp", "closed"}
        /\ Finish(p) /\ Answer(p, "dead")
  /\ UNCHANGED <<item, erp, lock, queue, count>>

\* resume_workflow resumes failed_post and ready_to_post and nothing else.
Resume(p) ==
  /\ pc[p] = "resume"
  /\ seen' = [seen EXCEPT ![p] = state]
  /\ \/ state = "failed_post" /\ Goto(p, "walk") /\ UNCHANGED result
     \/ state = "ready_to_post" /\ Goto(p, "post") /\ UNCHANGED result
     \/ /\ state \notin {"failed_post", "ready_to_post"}
        /\ Finish(p) /\ Answer(p, "dead")
  /\ UNCHANGED <<item, erp, lock, queue, count>>

-----------------------------------------------------------------------------
(* The walk to ready_to_post *)

\* The next state each entry point asks for, given the state it last read; a
\* resume only steps back from failed_post.
WalkTarget(p) ==
  CASE seen[p] = "failed_post" /\ Kind[p] \in {"drain", "retry"} -> "ready_to_post"
    [] seen[p] = "validated"      -> "needs_approval"
    [] seen[p] = "needs_approval" -> "approved"
    [] seen[p] \in {"approved", "ready_to_post"} -> "ready_to_post"
    [] OTHER -> "none"

WalkStep(p) ==
  /\ pc[p] = "walk" /\ WalkTarget(p) # "none"
  /\ CanMove(WalkTarget(p))
  /\ state' = WalkTarget(p)
  /\ seen' = [seen EXCEPT ![p] = WalkTarget(p)]
  /\ Goto(p, IF WalkTarget(p) = "ready_to_post" THEN "post" ELSE "walk")
  /\ UNCHANGED <<erpRef, flagged, erp, lock, result, queue, count>>

\* The state cannot be posted from, or the transition raises out of the call:
\* a drain that dies of it never settles its job.
WalkFails(p) ==
  /\ pc[p] = "walk"
  /\ WalkTarget(p) = "none" \/ ~CanMove(WalkTarget(p))
  /\ Goto(p, "idle")
  /\ UNCHANGED <<item, erp, lock, seen, result, queue, count>>

-----------------------------------------------------------------------------
(* _post_to_erp *)

\* Mutant: the advisory lock is granted to everyone.
TakeAnyLock(p) ==
  /\ pc[p] = "post"
  /\ lock' = p
  /\ Goto(p, "guard")
  /\ UNCHANGED <<item, erp, seen, result, queue, count>>

TakeLock(p) ==
  /\ pc[p] = "post" /\ CanLock
  /\ lock' = p
  /\ Goto(p, "guard")
  /\ UNCHANGED <<item, erp, seen, result, queue, count>>

\* "held": duplicate_in_progress, which no caller tells from a failed post.
LockHeld(p) ==
  /\ pc[p] = "post" /\ lock # NoPoster
  /\ Goto(p, "record") /\ Answer(p, "hard")
  /\ UNCHANGED <<item, erp, lock, seen, queue, count>>

\* "no_infra": the post proceeds without the lock.
LockUnavailable(p) ==
  /\ pc[p] = "post" /\ Fault("pool")
  /\ NoLock
  /\ Goto(p, "guard")
  /\ UNCHANGED <<item, erp, seen, result, queue, claimed, calls>>

\* Every way out of the section releases the lock before the caller records
\* the result on the item.
Leave(p, r) == Release(p) /\ Goto(p, "record") /\ Answer(p, r)

Guard(p) ==
  /\ pc[p] = "guard"
  /\ IF state = "ready_to_post"
     THEN Goto(p, "validate") /\ UNCHANGED <<lock, result>>
     ELSE Leave(p, "hard")
  /\ UNCHANGED <<item, erp, seen, queue, count>>

\* pre_post_validate re-reads the item after the vendor lookup.
PrePostValidate(p) ==
  /\ pc[p] = "validate"
  /\ IF ~erpRef /\ state \in {"ready_to_post", "approved"}
     THEN /\ Goto(p, IF PreCheck THEN "lookup" ELSE "create")
          /\ UNCHANGED <<lock, result>>
     ELSE Leave(p, "hard")
  /\ UNCHANGED <<item, erp, seen, queue, count>>

\* Mutant: the bill is looked up under the request's own key.
LookupBillOfKey(p) ==
  /\ pc[p] = "lookup"
  /\ IF \E b \in bills : billKey[b] = PostKey(p)
     THEN Leave(p, "already_posted")
     ELSE Goto(p, "create") /\ UNCHANGED <<lock, result>>
  /\ UNCHANGED <<item, erp, seen, queue, count>>

\* find_bill_* by invoice number, whoever posted it.
LookupBill(p) ==
  /\ pc[p] = "lookup"
  /\ IF bills # {}
     THEN Leave(p, "already_posted")
     ELSE Goto(p, "create") /\ UNCHANGED <<lock, result>>
  /\ UNCHANGED <<item, erp, seen, queue, count>>

\* A lookup that raises is not fatal: the post goes on.
LookupRaises(p) ==
  /\ pc[p] = "lookup" /\ Fault("lookup")
  /\ Goto(p, "create")
  /\ UNCHANGED <<item, erp, lock, seen, result, queue, claimed, calls>>

Replayed(p) == KeyDedup /\ \E b \in bills : billKey[b] = PostKey(p)

\* The ERP handles a request: a new bill unless it replays the key's answer.
Accept(p) ==
  \/ Replayed(p) /\ UNCHANGED <<bills, billKey>>
  \/ /\ ~Replayed(p)
     /\ \E b \in Bill \ bills :
          /\ bills' = bills \cup {b}
          /\ billKey' = [billKey EXCEPT ![b] = PostKey(p)]

\* The answer may be lost on the way back, which reads as a timeout.
CreateBill(p) ==
  /\ pc[p] = "create"
  /\ Accept(p) /\ UNCHANGED late
  /\ \/ Answer(p, "success") /\ UNCHANGED faults
     \/ Answer(p, "transient") /\ Fault("lost")
  /\ Goto(p, "respond")
  /\ UNCHANGED <<item, lock, seen, queue, claimed, calls>>

\* The caller times out before the ERP has handled its request.
AbandonBill(p) ==
  /\ pc[p] = "create" /\ Fault("late")
  /\ late' = late \cup {p}
  /\ Answer(p, "transient") /\ Goto(p, "respond")
  /\ UNCHANGED <<item, bills, billKey, lock, seen, queue, claimed, calls>>

HandleLate(p) ==
  /\ p \in late
  /\ Accept(p)
  /\ late' = late \ {p}
  /\ UNCHANGED <<item, lock, local, queue, count>>

\* The vendor is missing or the ERP refuses: no bill.
RefuseBill(p) ==
  /\ pc[p] = "create" /\ Fault("refused")
  /\ \E r \in {"transient", "hard"} : Answer(p, r)
  /\ Goto(p, "respond")
  /\ UNCHANGED <<item, erp, lock, seen, queue, claimed, calls>>

\* The adapter returns and the finally clause unlocks.
Respond(p) ==
  /\ pc[p] = "respond"
  /\ Leave(p, result[p])
  /\ UNCHANGED <<item, erp, seen, queue, count>>

-----------------------------------------------------------------------------
(* Recording the result on the item *)

\* Mutant: a timed-out post is recorded like a successful one.
RecordAnyPost(p) ==
  /\ pc[p] = "record" /\ result[p] # "hard"
  /\ CanMove("posted_to_erp")
  /\ state' = "posted_to_erp" /\ erpRef' = TRUE
  /\ Goto(p, "close")
  /\ UNCHANGED <<flagged, erp, lock, seen, result, queue, count>>

RecordPosted(p) ==
  /\ pc[p] = "record" /\ result[p] = "success"
  /\ CanMove("posted_to_erp")
  /\ state' = "posted_to_erp" /\ erpRef' = TRUE
  /\ Goto(p, "close")
  /\ UNCHANGED <<flagged, erp, lock, seen, result, queue, count>>

\* The transition raises although the ERP has the bill.  Only the auto path
\* leaves a mark on the item before it re-raises.
RecordPostedRaises(p) ==
  /\ pc[p] = "record" /\ result[p] = "success"
  /\ ~CanMove("posted_to_erp")
  /\ flagged' = (flagged \/ Kind[p] = "auto")
  /\ Goto(p, "idle")
  /\ UNCHANGED <<state, erpRef, erp, lock, seen, result, queue, count>>

\* _enqueue_erp_post_retry: one job per item, for ever.
EnqueueRetry ==
  /\ job' = IF job = "none" THEN "pending" ELSE job
  /\ UNCHANGED attempts

\* Mutant: the failure is written whatever state the item is in.
RecordFailedBlindly(p) ==
  /\ pc[p] = "record" /\ result[p] # "success"
  /\ state' = "failed_post"
  /\ Finish(p)
  /\ UNCHANGED <<erpRef, flagged, erp, lock, seen, result, queue, count>>

\* Everything that is not "success" is a failed post, already_posted and
\* duplicate_in_progress included.
RecordFailed(p) ==
  /\ pc[p] = "record" /\ result[p] # "success"
  /\ CanMove("failed_post")
  /\ state' = "failed_post"
  /\ IF Kind[p] = "approve" /\ result[p] = "transient"
     THEN EnqueueRetry ELSE UNCHANGED queue
  /\ Finish(p)
  /\ UNCHANGED <<erpRef, flagged, erp, lock, seen, result, count>>

RecordFailedRaises(p) ==
  /\ pc[p] = "record" /\ result[p] # "success"
  /\ ~CanMove("failed_post")
  /\ Goto(p, "idle")
  /\ UNCHANGED <<item, erp, lock, seen, result, queue, count>>

\* posted_to_erp -> closed; a failure is only logged.
Close(p) ==
  /\ pc[p] = "close"
  /\ state' = IF CanMove("closed") THEN "closed" ELSE state
  /\ Finish(p)
  /\ UNCHANGED <<erpRef, flagged, erp, lock, seen, result, queue, count>>

-----------------------------------------------------------------------------
(* The retry job *)

\* Mutant: a failed attempt leaves the job running.
SettleJobSilently(p) ==
  /\ pc[p] = "settle"
  /\ job' = IF result[p] = "success" THEN "completed" ELSE job
  /\ Goto(p, "idle")
  /\ UNCHANGED <<item, erp, lock, seen, result, attempts, count>>

\* drain_agent_retry_jobs after resume_workflow returned.
SettleJob(p) ==
  /\ pc[p] = "settle"
  /\ job' = CASE result[p] = "success" -> "completed"
              [] result[p] \notin {"success", "dead"}
                   /\ attempts < MaxRetries -> "pending"
              [] OTHER -> "dead_letter"
  /\ flagged' = (flagged \/ job' = "dead_letter")
  /\ Goto(p, "idle")
  /\ UNCHANGED <<state, erpRef, erp, lock, seen, result, attempts, count>>

\* asyncio.wait_for cancels a resume that waits for the ERP.
DrainTimeout(p) ==
  /\ Kind[p] = "drain" /\ pc[p] \in Section /\ Fault("timeout")
  /\ Release(p) /\ Goto(p, "settle") /\ Answer(p, "dead")
  /\ UNCHANGED <<item, erp, seen, queue, claimed, calls>>

-----------------------------------------------------------------------------
(* Others *)

\* attempt_approval_revert takes no lock.
Revert ==
  /\ state \in {"approved", "ready_to_post"} /\ Fault("revert")
  /\ state' = "needs_approval"
  /\ UNCHANGED <<erpRef, flagged, erp, lock, local, queue, claimed, calls>>

\* The poster's process dies; its session's advisory lock goes with it.
Crash(p) ==
  /\ pc[p] # "idle" /\ Fault("crash")
  /\ lock' = IF lock = p THEN NoPoster ELSE lock
  /\ Goto(p, "idle")
  /\ UNCHANGED <<item, erp, seen, result, queue, claimed, calls>>

\* The pool closes an idle session in the end, or its process dies.
SessionCloses ==
  /\ lock = Pooled
  /\ lock' = NoPoster
  /\ UNCHANGED <<item, erp, local, queue, count>>

PosterStep(p) ==
  \/ Resume(p) \/ WalkStep(p) \/ WalkFails(p)
  \/ TakeLock(p) \/ LockHeld(p) \/ Guard(p) \/ PrePostValidate(p)
  \/ LookupBill(p) \/ CreateBill(p) \/ Respond(p)
  \/ RecordPosted(p) \/ RecordPostedRaises(p)
  \/ RecordFailed(p) \/ RecordFailedRaises(p)
  \/ Close(p) \/ SettleJob(p)

Start(p) == ApproveStart(p) \/ AutoStart(p) \/ ClaimJob(p) \/ RetryStart(p)

Disturb(p) ==
  \/ LockUnavailable(p) \/ LookupRaises(p) \/ RefuseBill(p)
  \/ AbandonBill(p) \/ HandleLate(p)
  \/ DrainTimeout(p) \/ Crash(p)

Next == Revert \/ SessionCloses \/ \E p \in Poster : Start(p) \/ PosterStep(p) \/ Disturb(p)

\* Calls run to their end while their process lives; the drain polls.
Fairness == \A p \in Poster : WF_vars(PosterStep(p)) /\ WF_vars(ClaimJob(p))

Spec     == Init /\ [][Next]_vars
FairSpec == Spec /\ Fairness

-----------------------------------------------------------------------------
(* Properties *)

\* Every variable stays in its set.
TypeOK ==
  /\ state \in APState
  /\ erpRef \in BOOLEAN /\ flagged \in BOOLEAN
  /\ bills \in SUBSET Bill
  /\ billKey \in [Bill -> Keys \cup {<<"none">>}]
  /\ late \in SUBSET Poster
  /\ lock \in Poster \cup {NoPoster, Pooled} \cup OtherHolder
  /\ pc \in [Poster -> Section \cup {"idle", "resume", "walk", "post",
                                     "record", "close", "settle"}]
  /\ seen \in [Poster -> APState]
  /\ result \in [Poster -> Results]
  /\ claimed \in SUBSET Poster
  /\ job \in JobStatus /\ attempts \in Nat
  /\ calls \in [Poster -> Nat] /\ faults \in SUBSET FaultKind

\* As long as a pool connection for the lock was always found, at most one
\* call is between the lock and the unlock of _post_to_erp.
OnePosterInside ==
  "pool" \notin faults =>
    \A p, q \in Poster : pc[p] \in Section /\ pc[q] \in Section => p = q

\* An adapter that looks the bill up never creates a second bill for the
\* invoice, whichever entry points race, whatever answer is lost and wherever
\* a process dies, until a call goes on without the lock or without its lookup
\* or the ERP handles a request after its caller gave up on it.
AtMostOneBill ==
  {"pool", "lookup", "late"} \cap faults = {} => \A a, b \in bills : a = b

\* An item that says it was posted has a bill in the ERP behind it.
PostedIsReal ==
  /\ state \in {"posted_to_erp", "closed"} => erpRef
  /\ erpRef => bills # {}

\* The ERP gets a bill only after an approver or the auto-approval has released
\* the item: no resume, drain or retry posts what nobody approved, in whatever
\* state it meets the item.
Released == claimed # {} \/ \E p \in Poster : Kind[p] = "auto" /\ calls[p] > 0

BillsNeedApproval == bills # {} => Released

\* The faults after which AtMostOneBill promises nothing any more.
Excused == ~PreCheck \/ {"pool", "lookup", "late"} \cap faults # {}

Once == INSTANCE PostOnce
          WITH recorded <- state \in {"posted_to_erp", "closed"}, excused <- Excused

\* Entry points that race, die, time out and retry implement PostOnce: the bills,
\* what the item says of them and the retry job agree at every step.
ImplementsPostOnce == Once!OnceSpec

\* Once a posting is recorded, a slower call that failed cannot take the item
\* back to a state from which it is posted again.
PostedSticks == [][erpRef => erpRef' /\ state' \in {"posted_to_erp", "closed"}]_vars

\* The retry job is tried at most max_retries times, even when resumes die,
\* are cancelled, or meet another poster.
JobBudget == attempts <= MaxRetries

\* A claimed job is settled: completed, rescheduled or dead-lettered.
JobSettles == (job = "running") ~> (job # "running")

\* A post that failed for a transient reason is retried until the item is
\* closed or the job is dead-lettered.
FailedPostRecovers ==
  (job = "pending") ~> (state = "closed" \/ job = "dead_letter")
=============================================================================
