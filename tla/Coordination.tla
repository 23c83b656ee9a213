---------------------------- MODULE Coordination ----------------------------
(***************************************************************************)
(* The event-driven path beside the direct one.  A click on an approval    *)
(* card, or a label in Gmail, is an event: a Celery worker turns it into   *)
(* a plan (core/planning_engine.py) that CoordinationEngine.execute        *)
(* (core/coordination_engine.py) runs one action at a time.  The click is  *)
(* handled at once as well (api/slack_invoices.py), by the calls that      *)
(* InvoicePosting models.  Both write one item, and both take its advisory *)
(* lock.                                                                   *)
(*                                                                         *)
(* A worker whose plan posts the bill is a poster: it goes through the     *)
(* steps of _post_to_erp that InvoicePosting defines, and its own          *)
(* bookkeeping replaces what approve_invoice does with the result.         *)
(***************************************************************************)
EXTENDS InvoicePosting, Sequences

CONSTANTS
  Worker,         \* the posters that are Celery workers
  Event, NoEvent, \* events about the item; nothing in hand
  EngineRetries,  \* _MAX_RETRIES of an action that times out
  MaxTroubles,    \* bound: kinds of fault that meet the engines
  MaxDeliveries   \* bound: how often the queue delivers one event

\* The engine holds the lock on a connection of its own: for the lock it is
\* another session than the call it makes to _post_to_erp.
Session(w)  == <<"engine", w>>
Sessions    == {Session(w) : w \in Worker}
Caller      == Poster \ Worker
EngineFault == {"plan_pool", "timeline", "gate", "refused", "slow", "crash"}
Requests    == {"approve", "reject", "info"}

ASSUME CoordinationAssumption ==
  /\ Worker \subseteq Poster
  /\ \A w \in Worker : Kind[w] = "auto"
  /\ Sessions \subseteq OtherHolder
  /\ NoEvent \notin Event
  /\ EngineRetries \in Nat /\ MaxDeliveries \in Nat
  /\ MaxTroubles \in Nat

VARIABLES
  asked,      \* Event -> what the click or the label asks for
  queued,     \* Event -> copies waiting for a worker
  sent,       \* Event -> deliveries so far
  phase,      \* Worker -> where its engine is
  hand,       \* Worker -> the event whose plan it runs
  step,       \* Worker -> index of the plan's next action
  attempt,    \* Worker -> attempts of that action that timed out
  rows,       \* timeline rows written before an action, by event and step
  outcome,    \* Event -> result of the last plan that ended
  exception,  \* an operator sees a box exception
  troubles    \* the kinds of fault that have happened to an engine

engine == <<phase, hand, step, attempt>>
trace  == <<rows, outcome, exception>>
intake == <<asked, queued, sent>>
plans  == <<intake, engine, trace, troubles>>
cvars  == <<vars, plans>>

\* An action is its name and, for move_box_stage, the target it asks for.
Do(name)   == [name |-> name, target |-> "none"]
Move(t)    == [name |-> "move_box_stage", target |-> t]

\* _plan_approval_received and _plan_label_changed; "exception" is no state of
\* an AP item.  Actions with no effect on the item, the lock or the ERP are
\* named and do nothing.
PlanFor(e) ==
  CASE asked[e] = "approve" ->
         <<Do("clear_waiting_condition"), Do("pre_post_validate"), Do("post_bill"),
           Move("approved"), Do("apply_label"), Do("schedule_payment"),
           Do("post_timeline_entry"), Do("send_override_window"), Do("watch_thread")>>
    [] asked[e] = "reject" ->
         <<Do("clear_waiting_condition"), Move("exception"), Do("apply_label"),
           Do("post_timeline_entry")>>
    [] OTHER ->
         <<Move("needs_info"), Do("apply_label"), Do("post_timeline_entry")>>

Gated == {"post_bill", "schedule_payment"}

Phases   == {"idle", "lock", "pre", "gate", "act", "posting", "backstop",
             "abort", "leave"}
Outcomes == {"none", "completed", "failed", "lock_held", "raised"}

CInit ==
  /\ Init
  /\ asked \in [Event -> Requests]
  /\ queued = [e \in Event |-> 0] /\ sent = [e \in Event |-> 0]
  /\ phase = [w \in Worker |-> "idle"]
  /\ hand = [w \in Worker |-> NoEvent]
  /\ step = [w \in Worker |-> 1] /\ attempt = [w \in Worker |-> 0]
  /\ rows = {} /\ outcome = [e \in Event |-> "none"] /\ exception = FALSE
  /\ troubles = {}

Trouble(k) == /\ k \in EngineFault
              /\ troubles' = troubles \cup {k}
              /\ Cardinality(troubles') <= MaxTroubles

Plan(w)      == PlanFor(hand[w])
Current(w)   == Plan(w)[step[w]]
At(w, ph)    == phase[w] = ph
To(w, ph)    == phase' = [phase EXCEPT ![w] = ph]
Stay         == UNCHANGED <<hand, step, attempt>>
Ended(w, r)  == outcome' = [outcome EXCEPT ![hand[w]] = r]
NextAction(w) == /\ To(w, "pre")
                 /\ step' = [step EXCEPT ![w] = @ + 1]
                 /\ attempt' = [attempt EXCEPT ![w] = 0]
                 /\ UNCHANGED hand

-----------------------------------------------------------------------------
(* The queue *)

\* The click or the label is enqueued; the same event never twice.
Enqueue(e) ==
  /\ sent[e] = 0
  /\ sent' = [sent EXCEPT ![e] = 1] /\ queued' = [queued EXCEPT ![e] = 1]
  /\ UNCHANGED <<vars, asked, engine, trace, troubles>>

\* Acknowledged late: after a crash or a reclaim the event comes once more,
\* possibly while the first delivery is still being handled.
Redeliver(e) ==
  /\ sent[e] \in 1..(MaxDeliveries - 1)
  /\ sent' = [sent EXCEPT ![e] = @ + 1] /\ queued' = [queued EXCEPT ![e] = @ + 1]
  /\ UNCHANGED <<vars, asked, engine, trace, troubles>>

Take(w, e) ==
  /\ At(w, "idle") /\ queued[e] > 0
  /\ queued' = [queued EXCEPT ![e] = @ - 1]
  /\ hand' = [hand EXCEPT ![w] = e]
  /\ step' = [step EXCEPT ![w] = 1] /\ attempt' = [attempt EXCEPT ![w] = 0]
  /\ To(w, "lock")
  /\ UNCHANGED <<vars, asked, sent, trace, troubles>>

-----------------------------------------------------------------------------
(* execute *)

\* Mutant: the lock is granted to everyone who asks.
LockPlanAlways(w) ==
  /\ At(w, "lock")
  /\ lock' = Session(w)
  /\ To(w, "pre") /\ Stay
  /\ UNCHANGED <<item, erp, local, queue, count, intake, trace, troubles>>

LockPlan(w) ==
  /\ At(w, "lock") /\ CanLock
  /\ lock' = Session(w)
  /\ To(w, "pre") /\ Stay
  /\ UNCHANGED <<item, erp, local, queue, count, intake, trace, troubles>>

\* "held": the plan returns lock_held, which ends the event.
LockPlanHeld(w) ==
  /\ At(w, "lock") /\ lock # NoPoster
  /\ Ended(w, "lock_held")
  /\ To(w, "leave") /\ Stay
  /\ UNCHANGED <<vars, intake, rows, exception, troubles>>

\* "no_infra": the plan runs unguarded.
LockPlanUnavailable(w) ==
  /\ At(w, "lock") /\ Trouble("plan_pool")
  /\ NoLock
  /\ To(w, "pre") /\ Stay
  /\ UNCHANGED <<item, erp, local, queue, count, intake, trace>>

\* _GOVERNANCE_GATED_ACTIONS ask the governance gate before they run.
Granted(w) == IF Current(w).name \in Gated THEN "gate" ELSE "act"

\* Rule 1: the row of an action is there before the action runs; the
\* idempotency key of the event makes a replay find the row of the first run.
PreWrite(w) ==
  /\ At(w, "pre") /\ step[w] <= Len(Plan(w))
  /\ rows' = rows \cup {<<hand[w], step[w]>>}
  /\ To(w, Granted(w)) /\ Stay
  /\ UNCHANGED <<vars, intake, outcome, exception, troubles>>

\* Mutant: an action whose row could not be written runs all the same.
PreWriteIgnored(w) ==
  /\ At(w, "pre") /\ step[w] <= Len(Plan(w)) /\ Trouble("timeline")
  /\ To(w, Granted(w)) /\ Stay
  /\ UNCHANGED <<vars, intake, trace>>

\* Three attempts failed: the plan is aborted before the action.
PreWriteFails(w) ==
  /\ At(w, "pre") /\ step[w] <= Len(Plan(w)) /\ Trouble("timeline")
  /\ To(w, "abort") /\ Stay
  /\ UNCHANGED <<vars, intake, trace>>

Gate(w) ==
  /\ At(w, "gate")
  /\ To(w, "act") /\ Stay
  /\ UNCHANGED <<vars, intake, trace, troubles>>

\* The governance gate refuses a financial action.
GateBlocks(w) ==
  /\ At(w, "gate") /\ Trouble("gate")
  /\ To(w, "abort") /\ Stay
  /\ UNCHANGED <<vars, intake, trace>>

\* A gate that raises takes the whole plan with it; only the lock is released.
GateRaises(w) ==
  /\ At(w, "gate") /\ Trouble("gate")
  /\ Ended(w, "raised")
  /\ To(w, "leave") /\ Stay
  /\ UNCHANGED <<vars, intake, rows, exception>>

Complete(w) ==
  /\ At(w, "pre") /\ step[w] > Len(Plan(w))
  /\ Ended(w, "completed")
  /\ To(w, "leave") /\ Stay
  /\ UNCHANGED <<vars, intake, rows, exception, troubles>>

\* Mutant: the item is parked whatever state it is in.
MoveToExceptionBlindly(w) ==
  /\ At(w, "abort")
  /\ state' = "needs_info"
  /\ Ended(w, "failed")
  /\ To(w, "leave") /\ Stay
  /\ UNCHANGED <<erpRef, flagged, erp, lock, local, queue, count, exception,
                 intake, rows, troubles>>

\* _move_to_exception; a move the graph lacks raises a box exception instead.
MoveToException(w) ==
  /\ At(w, "abort")
  /\ IF ValidTransition(state, "needs_info")
     THEN state' = "needs_info" /\ UNCHANGED exception
     ELSE exception' = TRUE /\ UNCHANGED state
  /\ Ended(w, "failed")
  /\ To(w, "leave") /\ Stay
  /\ UNCHANGED <<erpRef, flagged, erp, lock, local, queue, count, intake,
                 rows, troubles>>

Unlock(w) == lock' \in IF lock = Session(w) THEN Unlocked ELSE {lock}

\* Mutant: a plan that failed keeps the lock.
LeaveLocked(w) ==
  /\ At(w, "leave")
  /\ lock' = IF lock = Session(w) /\ outcome[hand[w]] # "failed" THEN NoPoster ELSE lock
  /\ To(w, "idle") /\ hand' = [hand EXCEPT ![w] = NoEvent]
  /\ UNCHANGED <<item, erp, local, queue, count, intake, step, attempt, trace,
                 troubles>>

\* The finally clause of execute.
LeavePlan(w) ==
  /\ At(w, "leave")
  /\ Unlock(w)
  /\ To(w, "idle") /\ hand' = [hand EXCEPT ![w] = NoEvent]
  /\ UNCHANGED <<item, erp, local, queue, count, intake, step, attempt, trace,
                 troubles>>

-----------------------------------------------------------------------------
(* The handlers of the actions *)

\* Labels, timeline entries, waits and windows leave item, lock and ERP alone.
Simple(w) ==
  /\ At(w, "act")
  /\ Current(w).name \notin {"pre_post_validate", "post_bill", "move_box_stage"}
  /\ NextAction(w)
  /\ UNCHANGED <<vars, intake, trace, troubles>>

\* A handler that times out on every attempt or raises.  The thread that moves
\* the box is not stopped by the timeout.
ActionFails(w) ==
  /\ At(w, "act") /\ Current(w).name # "post_bill" /\ Trouble("slow")
  /\ \/ UNCHANGED state
     \/ ValidTransition(state, Current(w).target) /\ state' = Current(w).target
  /\ To(w, "abort") /\ Stay
  /\ UNCHANGED <<erpRef, flagged, erp, lock, local, queue, count, intake, trace>>

\* _handle_pre_post_validate: not posted, in a state that can be posted; the
\* vendor, coding and duplicate checks may refuse as well.
Validate(w) ==
  /\ At(w, "act") /\ Current(w).name = "pre_post_validate"
  /\ IF ~erpRef /\ state \in {"ready_to_post", "approved"}
     THEN NextAction(w)
     ELSE To(w, "abort") /\ Stay
  /\ UNCHANGED <<vars, intake, trace, troubles>>

ValidateRefuses(w) ==
  /\ At(w, "act") /\ Current(w).name = "pre_post_validate" /\ Trouble("refused")
  /\ To(w, "abort") /\ Stay
  /\ UNCHANGED <<vars, intake, trace>>

\* Mutant: a target that cannot be reached is skipped.
MoveBoxStageSkips(w) ==
  /\ At(w, "act") /\ Current(w).name = "move_box_stage"
  /\ state' = IF ValidTransition(state, Current(w).target)
              THEN Current(w).target ELSE state
  /\ NextAction(w)
  /\ UNCHANGED <<erpRef, flagged, erp, lock, local, queue, count, intake, trace,
                 troubles>>

\* _handle_stage_transition
MoveBoxStage(w) ==
  /\ At(w, "act") /\ Current(w).name = "move_box_stage"
  /\ IF ValidTransition(state, Current(w).target)
     THEN state' = Current(w).target /\ NextAction(w)
     ELSE UNCHANGED state /\ To(w, "abort") /\ Stay
  /\ UNCHANGED <<erpRef, flagged, erp, lock, local, queue, count, intake, trace,
                 troubles>>

\* _handle_post_bill skips a posted item and calls _post_to_erp for any other.
PostBill(w) ==
  /\ At(w, "act") /\ Current(w).name = "post_bill"
  /\ IF erpRef
     THEN NextAction(w) /\ UNCHANGED pc
     ELSE To(w, "posting") /\ Stay /\ Goto(w, "post")
  /\ UNCHANGED <<item, erp, lock, seen, result, queue, count, intake, trace,
                 troubles>>

\* The steps of _post_to_erp itself, taken by a worker.
PostToErp(w) ==
  \/ TakeLock(w) \/ LockHeld(w) \/ LockUnavailable(w)
  \/ Guard(w) \/ PrePostValidate(w)
  \/ LookupBill(w) \/ LookupRaises(w)
  \/ CreateBill(w) \/ AbandonBill(w) \/ RefuseBill(w) \/ Respond(w)

Posting(w) ==
  /\ At(w, "posting") /\ PostToErp(w)
  /\ UNCHANGED plans

\* wait_for cancels the call, whose own finally clause unlocks; the request may
\* reach the ERP all the same.  Then the action is tried again.
PostTimesOut(w) ==
  /\ At(w, "posting") /\ pc[w] \in Section /\ Trouble("slow")
  /\ Release(w) /\ Goto(w, "idle")
  /\ late' \in {late, IF pc[w] = "create" THEN late \cup {w} ELSE late}
  /\ attempt' = [attempt EXCEPT ![w] = @ + 1]
  /\ To(w, IF attempt[w] < EngineRetries THEN "act" ELSE "abort")
  /\ UNCHANGED <<item, bills, billKey, seen, result, queue, count, intake, hand,
                 step, trace>>

\* Any status but a success aborts the plan.
PostReturns(w) ==
  /\ At(w, "posting") /\ pc[w] = "record"
  /\ Goto(w, "idle")
  /\ To(w, IF result[w] = "success" THEN "backstop" ELSE "abort") /\ Stay
  /\ UNCHANGED <<item, erp, lock, seen, result, queue, count, intake, trace,
                 troubles>>

\* The reference of the bill is written whatever state the item is in.
WriteReference(w) ==
  /\ At(w, "backstop")
  /\ erpRef' = TRUE
  /\ NextAction(w)
  /\ UNCHANGED <<state, flagged, erp, lock, local, queue, count, intake, trace,
                 troubles>>

\* The worker's process dies, and both its database sessions with it.
WorkerCrash(w) ==
  /\ ~At(w, "idle") /\ Trouble("crash")
  /\ lock' = IF lock \in {w, Session(w)} THEN NoPoster ELSE lock
  /\ Goto(w, "idle") /\ To(w, "idle") /\ hand' = [hand EXCEPT ![w] = NoEvent]
  /\ UNCHANGED <<item, erp, seen, result, queue, count, intake, step, attempt,
                 trace>>

-----------------------------------------------------------------------------

WorkerStep(w) ==
  \/ LockPlan(w) \/ LockPlanHeld(w) \/ PreWrite(w) \/ Gate(w) \/ Complete(w)
  \/ Simple(w) \/ Validate(w) \/ MoveBoxStage(w) \/ PostBill(w) \/ Posting(w)
  \/ PostReturns(w) \/ WriteReference(w) \/ MoveToException(w) \/ LeavePlan(w)

WorkerTrouble(w) ==
  \/ LockPlanUnavailable(w) \/ PreWriteFails(w) \/ GateBlocks(w) \/ GateRaises(w)
  \/ ActionFails(w) \/ ValidateRefuses(w) \/ PostTimesOut(w) \/ WorkerCrash(w)

\* A call of the direct path, or of anything else InvoicePosting models.
Direct == \/ Revert \/ SessionCloses
          \/ \E p \in Caller : Start(p) \/ PosterStep(p) \/ Disturb(p)
          \/ \E w \in Worker : HandleLate(w)

CNext ==
  \/ Direct /\ UNCHANGED plans
  \/ \E e \in Event : Enqueue(e) \/ Redeliver(e)
  \/ \E w \in Worker : \/ \E e \in Event : Take(w, e)
                       \/ WorkerStep(w) \/ WorkerTrouble(w)

CSpec == CInit /\ [][CNext]_cvars

-----------------------------------------------------------------------------
(* Properties *)

\* The variables of both halves stay in their sets.
CTypeOK ==
  /\ TypeOK
  /\ asked \in [Event -> Requests]
  /\ queued \in [Event -> Nat] /\ sent \in [Event -> Nat]
  /\ phase \in [Worker -> Phases]
  /\ hand \in [Worker -> Event \cup {NoEvent}]
  /\ \A w \in Worker : phase[w] # "idle" => hand[w] \in Event
  /\ step \in [Worker -> Nat \ {0}] /\ attempt \in [Worker -> Nat]
  /\ rows \in SUBSET (Event \X Nat)
  /\ outcome \in [Event -> Outcomes]
  /\ exception \in BOOLEAN
  /\ troubles \in SUBSET EngineFault

InPlan == {"pre", "gate", "act", "posting", "backstop", "abort"}
NoPool == "pool" \notin faults /\ "plan_pool" \notin troubles

\* The lock belongs to somebody who is still inside, or to a session that a failed
\* unlock or a failed acquire pooled with it: no crash, timeout, cancelled call,
\* refusal or aborted plan leaves it behind, so an event that ends as lock_held met
\* somebody at work on the item, or that session.
LockIsLive ==
  /\ \A p \in Poster : lock = p => pc[p] \in Section
  /\ \A w \in Worker : lock = Session(w) => phase[w] \in InPlan \cup {"leave"}

\* As long as the pool had a connection for the lock, a running plan excludes
\* every other plan and every post of the item.
PlanExcludesPosts ==
  NoPool =>
    \A w \in Worker : phase[w] \in InPlan =>
      /\ \A v \in Worker : phase[v] \in InPlan => v = w
      /\ \A p \in Poster : pc[p] \notin Section

\* The lock that protects the plan is the one its own post_bill asks for on
\* another connection: while the lock works no worker ever gets to the ERP, and
\* the bill of an approved event is only posted by the direct path.
EngineNeverPosts ==
  NoPool => \A w \in Worker : pc[w] \notin Section \cup {"close"}
                              /\ phase[w] # "backstop"

\* Both paths together, with redelivered events and plans that run unguarded,
\* make one bill, under the conditions of AtMostOneBill.
OneBillFromBothPaths ==
  {"pool", "lookup", "late"} \cap faults = {} /\ "slow" \notin troubles =>
    \A a, b \in bills : a = b

Both == INSTANCE PostOnce
          WITH recorded <- erpRef, excused <- Excused \/ "slow" \in troubles

\* Redelivered events, plans that run unguarded and the direct path, all on one
\* item, implement the same promise that the direct path alone does; the item's
\* record of it is the reference, which an engine may write in any state.
BothPathsPostOnce == Both!OnceSpec

\* Rule 1: what an action does is on the timeline before it is done, however
\* often the event is delivered and wherever a run of its plan broke off.
RowFirst ==
  \A w \in Worker :
    phase[w] \in {"gate", "act", "posting", "backstop"} =>
      <<hand[w], step[w]>> \in rows

\* Unless a plan or a post ran without the lock, an item has its bill's reference
\* only when it is posted, whatever the plans of late or repeated events do.
ReferenceMeansPosted ==
  NoPool /\ erpRef => state \in {"posted_to_erp", "closed"}

\* The plan of a click never runs to its end.  "exception" is not a state, so a
\* rejection fails at its second action.  An approval gets past post_bill only
\* when the direct path has posted the bill meanwhile, and from there "approved"
\* cannot be reached; a plan that ran without the lock may see the item move
\* between its actions and so come through.
ClickPlansAbort ==
  \A e \in Event :
    outcome[e] = "completed" =>
      asked[e] # "reject" /\ (NoPool => asked[e] # "approve")
=============================================================================
