# Solden: TLA+ models and proofs

Solden is an accounts-payable agent. E-mails, webhooks and timers become events;
a planning engine turns an event into a plan of actions; a coordination engine
executes the plan against *Boxes* (one per invoice or vendor) and external
systems (Gmail, Slack, ERPs). Beside the agent, people act on the same items
through Slack, Teams and HTTP endpoints, and reapers repair half-finished work.

Nearly everything that can go wrong here goes wrong *between* two steps: a call
reads an item, waits for an ERP, and writes; a worker claims a row and dies; a
click, a sweep and a retry work on one record at once. This directory models
those parts of `src/solden`, checks small instances with TLC, and proves the
main safety properties for all values of the constants with TLAPS.

Contents: 1 inventory, 2 plan, 3 the models, 4 what each run checks, 5 fairness,
6 what is proved, 7 where the code and its documentation disagree, 8 what is not
modelled, 9 how to run it. `PROJECT.json` holds the same information in machine-readable form:
the component list, the runs, a mutant for every checked property, the
source lines every definition stands for, and the list of hazards.

## 1. Inventory

### Components with a model

**State machine** (`core/ap_states.py`). State: the column `ap_items.state`,
seventeen states, a transition graph, three terminal states. Used by every writer
of an item. Correct if: what the graph allows, over any number of steps, never
takes a posted item back to where it can be posted, and never reaches the ERP
without an approval that still stands.

**AP item store** (`core/stores/ap_store.py`, `services/box_cas.py`). State: the
row (`state`, `metadata`, `fraud_flags`, `exception_code`, `updated_at`), its
audit rows, and two mirrors, `box_exceptions` and `box_outcomes`. Operations: a
guarded update with its audit row in one transaction, a compare-and-swap on
`updated_at`, the callers that read before they write (snooze, unsnooze, flags).
Hard: most writers take no lock; the guard reads on one connection and the update
runs on another; mirrors run after the commit. Correct if: the row leaves the
graph only where one write overtakes another, and the audit trail shows it; what
an overtaking write did lasts no longer than the next decision; a snooze nobody
overtook returns where it came from; no committed flag is erased.

**Invoice posting** (`services/invoice_posting.py`, `agent_retry_jobs.py`,
`approval_revert.py`, `integrations/erp_router.py`, `core/box_lock.py`). State:
the item, a per-box session advisory lock, approvers' decision keys, one durable
retry job per item, the ERP's bills. Operations: approve, auto-approve, resume
from a retry drain or directly, revert an approval. Hard: four entry points, an
ERP that loses answers or handles a request after its caller gave up, a lock that
fails open and is released before the result is recorded. Correct if: one bill,
what says "posted" is posted and stays so, failed posts are retried and the
retries end.

**Transactional outbox** (`services/outbox.py`). State: `outbox_events` rows.
Operations: enqueue with a dedupe key, claim a batch, dispatch, mark, retry, skip,
replay. Hard: several workers, crashes, operators who change rows a worker holds,
a handler whose effect happened and whose mark failed. Correct if: one worker per
row, bounded dispatches, one row per key, a settled row stays settled, every row
settles.

**Event pipeline** (`core/event_queue.py`, `services/celery_tasks.py`,
`workspace_semaphore.py`, `celery_app.py`). State: two Redis streams with a
consumer group's pending entries, dedupe keys with a lifetime of a day, Celery's
task messages, a counter per workspace. Operations: enqueue, drain, reclaim,
process with retries, acquire and release. Hard: every operation is several Redis
or broker calls and a worker may die between any two; the semaphore is a counter
that nobody reconciles. Correct if: no event vanishes, a key enters once until it expires, what is called
a duplicate is one, an entry becomes one task, the tier's limit holds, every
event ends.

**Override window** (`services/override_window.py`,
`core/stores/override_window_store.py`, `reverse_bill` of `erp_router.py`, the
reaper of `agent_background.py`). State: `override_windows` rows, the item, an
audit event per window, the ERP's bill. Operations: open (an observer and a plan
action), undo, sweep. Hard: an undo waits for the ERP while its window expires,
two clicks and two sweeps race, an answer is lost. Correct if: whatever says
"reversed" is right about the ERP, an outcome sticks, an expiry is announced
once, a reversal is written down, every window settles.

**Coordination and planning engine** (`core/coordination_engine.py`,
`core/planning_engine.py`, `core/box_lock.py`). State: the event in hand, the
step of its plan, timeline rows under a key of event and step, the box lock on a
connection of its own. Operations: deliver, plan, lock, write the row, ask the
governance gate, act, retry, abort, unlock. Hard: the click that became an event
is also handled at once by the direct path; events are delivered again; the
engine and its own `post_bill` are two sessions for one lock. Correct if: plans
and posts exclude each other, both paths make one bill, an action is on the
timeline before it is done, and only a failed unlock or acquire leaves the lock
behind.

**Payment tracking** (`services/payment_tracking.py`,
`core/stores/payment_confirmations_store.py`, `erp_payment_dispatcher.py`).
State: a row per payment id, the item, an audit event per payment. Operations:
record a confirmation (look, insert, read the item, walk it, audit). Hard:
webhooks and pollers redeliver and overtake each other, payments are voided
after they settled, a call dies after its row. Correct if: a payment counts
once, the item moves only on evidence, a confirmed payment arrives or says why
not.

**Dual approval and approval dispatch** (`services/dual_approval.py`,
`_send_for_approval` of `services/invoice_workflow.py`, the orphan sweep of
`agent_background.py`). State: the item and its metadata, where both keep theirs:
two signatures, and the status of the card's outbox entry; the card on record;
the cards in Slack. Operations: first and second signature, revocation; request,
sweep. Hard: each reads the metadata and writes all of it back later; a card is
live before it is recorded. Correct if: two people whose signatures stand have
signed, one card, a dispatched entry has its card, and an approval is taken back
only by what was already under way when it was given.

### How they interact

Event pipeline -> planning engine -> coordination engine -> AP item store: events
become plans, plans move items and post bills. Slack, Teams and HTTP handlers
call the posting, approval and override services directly. Every move of an item
goes through `update_ap_item` (the store), which validates it against the state
machine and then runs observers; an observer's side effect is a row of the
outbox. Posting opens an override window through an outbox row; undoing it calls
the ERP; payments walk what was posted. The models meet at these interfaces:
`APStates` is shared by all that move an item; `Coordination` extends
`InvoicePosting` and runs both paths on one item; the others treat an
`update_ap_item` as a validation and a write, which `APItemStore` takes apart
with its audit and mirrors; `APLifecycle` is the abstract item between them.

### Components without a model yet

| Part | State and operations | Hard | Correct if |
|---|---|---|---|
| IBAN change freeze (`services/iban_change_freeze.py`) | freeze, three factors, pending details; verify, complete, reject | read-modify-write of one JSON value | only verified details are promoted |
| Webhook delivery (`services/webhook_delivery.py`) | attempts, retry chain | redelivery after the next attempt was scheduled | one chain per delivery |
| Vendor onboarding | its own graph, tokens, chases | chases racing with answers | legal moves, one activation |
| Credit pool, API idempotency, escalation, disputes | small tables | check and write in two transactions | no overdraft, one answer per key |
| Purchase orders, matching, bank reconciliation, validation, policy | computed decisions | arithmetic | unit-testable |
| Extraction, LLM gateway, intake and approval surfaces, adapters, UIs, reports, auth, migrations | conversions, I/O, read models | - | - |

## 2. Plan

Order: first the code that moves money (posting), with the store and graph under
it; then the machinery that delivers work (outbox, event pipeline); then the
code that takes money back (override window); then the second way to the same
bill (coordination engine over posting), what happens after it (payments) and
before it (approvals). These are done. Next, in this order:

1. `IbanFreeze`: three factors over one profile row; *only verified details are
   promoted*, across a rejection and a second freeze during a completion.
2. `WebhookDelivery`: attempts, a worker that dies after scheduling the next one,
   and the chain; *one chain per delivery*.
3. Waits of the coordination engine (`waiting_condition`, `pending_plan`), once
   something in the code suspends a plan: today no plan reaches them.
4. Vendor onboarding: its graph, tokens and chases, with an abstract lifecycle
   as `APLifecycle` is for items.

What a component promises is stated apart where callers rely on it: `APLifecycle`,
`PostOnce`, `UndoPromise` and `PaymentLedger` are abstract specifications that the
detailed ones implement.

Every specification is parameterised by CONSTANTS with a named ASSUME, has one
action per operation or round trip, and uses no RECURSIVE operator, so that it
can be proved about.

## 3. The models

One step is what commits at once: a database transaction (one `connect` block),
one Redis command or pipeline, one broker call, one ERP request. Everything else
a handler does is part of the step before it. Time is one bit per timed thing:
`due`, `idle`. Faults are actions guarded by `Fault(kind)`, which counts them
against `MaxFaults` and takes place only for the kinds in `FaultKind`. Registers
of a call that is over are cleared where the code cannot see them any more.
Variables called *history* are only written: properties read them.

### APStates, APLifecycle

`APStates` is the graph: `APState`, `VALID_TRANSITIONS`, `ValidTransition`,
`TERMINAL_STATES`. `APLifecycle` is the abstract specification of an item: moves
along the graph, a snooze that remembers where it came from, an unsnooze that
goes back, and the history variable `approved`, which entering `approved` sets
and going back to any undecided state clears. Its one exception is explicit: an
`Overwrite` puts the item anywhere and sets `late`, which the next decision
(an approval, or a way back before one) clears.

### APItemStore

A write is four steps: the caller's read (`Begin`), `update_ap_item`'s own read
and validation (`Check`, `Reject`), the transaction (`CommitState`,
`CommitStateStale`, `CommitFlags`, `CommitException`) and the mirrors after it
(`MirrorOutcome`, `MirrorException`). `fresh[w]` says that `updated_at` has not
moved since the caller read the row; every commit clears everybody's. `Op` says
which writes a caller makes: unconditional moves, compare-and-swaps of the state,
snoozes, flags, exception codes. Nobody holds a lock: snoozes
(ap_intent_handlers.py:1713, 1856), reverts (approval_revert.py:211), the approval
walk, the record of a posting after its unlock and the flag writers take none, so
the box lock that a few callers take keeps none of them out. The item is
abstracted to what these writes touch; which state a caller wants is any state of
`Target`. `audited` is the newest audit row, with a mark if it does not start where
the one before it ended; `overtaken[w]` (history) says that another moved the item
since w's caller read it, `lost` (history) that a compare-and-swap lost. The look
for an outcome and its INSERT are one step, because the unique key of
`box_outcomes` decides.

### InvoicePosting, PostOnce

A poster is one call, of the kind `Kind[p]`: `approve` (a click), `auto`, `drain`
(the retry job), `retry` (a direct resume). `Start` is the entry point up to its
first write; `WalkStep` is the walk of the item to `ready_to_post`, one
transition a step, using the state the call last saw; the section between lock
and unlock is `Guard`, `PrePostValidate`, `LookupBill`, `CreateBill`,
`Respond`; what is written after the unlock is `RecordPosted`, `RecordFailed` and
their `Raises` twins, `Close`, and `SettleJob` for the drain. `PreCheck` says the
adapter looks a bill up by invoice number (QuickBooks, NetSuite, SAP, Sage), `KeyDedup`
that the ERP replays answers by request key (Xero). Disturbances: no pool
connection for the lock, a lookup that raises, a refusal, a lost answer, a
request handled late, a drain's timeout, a revert of the approval, a crash.

`OtherHolder` are the sessions of other code that may hold the lock. `Pooled` is an
idle session of the pool that still holds it: `release_box_lock` swallows an unlock
that raises and returns the session to the pool (`Unlocked`), and so does
`acquire_box_lock` when it fails after the lock was granted (`NoLock`, part of the
fault "pool"). Such a session may be handed out again and asked for the lock it
has (`CanLock`), anybody else is told "held", until the pool closes it
(`SessionCloses`). A failed unlock is allowed by the fault kind "unlock" and, being a
choice within `Release`, not counted in `MaxFaults`. The same choice stands for
a session that got the lock twice and keeps it after one unlock; `posting_faults`
leaves it to the other runs and to the proofs, which hold for every set of faults.

`PostOnce` is the promise: a bill is made when there is none (or a fault excused
one more), an item is recorded as posted once, after its bill, and the retry job
is claimed `MaxRetries` times at most and completed only after the record.
`InvoicePosting` implements it with `recorded` read as "the item is in
`posted_to_erp` or `closed`" and `excused` as `Excused`: an adapter without a
lookup, or one of the three faults of section 4. `Coordination` implements it too,
with `recorded` read as the reference, which an engine may write while the state
is behind, and its own timeout as one more excuse. `Released` says that an
approver or the auto-approval has let the item go.

Gates before the walk (field review, budget, segregation of duties) end a call
without touching the item and are left out.

### Outbox

Rows with their columns; producers whose lookup and insert are two transactions;
workers that claim a batch with one UPDATE, dispatch row by row with the snapshot
they claimed (`seen`), and mark. Rows are taken in order (`Fresh`), since their
identities mean nothing. `MarkSucceededRaises` is the failed UPDATE inside
the handler's `try`. `RetryEvent`, `SkipEvent`, `ReplaySelect` and `ReplayCopy`
are the operations console; a skip has no status filter.

### EventPipeline

Producers reserve a key and then add the entry; a key expires at any time after
it was set (`KeyExpires`: `ex=86400`), and the history variable `outlived` keeps the
events whose key did. A worker is in one of three
tasks: the drain reads `high`, then `standard`, publishes, acks, up to
`BatchSize` entries; the reclaim takes over idle entries and publishes them; a
task message is processed between `Acquire` and `Release`, or refused at the
limit and retried. `XREADGROUP` with `BLOCK 0` waits, so `ReadStream` has no
"empty" branch. A machine that dies gives its message back
(`task_acks_late`); a child process that dies has it acked by its parent. Redis
errors in the semaphore are swallowed: `AcquireFailsOpen`, `ReleaseFails`, with
the command applied or not. The plan an event runs is one step that ends, well or
badly.

One timing assumption: an entry becomes idle only when no live drain is between
its claim and its ack and no live reclaim has it in its list
(`VisibilityTimeout`): sixty seconds against two calls.

### OverrideWindow, UndoPromise

One item, posted once, with up to `MaxWindows` windows, because the observer and
the plan action open one each without looking for another. `Load` is the read
that decides; then both guards of `reverse_bill` (`CheckItem`, `CheckKey`), the
`Request`, the `Audit` event under the window's key, `Persist` of the reversal
reference, the conditional `Mark`, and the item's transition, which names a
column that `update_ap_item` refuses. `Reap`, `Expire`, `Close` and `Announce`
are a sweep. `TellsReversed` says the adapter recognises a bill that is gone.

`UndoPromise` is what a reader of the windows relies on: each is opened once and
settled once, as reversed only when the bill is gone (`undone`); the item's note
of the reversal (`noted`, its `reversal_reference`) comes after it; the expiry of
an expired window is announced once.

### Coordination

`Coordination` extends `InvoicePosting`: one item, one lock, one ERP, with direct
callers on one side and workers on the other. `Enqueue`, `Redeliver` and `Take`
are the queue, an event being delivered up to `MaxDeliveries` times, also while
an earlier delivery runs. `PlanFor` is the plan of an approval, a rejection or a
request for information; actions with no effect on item, lock or ERP keep their
name and place and do nothing (`Simple`). `LockPlan`, `LockPlanHeld`,
`LockPlanUnavailable` are the three answers of the lock; then, per action,
`PreWrite`, `Gate` and the handler. `PostBill` enters `_post_to_erp`, whose steps
are those of `InvoicePosting` (`PostToErp`), with `PostReturns` and
`WriteReference` for what the engine does with the result and `PostTimesOut` for
`wait_for`. A plan that fails goes through `MoveToException`; all end in
`LeavePlan`, the `finally`, whose unlock may leave the lock with a pooled session
as above. `Session(w)` says that the engine holds the lock on a
connection other than the one its call uses. Suspended plans are left out: no
plan for a click or a label waits.

### PaymentTracking, PaymentLedger

`PaymentLedger` is the abstract promise: a payment is entered once, keeps the
status it was entered with, is reported once, and only an entry moves the item to
"executed" or "failed". `PaymentTracking` implements it with calls: the gate, the
look at the row (`PreCheck`), the `Insert` under the unique index, `ReadItem` with
the choice of a path, `Validate` and `Write` for each move, and `Audit`. `real` is
what the ERP says when asked, so a status is the one of the fetch, not of the
webhook. Other code's moves of the item are a validation and a later write too
(`OtherValidates`, `OtherWrites`). `raced` is the history variable that a move,
theirs or a walk's, was written over a state it was not validated against; `lost`
are the payments whose call died after the
insert.

### Approvals

One item that may have two requests for approval (`Ask` to `Write`), sweeps (`List`
to `Merge`) and calls of the dual approval API (`First`, `Second`, `Revoke`, then
`Validate` and `Sign`). A request and a sweep work under the box lock (`TryLock`),
a signature does not. `Outbox` reads the metadata and `Write` writes all of it
back; `Merge` writes one key under a row lock. Abstractions: the item starts
validated; the look at the entry before the lock is folded into the one under it;
the two adjacent reads of a transition are one step; consecutive best-effort
writes of a request (approval chain, routing, Teams) are one read and one write;
the entry keeps its card only for an orphan, the only case where it is read. A
metadata write that fails is swallowed and the request goes on without it
(`Trouble` in `Write`). History: `signed` are the signers since the last revocation,
`cut` the signature calls that were under way at it, `torn` that a request wrote
back another first signature than was there, `before` the calls that were under way
when the approval was given, and the sweep if an orphan was left for it or a
request could still leave one. Clicks on the card are `InvoicePosting`'s.

## 4. What each run checks

A *pass* run explores its whole instance. Distinct states are given to show that
the instance is not degenerate.

| Run | Instance | Shows |
|---|---|---|
| `outbox_rows` (563,422 states) | 2 rows, 1 key, 2 workers, 1 producer, 2 attempts, 1 manual retry, 1 crash | a row is in one worker's hands; it is dispatched at most `max_attempts` times plus once per manual retry; `succeeded` is left only through a worker that held the row when it was skipped; every row settles, except one a dead worker left in `processing` |
| `posting_faults` (2,349,726) | one poster of each kind, the drain three times, any two kinds of fault | one bill, nothing recorded that is not in the ERP (`PostedIsReal`), no bill before a release (`BillsNeedApproval`); the race implements `PostOnce`: a recorded posting stays, the retry job keeps its budget and completes only after the record |
| `posting_retry` (8,005) | a click and a drain; refusals, lost and late answers, failed lookups, drains that time out, failed unlocks | a claimed job settles; a job that waits ends with a closed item or a dead letter |
| `posting_two_approvers` | two clicks, an ERP that only deduplicates keys, no fault | **violation**: two bills |
| `store_writers` (1,876,976) | 2 writers without any lock that make every kind of write, either of which may die anywhere | they implement `APLifecycle`; no posting without a standing approval, but by an overwrite and until the next decision; only an uncompared write over another leaves the graph; the audit trail shows it; no committed flag is erased |
| `pipeline_safety` (2,966,403) | 3 events, two with one key that may expire at any time, 2 streams, 2 workers, limit 1, any three faults | nothing vanishes; one entry per key until it expires; a duplicate is one of an event that is kept, on its way, or whose own enqueue failed; two tasks only after an interrupted drain; the limit holds |
| `pipeline_blocked` | 1 event in the standard stream, 2 workers, no fault | **violation**: the event is never taken |
| `override_windows` (578,299) | 2 clicks, 2 reapers, 2 windows, any one fault | "reversed" is true; clicks and sweeps implement `UndoPromise`: outcomes stick; one announcement; a reversal is recorded; windows settle |
| `coordination_click` (2,254,855) | 1 event of any kind delivered twice to 2 workers, beside 1 direct click; two kinds of engine fault, one of posting, any unlock may fail | a lock that is held has a holder at work or a pooled session; a plan is alone; it never gets to the ERP while the lock works; both paths together implement `PostOnce`; rows first; a reference means posted; plans of clicks abort: a rejection's always, an approval's while the lock works |
| `payment_webhooks` (389,911) | 2 payments, one delivered twice, 2 concurrent calls, late moves of other code, 1 crash | the calls implement `PaymentLedger`; what the audit says of an arrival stays right; a confirmed payment arrives |
| `approvals` (4,002,923) | 2 requests, 1 sweep, 2 signature calls of 3 people, one trouble, five events in all | a second signature approves over two people's, unless it was cut or torn; an approval is taken back only from before it; one card; a dispatched entry has its card |
| `approvals_signatures` | 1 request, 2 signature calls, no trouble | **violation**: one person signs first and second |

Conditions inside properties are the faults under which the code gives no
guarantee, and each is reached in its run:

- `AtMostOneBill` holds until a lock found no pool connection (`"pool"`), a lookup
  raised, or a request was handled after its caller gave up. The other five kinds
  of fault are allowed. They are what `excused` stands for in `ImplementsPostOnce`,
  and only for the number of bills: the rest of `PostOnce` holds under every fault.
  `BothPathsPostOnce` adds the engine's own timeout ("slow"), which may cancel a
  post; plans that run without the lock are no excuse.
- `PlanExcludesPosts`, `EngineNeverPosts` and `ReferenceMeansPosted` hold until a
  plan or a post found no connection for its lock (`NoPool`).
- `ClickPlansAbort` holds for a rejection always, and for an approval under `NoPool`:
  an unguarded plan may see the item move between its actions and so come through.
- `WithinLimit` holds until an acquire failed open or Redis forgot the counter
  (`unsure`). Slots of dead workers and failed releases are counted in `leaked`.
- `OneTaskPerEntry` excepts the entries whose drain stopped between claim and
  ack (`disturbed`): those may be published again, which the code accepts.
- `ReversalRecorded` is about behaviours without a fault, but with every race of
  two clicks and two sweeps.
- `RowsSettle` excepts the row of a dead worker.
- `AuditIsRight` and `ConfirmationArrives` except behaviours in which one
  unconditional move overwrote another (`raced`), the second also payments of a
  dead call (`lost`).
- `ApprovedBeforePosting` excepts an item that was overwritten, until its next
  decision (`late`): two callers without a lock validate against one read. `LegalStep`
  names who may do that: never a compare-and-swap. `AuditShowsRaces` ends with the first
  compare-and-swap that loses (`lost`): its audit row is there and its write is not.
- `OneEventPerKey` excepts events whose key expired (`outlived`). `DuplicateOfKept` says
  what else a dropped event may be the duplicate of: one whose enqueue failed after
  it had set the key.
- `LockIsLive` is about holders that run; a session that was pooled with the lock
  (`Pooled`) is the case it does not cover, and both it and the refusals it causes are
  in the run.
- `TwoPeopleStand`, what the code says of a second signature, is violated. What holds is
  `TwoPeopleSign`: it excepts calls that were under way when the first signature was
  revoked (`cut`) and items on which a request wrote back older signatures (`torn`).
- `TakenBackByEarlier` excepts nothing, and says who takes an approval back: a dispatch,
  a signature or a revocation that had begun before it, or the sweep of an orphan that
  was there or that such a dispatch left.
- `CardBudget` allows one more card per crash, failed statement, lost answer or lock
  that could not be asked for (`troubles`).

### Bounds and why they are enough

Two workers, two writers, two clicks, two calls or four posters are the least
number at which every race of the code has its two sides; the proofs lift the
bound for the safety properties. Two attempts reach both `failed` and `dead`.
`MaxRetries` of a job is 2, so that a job is rescheduled once and dead-lettered
once. `BatchSize` 2 lets a worker die with one row dispatched and one waiting.
`Limit` 1 with two workers reaches the refusal, `MaxRetries` 1 the drop.
`MaxFaults` and `MaxTroubles` bound the faults of one behaviour: two kinds of
eight in posting (each as often as it likes), three in the pipeline, one of six on
top of the races of the override window, two kinds of six in the engine on top of
one of three in posting. `MaxCopies` stops the endless republication of an
entry. `MaxDeliveries` 2 is one redelivery, also during the first delivery; of two payments
one is redelivered.
In `approvals`, three signature calls are a first signature, a revocation or
second one, and one that is late; `MaxEvents` 5 bounds calls and troubles
together. Failed unlocks, expiring keys, deaths of a store's writer and moves of
other code on a paid item are not bounded at all. `CHECK_DEADLOCK FALSE` stands in
every configuration because all of
these systems may stop: calls end, rows settle, faults and clicks run out.

## 5. Fairness

- *Outbox*: `run_forever` polls without end and a handler returns or raises;
  backoffs pass. Weak fairness of a worker's steps and of `BackoffElapses`.
  Crashes and operators get none.
- *Posting*: a call whose process lives goes on, and beat starts the drain. Weak
  fairness of `PosterStep` and `ClaimJob`. Nobody has to click, and the ERP need
  not answer well: refusals and losses are disturbances without fairness, bounded
  by the budget.
- *Pipeline*: beat starts drains and reclaims, and a worker goes on when it is
  not blocked. The blocked read is not enabled, so fairness does not help it:
  that is the violation.
- *Override*: two loops sweep every minute in processes of their own, and time
  passes. A click has no fairness at all: it may hang in the ERP for ever.
- *Payments*: a call goes on while its process lives. Webhooks get no fairness:
  the property is about payments whose row is written.
- *Store*, *coordination*, *approvals*: safety only.

## 6. What is proved

All proofs are checked by TLAPS with Z3, Zenon and the LS4 temporal prover, for
every value of the constants that satisfies the module's ASSUME: any number of
workers, writers, clicks, bills, events, payments, people, faults. Bounds such as `MaxFaults` are
constants too, so a theorem covers every bound.

| Module | Theorems | Argument |
|---|---|---|
| `Outbox_proofs` | `OutboxInvariant`, `OutboxTypeCorrect`, `OutboxClaimExclusive`, `OutboxDispatchBudget`, `OutboxSucceededSticks`, `OutboxCrashStrandsABatch` | `Hold`: a held row is `processing`, or `succeeded` if an operator skipped it, and nobody counted an attempt since the claim (`seen = attempts`). `Budget`: what is left of a row's attempts by how far its current attempt has come. Exclusiveness is not inductive alone: it needs that a claimable row is held by nobody. That a succeeded row stays so needs the types only: every other action's guard excludes it. For what crashes leave in `processing` it needs cardinalities: rows are finitely many without assuming so (`FewHeld`), a worker holds a batch at most, and only `Crash` drops a row that is still `processing`. |
| `InvoicePosting_proofs` | `PostingTypeCorrect`, `PostingMutualExclusion`, `PostingAtMostOneBill`, `PostingIsReal`, `PostingSticks`, `PostingJobBudget`, `PostingInvariantHolds`, `PostingNeedsApproval`, `PostingImplementsPostOnce`, `PostOnceKeepsBooks`, `PostingKeepsBooks` | `HolderInside`: whoever is inside the section holds the lock. `NoBillYet`: a call at `create` has seen no bill and none appears before it acts, because it is alone. `Recorded`: a success has a bill behind it, and the reference is set exactly in the two posted states, which the graph never leaves backwards. `Budget`: a claimable job has an attempt left. `DrainOwnsJob`: a drain under way has the running job to itself, so what it settles is its own claim. `HeldBack`: until the release the item is where only an approval leads on from, and every call waits outside the section. Each step is then a step of `PostOnce` or a stutter: only `CreateBill` and a late request make bills, only `RecordPosted` records. `BooksAgree` is proved on `PostOnce` and carries over. |
| `APItemStore_proofs` | `LifecycleApprovedBeforePosting`, `LifecyclePostedStays`, `StoreTypeCorrect`, `StoreImplementsLifecycle`, `StoreApprovedBeforePosting`, `StoreLegalStep`, `StoreAuditShowsRaces`, `StoreFlagsStick` | No lock is assumed. `ReadHolds` and `Validated`: what a caller read and what was validated stays true until another writer moves the item, and a compare-and-swap that matches was not overtaken. A commit that was not overtaken then maps to a move, a snooze or an unsnooze of `APLifecycle`, one that was to its `Overwrite`, everything else stutters, and the lifecycle's two properties, proved on the abstract specification, carry over. `AuditTells`: until a compare-and-swap lost, the newest row tells the state, so a write off the graph, which was validated against another state, leaves a gap. `FlagsHeld`: a flag writer whose row has not moved holds the current list and its flag is nobody else's. |
| `EventPipeline_proofs` | `PipelineTypeCorrect`, `PipelineNothingVanishes`, `PipelineOneEventPerKey`, `PipelineDuplicateOfKept`, `PipelineSlotsAccounted`, `PipelineWithinLimit`, `PipelineOneTaskPerEntry`, `PipelineInvariantHolds` | `EventsKept`: a worker about to ack has delivered its task, so removing the entry loses nothing. `KeysOwned`: past the lookup an event owns its key until it expires, and who is dropped met an owner. `Counted`: the counter is the number of owners plus the leaked slots, so it is never negative and never clamped; a worker dispatches only if its INCR was within the limit. Needs a finite set of workers. `OneTask`: an undisturbed entry is in its stream once, then with one drain that has not delivered it, then in one task; what is idle or reclaimed was disturbed. |
| `OverrideWindow_proofs` | `OverrideTypeOK`, `OverrideReversedIsReal`, `OverrideOutcomeSticks`, `OverrideExpiryAnnouncedOnce`, `OverrideReversalRecorded`, `OverrideImplementsUndo`, `PromiseAgrees` | `ResultIsReal`: a result that counts as a reversal was given after the bill was reversed. `ExpiryOwned`: the conditional mark makes one reaper the owner of an expiry. `Recording`: until a fault, a reversed bill is named by the item or is in the hands of the call that asked for it. For the refinement, a conditional mark settles a pending window or does nothing, and the first two invariants are what makes "reversed", the note and the announcement legal steps of `UndoPromise`. |
| `Coordination_proofs` | `CoordinationTypeCorrect`, `EngineInvariantHolds`, `LockLiveOrPooled`, `PlanIsAlone`, `EngineBlocksItself`, `RowsComeFirst`, `BothPathsMakeOneBill`, `BothPathsImplementPostOnce`, `BothPathsNeedApproval`, `ReferencesArePostings`, `ClickPlansNeverComplete` | Every direct step and every step of a worker inside `_post_to_erp` is a step of `InvoicePosting`, whose lemmas about one step are used as they stand. `PlanHolds`: while the lock works a running plan holds it, so its own post is refused. For the bills, `NoBillYet` of posting is carried over the engine's steps, and for the refinement `Grounded`: what posting's proofs say of results, job and drain is untouched by engines, and an engine about to write the reference has a bill. `CHeldBack`: until the direct path releases the item no target of a plan is `ready_to_post`, so a plan's post ends at the guard. `PlanBound`: a rejection's plan comes to its second action, whose target is no state, and an approval's to its fourth only with a reference on the item, which then says posted and cannot be approved. |
| `PaymentTracking_proofs` | `PaymentTypeCorrect`, `PaymentInvariantHolds`, `ReportedArrivalsStand`, `PaymentTrackingImplementsLedger`, `PaidOnlyOnEvidence` | `OneRecorder`: between a row and its audit event exactly one call has the payment, with the row's status. `OnThePath`: what is left of its walk ends in that status's target. `AboutToBeRight`: a call about to report an arrival is right, and the graph never leaves `Done`. Every insert, move and audit event maps to a step of the ledger; evidence is proved on the ledger and carries over. |
| `Approvals_proofs` | `ApprovalsTypeCorrect`, `ApprovalsTakeTwoPeople`, `OnlyEarlierTakesBack`, `DispatchedHasCard`, `OneCardPerTrouble` | `Signatures`: until older metadata was written back, an item that waits for its second signature has a first one that stands, and who is about to sign second, if nothing was revoked meanwhile, signs over a copy with another's. `Latecomers`: in an approved item every request that is under way was so at the approval, every sweep too or has an orphan of then to work on, and a signature that came later would be refused by the graph. `CardsKept`: every status, copy of a status or call in progress that promises a card has one, and a card on record is never forgotten. `InBudget`: cards delivered and cards owed (requests on their way to Slack, or that may yet find no card on record), and one in reserve while the lock holder owes none, never exceed one per trouble and one. |

Theorems with a hypothesis beyond ASSUME: `PostingAtMostOneBill` and
`BothPathsMakeOneBill` take `PreCheck` (an adapter with a lookup; without it the
run `posting_two_approvers` shows the opposite), which the refinements of `PostOnce`
do not need, since `excused` covers it. No theorem assumes that a writer holds a lock
the code does not take, that a key lives for ever, or that an unlock works.

Some theorems state no property of a run: types, inductive invariants,
`PostingMutualExclusion`, `PipelineSlotsAccounted`, `OutboxCrashStrandsABatch`, and
what is proved on an abstract specification or follows from one: the two about
`APLifecycle`, `PaidOnlyOnEvidence`, `PostOnceKeepsBooks`, `PostingKeepsBooks`,
`PromiseAgrees`. `PostingSticks`, `PostingJobBudget`, `OverrideOutcomeSticks` and
`BothPathsMakeOneBill` say in one line what is also part of a refinement.

Model-checked only: every liveness property (`RowsSettle`, `JobSettles`,
`FailedPostRecovers`, `WindowsSettle`, `ConfirmationArrives`, and the violated
`EventsEnd`), which TLAPS cannot prove under fairness. The violations are TLC's.

## 7. Where the code and its documentation disagree

Three disagreements have a run of their own:

1. *Posting lock released early* (`posting_two_approvers`). The lock that is
   called the canonical primitive against two posts (invoice_posting.py:1625) is
   released at line 1702, before the caller records the result at line 678. A second click passes
   the `ready_to_post` guard. With a lookup by invoice number it finds the
   bill; with Xero, which only gets a request key, and the keys of two clicks
   differ, there are two bills.
2. *The drain blocks on an empty stream* (`pipeline_blocked`). `block=0` waits
   without limit (event_queue.py:90), nothing in `solden/` produces a
   high-priority event, and the standard stream is never read.
3. *One person, two signatures* (`approvals_signatures`). The second signer "Must differ
   from the first approver" (dual_approval.py:273). The first is known only from the
   metadata, and the check is `if first_approver and ...` (line 286). A request that
   read the metadata before the first signature writes it back without it
   (invoice_validation.py:1089-1101), and the same person signs second. In the same
   way a second signature writes the metadata it read (line 317): if the first was
   revoked in between, it is there again and counts, although a signer can pull it
   "before the second approves" (line 368).

Others were met while modelling. The models contain the behaviour; no property
claims what does not hold:

- *Outbox.* A worker that dies leaves its rows in `processing`, and nothing
  reclaims them, although side effects are said to be retried until they succeed
  or are dead (migrations.py:2234). Two concurrent `enqueue` calls with one key
  insert two rows: lookup and insert are two transactions (outbox.py:167) and the
  index is not unique (migrations.py:2281), against migrations.py:2241. That is
  why `outbox_rows` has one producer.
- *Posting.* The loser of the lock writes `failed_post` under the winner
  (invoice_posting.py:1641), whose own write of the result then fails the
  transition. A revert needs no lock and may come between the check of the state
  and the request (approval_revert.py:211, erp_router.py:993). After a lost
  answer the retry finds the bill, and `already_posted` counts as a failure: the
  item does not recover on its own. The key guard of erp_router.py:1209 looks for a success
  event under the request's key, and the posting path writes that event without
  a key (invoice_posting.py:1833). A drain that dies, or whose resume raises, leaves its job `running`
  for ever: `release_stale_retry_locks`, which would free it
  (agent_retry_jobs.py:57), does not exist.
- *Store.* A lost compare-and-swap reports success: ap_store.py:579 reads the row
  count of the audit INSERT, which runs although the UPDATE matched nothing, so
  `update_box_with_cas` never retries, against "the update returns False (0 rows affected)"
  (ap_store.py:329). The
  audit row of the lost write stays. Unconditional moves race, since hardly any writer
  takes the box lock: both validate against one read (ap_store.py:404), so an item can
  come to `posted_to_erp` over a revert of its approval. A snooze writes metadata
  from its handler's older read. An
  outcome stays after a reversal (box_lifecycle_store.py:631). The mirror of an
  exception code runs after the commit, so two writers may mirror in the
  opposite order of their commits (ap_store.py:651).
- *Pipeline.* A producer that dies between key and entry makes every resend of a
  day a duplicate of nothing. A reclaimed entry is never acked and is published
  again every minute. An event that meets a full workspace four times is dropped,
  against "queues additional events" (workspace_semaphore.py:5). The refused
  acquires refresh the counter's lifetime, so leaked slots may never expire.
- *Override window.* A reversal never reaches the item:
  `_transition_ap_item_to_reversed` passes `metadata_update` as a column, which the
  store refuses, and the error is swallowed (override_window.py:569). A user can be
  told the window expired while another reversal
  is in flight that then succeeds. A rate limit marks the window `failed` for
  ever. A late click closes the item without looking at what its mark did
  (override_window.py:356). `append_audit_event` keeps the first event of a key,
  so a failure hides a later success, and Xero reports a bill that is already
  voided as an error.

- *Box lock.* A failed unlock, or an acquire that fails after the lock was granted,
  returns a live session to the pool with the lock (box_lock.py:118-131, 149-162).
  Until it is closed every other session is told "held", which is documented as
  "another caller holds the lock; abort and let the holder finish" (box_lock.py:63), and
  plans end as `lock_held` with nobody at work.
- *Coordination.* The engine holds the box lock while its own `_post_to_erp`
  (invoice_posting.py:1636) tries the same key on another connection, is told
  `duplicate_in_progress` and aborts the plan: with a working lock no event posts
  a bill (`EngineNeverPosts`). The plan of an approval cannot complete in any
  case, and that of a rejection asks for the state "exception", which does not
  exist; it aborts to `needs_info`, from where the direct rejection of the same
  click is illegal. A click handled both ways can park its own approval or make
  the direct post fail without a retry job. A plan that runs without the lock
  writes the reference while the state stays `ready_to_post`, and the direct path
  then records `failed_post`. A plan that finds its box locked ends its event as
  completed (coordination_engine.py:403). A gate that raises leaves no exception
  behind. The code that suspends and resumes plans is not reached by any plan
  today, and would lose the remainder of one whose resume times out.
- *Payments.* The moves are unconditional, so two confirmations can write over
  each other (`raced`). After a crash between row and walk every redelivery is a
  duplicate: the item stays, and there is no audit event either. A payment voided after it
  settled keeps its id, so its "failed" is dropped as a duplicate
  (erp_payment_dispatcher.py:153), against "Failed payments are captured as their
  own rows" (migrations.py:3007). Posting closes items at once, so most webhooks meet
  a terminal state and only leave an audit event.
- *Approvals.* A request reads the metadata and writes it back whole
  (invoice_validation.py:1085), and goes on if that fails, so a card may go out without
  its `pending`. An approval given
  while a dispatch is finishing is taken back by the dispatch's own move
  `approved -> needs_approval`, which the graph allows; the sweep does the same
  for an orphan, although its comment expects the state machine to refuse what is
  "already past needs_approval into approved" (agent_background.py:376). A
  dispatched entry ends a new request of an item that came back from `needs_info`.
  After a failed delivery the item is in `needs_approval`, from where nothing asks
  again; a crash after the delivery leaves `pending`, and the next request sends a
  second card. Anyone may revoke the first signature.

## 8. What is not modelled

- Everything in the second table of section 1; reasons are in `PROJECT.json`.
- Within modelled components: `nack_and_requeue` (no caller), the in-memory
  fallback of the queue, entries that do not parse, a broker that refuses a
  refused task's retry; creation, import and queries of items, and the two
  metadata helpers that take the row lock; the gates before the posting walk;
  how long an override window is; suspended plans of the engine; parsers and
  pollers of payment webhooks and payments that match no item; whom a card asks,
  and the Teams card beside it.
- Other organizations: rows, streams and semaphores of two organizations do not
  meet.
- The ERP, Redis, Celery and PostgreSQL are external. Their steps are modelled
  from how the code uses them: atomic statements, `SKIP LOCKED`, session locks
  that die with their session, at-least-once messages.

## 9. Running

`tlc -config <name>.cfg <MC module>` for a run, `tlapm <module>_proofs.tla` for
the proofs. Runs take between a second and three minutes on two cores, each
proof module a few minutes from nothing. The MC modules hold only
model values, functions over them and symmetry sets; symmetry is used in safety
runs only.
