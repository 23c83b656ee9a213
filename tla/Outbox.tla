------------------------------- MODULE Outbox -------------------------------
(***************************************************************************)
(* The transactional outbox of solden/services/outbox.py: producers        *)
(* enqueue side-effect intents as rows of outbox_events, worker processes  *)
(* claim due rows, run the handler of each row's target and record the     *)
(* outcome, operators retry, skip and replay rows.                         *)
(*                                                                         *)
(* Every database round trip is one step, because that is what commits.    *)
(* Time is abstracted to one bit per row: due[r] says next_attempt_at has  *)
(* passed.  The last group of variables only counts; no step reads it.     *)
(***************************************************************************)
EXTENDS Naturals, FiniteSets

CONSTANTS
  Row,          \* identities of outbox_events rows ("OE-" + uuid4)
  Key,          \* dedupe keys, one per business intent
  NoKey,        \* dedupe_key IS NULL
  Target,       \* dispatch targets
  Handled,      \* the targets whose prefix has a registered handler
  Producer,     \* concurrent callers of OutboxWriter.enqueue
  Worker,       \* OutboxWorker processes
  NoRow,        \* a worker that is dispatching nothing
  MaxAttempts,  \* max_attempts of a row
  BatchSize,    \* batch_size of a worker
  MaxRetries,   \* bound: manual retries of one row
  MaxCrashes    \* bound: worker crashes in a behaviour

ASSUME OutboxAssumption ==
  /\ NoKey \notin Key
  /\ NoRow \notin Row
  /\ Target # {} /\ Handled \subseteq Target
  /\ MaxAttempts \in Nat \ {0}
  /\ BatchSize \in Nat \ {0}
  /\ MaxRetries \in Nat
  /\ MaxCrashes \in Nat

VARIABLES
  status,      \* Row -> status column, "absent" before the INSERT
  attempts,    \* Row -> attempts column
  due,         \* Row -> has next_attempt_at passed
  key,         \* Row -> dedupe_key column
  target,      \* Row -> target column
  intent,      \* Producer -> the key its enqueue found no row for
  replaying,   \* rows a replay_events loop has selected and not copied yet
  batch,       \* Worker -> rows claimed and not dispatched yet
  current,     \* Worker -> the row in its handler
  seen,        \* Worker -> Row -> attempts in the claimed OutboxEvent
  outcome,     \* Worker -> how the handler of the current row ended
  dispatches,  \* Row -> handler invocations so far
  retried,     \* Row -> manual retries so far
  crashes      \* worker crashes so far

table    == <<status, attempts, due, key, target>>
workers  == <<batch, current, seen, outcome>>
history  == <<dispatches, retried, crashes>>
vars     == <<table, intent, replaying, workers, history>>

Status    == {"pending", "processing", "succeeded", "failed", "dead"}
Present   == {r \in Row : status[r] # "absent"}

\* Rows a worker has been handed by a claim and has not settled.
Held(w) == batch[w] \cup ({current[w]} \cap Row)

Init ==
  /\ status = [r \in Row |-> "absent"]
  /\ attempts = [r \in Row |-> 0]
  /\ due = [r \in Row |-> FALSE]
  /\ key = [r \in Row |-> NoKey]
  /\ target = [r \in Row |-> CHOOSE t \in Target : TRUE]
  /\ intent = [p \in Producer |-> NoKey]
  /\ replaying = {}
  /\ batch = [w \in Worker |-> {}]
  /\ current = [w \in Worker |-> NoRow]
  /\ seen = [w \in Worker |-> [r \in Row |-> 0]]
  /\ outcome = [w \in Worker |-> "running"]
  /\ dispatches = [r \in Row |-> 0]
  /\ retried = [r \in Row |-> 0]
  /\ crashes = 0

-----------------------------------------------------------------------------
(* OutboxWriter *)

\* A fresh uuid; which one tells nothing, so it is always the same.
Fresh == CHOOSE r \in Row : status[r] = "absent"

\* INSERT INTO outbox_events: status pending, attempts 0.  A delay_seconds
\* leaves the row not yet due.
Insert(k, t) ==
  \E r \in Row, d \in BOOLEAN :
    /\ status[r] = "absent"
    /\ r = Fresh
    /\ status' = [status EXCEPT ![r] = "pending"]
    /\ key' = [key EXCEPT ![r] = k]
    /\ target' = [target EXCEPT ![r] = t]
    /\ due' = [due EXCEPT ![r] = d]
    /\ UNCHANGED attempts

FindByDedupeKey(k) == {r \in Present : key[r] = k}

\* enqueue, first connection: look the dedupe key up.  With a hit the call
\* returns the existing id and changes nothing.
EnqueueLookup(p, k) ==
  /\ intent[p] = NoKey
  /\ FindByDedupeKey(k) = {}
  /\ intent' = [intent EXCEPT ![p] = k]
  /\ UNCHANGED <<table, replaying, workers, history>>

\* enqueue, second connection: insert the row and commit.
EnqueueInsert(p) ==
  /\ intent[p] # NoKey
  /\ \E t \in Target : Insert(intent[p], t)
  /\ intent' = [intent EXCEPT ![p] = NoKey]
  /\ UNCHANGED <<replaying, workers, history>>

\* enqueue without a dedupe key inserts at once.
EnqueueUnkeyed(p) ==
  /\ intent[p] = NoKey
  /\ \E t \in Target : Insert(NoKey, t)
  /\ UNCHANGED <<intent, replaying, workers, history>>

-----------------------------------------------------------------------------
(* OutboxWorker *)

Idle(w) == batch[w] = {} /\ current[w] = NoRow

\* Mutants: the claim takes over rows another worker is processing; it forgets
\* the rows that failed.
ClaimableAnyOpen ==
  {r \in Row : status[r] \in {"pending", "failed", "processing"} /\ due[r]}
ClaimablePendingOnly == {r \in Row : status[r] = "pending" /\ due[r]}

Claimable == {r \in Row : status[r] \in {"pending", "failed"} /\ due[r]}

\* One UPDATE moves up to batch_size due rows to processing.  SKIP LOCKED may
\* pass over rows another claim is holding, so any of the due rows may be left.
ClaimDueEvents(w) ==
  /\ Idle(w)
  /\ \E S \in SUBSET Claimable :
       /\ S # {}
       /\ Cardinality(S) <= BatchSize
       /\ status' = [r \in Row |-> IF r \in S THEN "processing" ELSE status[r]]
       /\ batch' = [batch EXCEPT ![w] = S]
       /\ seen' = [seen EXCEPT ![w] =
                     [r \in Row |-> IF r \in S THEN attempts[r] ELSE 0]]
  /\ UNCHANGED <<attempts, due, key, target, intent, replaying, current,
                 outcome, history>>

\* The loop of run_once takes the next claimed event whose target resolves and
\* calls its handler.
Dispatch(w) ==
  /\ current[w] = NoRow
  /\ \E r \in batch[w] :
       /\ target[r] \in Handled
       /\ batch' = [batch EXCEPT ![w] = @ \ {r}]
       /\ current' = [current EXCEPT ![w] = r]
       /\ dispatches' = [dispatches EXCEPT ![r] = @ + 1]
  /\ outcome' = [outcome EXCEPT ![w] = "running"]
  /\ UNCHANGED <<table, intent, replaying, seen, retried, crashes>>

\* No handler for the target prefix: the row goes straight to dead.
MarkDead(w) ==
  /\ current[w] = NoRow
  /\ \E r \in batch[w] :
       /\ target[r] \notin Handled
       /\ batch' = [batch EXCEPT ![w] = @ \ {r}]
       /\ status' = [status EXCEPT ![r] = "dead"]
       /\ attempts' = [attempts EXCEPT ![r] = seen[w][r] + 1]
  /\ UNCHANGED <<due, key, target, intent, replaying, current, seen, outcome,
                 history>>

HandlerReturns(w) ==
  /\ current[w] # NoRow
  /\ outcome[w] = "running"
  /\ outcome' = [outcome EXCEPT ![w] = "returned"]
  /\ UNCHANGED <<table, intent, replaying, batch, current, seen, history>>

HandlerRaises(w) ==
  /\ current[w] # NoRow
  /\ outcome[w] = "running"
  /\ outcome' = [outcome EXCEPT ![w] = "raised"]
  /\ UNCHANGED <<table, intent, replaying, batch, current, seen, history>>

Settle(w, st) ==
  /\ status' = [status EXCEPT ![current[w]] = st]
  /\ current' = [current EXCEPT ![w] = NoRow]
  /\ outcome' = [outcome EXCEPT ![w] = "running"]
  /\ UNCHANGED <<key, target, intent, replaying, batch, seen, history>>

\* attempts = attempts + 1 in SQL; WHERE names the id only, not the status.
MarkSucceeded(w) ==
  /\ current[w] # NoRow
  /\ outcome[w] = "returned"
  /\ attempts' = [attempts EXCEPT ![current[w]] = @ + 1]
  /\ Settle(w, "succeeded")
  /\ UNCHANGED due

\* The UPDATE of _mark_succeeded fails.  It is inside the same try as the
\* handler, so the event goes on to _mark_failed although its effect happened.
MarkSucceededRaises(w) ==
  /\ current[w] # NoRow
  /\ outcome[w] = "returned"
  /\ outcome' = [outcome EXCEPT ![w] = "raised"]
  /\ UNCHANGED <<table, intent, replaying, batch, current, seen, history>>

\* Mutant: one attempt too many before the row is dead.
MarkFailedOffByOne(w) ==
  LET n == seen[w][current[w]] + 1 IN
  /\ current[w] # NoRow
  /\ outcome[w] = "raised"
  /\ attempts' = [attempts EXCEPT ![current[w]] = n]
  /\ due' = [due EXCEPT ![current[w]] = FALSE]
  /\ Settle(w, IF n > MaxAttempts THEN "dead" ELSE "failed")

\* attempts is computed from the claimed snapshot.
MarkFailed(w) ==
  LET n == seen[w][current[w]] + 1 IN
  /\ current[w] # NoRow
  /\ outcome[w] = "raised"
  /\ attempts' = [attempts EXCEPT ![current[w]] = n]
  /\ due' = [due EXCEPT ![current[w]] = FALSE]
  /\ Settle(w, IF n >= MaxAttempts THEN "dead" ELSE "failed")

\* The process dies, or a mark raises out of run_once and run_forever starts
\* over: either way the claimed batch is forgotten and its rows stay as they are.
Crash(w) ==
  /\ ~ Idle(w)
  /\ crashes < MaxCrashes
  /\ crashes' = crashes + 1
  /\ batch' = [batch EXCEPT ![w] = {}]
  /\ current' = [current EXCEPT ![w] = NoRow]
  /\ outcome' = [outcome EXCEPT ![w] = "running"]
  /\ UNCHANGED <<table, intent, replaying, seen, dispatches, retried>>

\* The delay or the backoff of a row runs out.  A dead row has no
\* next_attempt_at; a worker reads the column only of pending and failed rows.
BackoffElapses(r) ==
  /\ status[r] \in {"pending", "failed"}
  /\ ~ due[r]
  /\ due' = [due EXCEPT ![r] = TRUE]
  /\ UNCHANGED <<status, attempts, key, target, intent, replaying, workers,
                 history>>

-----------------------------------------------------------------------------
(* Operations console *)

\* Mutant: retry without its status filter.
RetryAnyEvent(r) ==
  /\ r \in Present
  /\ retried[r] < MaxRetries
  /\ status' = [status EXCEPT ![r] = "pending"]
  /\ due' = [due EXCEPT ![r] = TRUE]
  /\ retried' = [retried EXCEPT ![r] = @ + 1]
  /\ UNCHANGED <<attempts, key, target, intent, replaying, workers, dispatches,
                 crashes>>

\* attempts is kept, so a retried dead row has a single try left.
RetryEvent(r) ==
  /\ status[r] \in {"failed", "dead"}
  /\ retried[r] < MaxRetries
  /\ status' = [status EXCEPT ![r] = "pending"]
  /\ due' = [due EXCEPT ![r] = TRUE]
  /\ retried' = [retried EXCEPT ![r] = @ + 1]
  /\ UNCHANGED <<attempts, key, target, intent, replaying, workers, dispatches,
                 crashes>>

\* Unconditional: the row may be processing in a live worker.
SkipEvent(r) ==
  /\ r \in Present
  /\ status' = [status EXCEPT ![r] = "succeeded"]
  /\ UNCHANGED <<attempts, due, key, target, intent, replaying, workers, history>>

\* replay_events selects the rows of a window, then enqueues a copy of each,
\* without the dedupe key, in a transaction of its own.
ReplaySelect ==
  /\ replaying = {}
  /\ \E S \in SUBSET Present : S # {} /\ replaying' = S
  /\ UNCHANGED <<table, intent, workers, history>>

ReplayCopy ==
  /\ \E r \in replaying :
       /\ Insert(NoKey, target[r])
       /\ replaying' = replaying \ {r}
  /\ UNCHANGED <<intent, workers, history>>

-----------------------------------------------------------------------------
WorkerStep(w) ==
  \/ ClaimDueEvents(w)
  \/ Dispatch(w)
  \/ MarkDead(w)
  \/ HandlerReturns(w)
  \/ HandlerRaises(w)
  \/ MarkSucceeded(w)
  \/ MarkSucceededRaises(w)
  \/ MarkFailed(w)

Next ==
  \/ \E p \in Producer : \/ EnqueueInsert(p)
                         \/ EnqueueUnkeyed(p)
                         \/ \E k \in Key : EnqueueLookup(p, k)
  \/ \E w \in Worker : WorkerStep(w) \/ Crash(w)
  \/ \E r \in Row : BackoffElapses(r) \/ RetryEvent(r) \/ SkipEvent(r)
  \/ ReplaySelect
  \/ ReplayCopy

Spec == Init /\ [][Next]_vars

\* run_forever never stops polling and a handler ends; timestamps pass.
Fairness ==
  /\ \A w \in Worker : WF_vars(WorkerStep(w))
  /\ \A r \in Row : WF_vars(BackoffElapses(r))

FairSpec == Spec /\ Fairness

-----------------------------------------------------------------------------
(* Correctness *)

\* Every column and every worker register holds a value of its domain.
TypeOK ==
  /\ status \in [Row -> Status \cup {"absent"}]
  /\ attempts \in [Row -> Nat]
  /\ due \in [Row -> BOOLEAN]
  /\ key \in [Row -> Key \cup {NoKey}]
  /\ target \in [Row -> Target]
  /\ intent \in [Producer -> Key \cup {NoKey}]
  /\ replaying \in SUBSET Row
  /\ batch \in [Worker -> SUBSET Row]
  /\ current \in [Worker -> Row \cup {NoRow}]
  /\ seen \in [Worker -> [Row -> Nat]]
  /\ outcome \in [Worker -> {"running", "returned", "raised"}]
  /\ dispatches \in [Row -> Nat]
  /\ retried \in [Row -> Nat]
  /\ crashes \in Nat

\* No two workers ever hold the same row, whatever operators retry or skip in
\* the meantime ("so multiple worker processes don't double-fire").
ClaimExclusive ==
  \A v, w \in Worker : v # w => Held(v) \cap Held(w) = {}

\* A row is dispatched at most max_attempts times, plus once per manual retry,
\* across crashes, failed marks and skips.
DispatchBudget ==
  \A r \in Row : dispatches[r] <= MaxAttempts + retried[r]

\* What a holder alone may do to a settled row.
LeavesSucceededHeld ==
  \A r \in Row : status[r] = "succeeded" /\ status'[r] # "succeeded"
     => \E w \in Worker : current[w] = r \/ r \in batch[w]

\* Only a worker that was already holding the row when an operator skipped it
\* can take it out of succeeded: no other worker, and no retry, re-fires it.
SucceededSticks == [][LeavesSucceededHeld]_vars

\* Rows that are in processing with no worker to settle them: nothing claims
\* them again.
Stranded ==
  {r \in Row : status[r] = "processing" /\ \A w \in Worker : r \notin Held(w)}

\* Rows are stranded by crashes alone, and a crash strands one batch at most.
CrashStrandsABatch == Cardinality(Stranded) <= crashes * BatchSize

\* A row that waits or is claimed is settled in the end, whatever operators
\* do, unless the worker that claimed it dies: then it stays in processing.
RowsSettle ==
  \A r \in Row : status[r] \in {"pending", "failed", "processing"}
                   ~> \/ status[r] \in {"succeeded", "dead"}
                      \/ crashes > 0 /\ r \in Stranded
=============================================================================
