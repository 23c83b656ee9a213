--------------------------- MODULE EventPipeline ---------------------------
(***************************************************************************)
(* The way of an agent event from a producer to the planning engine:       *)
(* RedisEventQueue of core/event_queue.py (two Redis streams with one      *)
(* consumer group), the Celery tasks drain_event_stream,                   *)
(* reclaim_stale_events and process_agent_event of                         *)
(* services/celery_tasks.py, and the counting semaphore of                 *)
(* services/workspace_semaphore.py, for the events of one organization.    *)
(*                                                                         *)
(* One pool of worker processes runs all three tasks.  Redis and Celery's  *)
(* broker are external: a claimed entry stays pending until it is acked,   *)
(* and a task message until its task ends (task_acks_late).                *)
(***************************************************************************)
EXTENDS Integers, Sequences, FiniteSets

CONSTANTS
  Event,        \* calls of enqueue
  Worker,       \* Celery worker processes
  NoEvent,      \* no event in hand
  High,         \* the events created with priority high_priority
  Key, NoKey,   \* idempotency keys
  KeyOf,        \* Event -> its key
  Limit,        \* concurrent boxes of the workspace's tier
  MaxRetries,   \* max_retries of process_agent_event
  BatchSize,    \* events one drain dispatches
  MaxCopies,    \* bound: an entry reclaimed this often is not reclaimed again
  FaultKind,    \* the faults that occur
  MaxFaults     \* bound: faults in a behaviour

FaultKinds == {"enqueue", "read", "publish", "ack", "redis", "expiry",
               "process", "machine"}

ASSUME PipelineAssumption ==
  /\ NoEvent \notin Event /\ NoKey \notin Key
  /\ High \subseteq Event
  /\ KeyOf \in [Event -> Key \cup {NoKey}]
  /\ IsFiniteSet(Worker)
  /\ Limit \in Nat \ {0} /\ MaxRetries \in Nat
  /\ BatchSize \in Nat \ {0} /\ MaxCopies \in Nat
  /\ FaultKind \subseteq FaultKinds /\ MaxFaults \in Nat

VARIABLES
  enq,        \* Event -> how far its enqueue got
  dedup,      \* keys set and not expired
  stream,     \* entries of each stream no consumer has read
  unacked,    \* the group's pending entries
  idle,       \* those pending longer than the visibility timeout
  tasks,      \* Event -> retries -> messages of process_agent_event
  pc,         \* Worker -> what it runs
  hand,       \* Worker -> the claimed entry of a drain, the event of a task
  reclaimed,  \* Worker -> reclaimed entries it has still to publish
  tries,      \* Worker -> retries of its task
  dispatched, \* Worker -> events its drain has dispatched this tick
  slots,      \* the semaphore's counter
  outlived,   \* history: events whose key expired after they set it
  ended,      \* history: events whose dispatch ended
  dropped,    \* history: events that ran out of retries
  killed,     \* history: events whose worker process was lost
  published,  \* history: Event -> messages published from its stream entry
  disturbed,  \* history: events whose drain stopped between claim and ack
  leaked,     \* history: slots whose worker died, or could not give it back
  unsure,     \* history: a slot was granted without counting, or forgotten
  faults      \* faults so far

queue   == <<enq, dedup, outlived, stream, unacked, idle>>
local   == <<pc, hand, reclaimed, tries, dispatched>>
history == <<ended, dropped, killed, published, disturbed, leaked, unsure>>
vars    == <<queue, tasks, local, slots, history, faults>>

StreamName  == {"high", "standard"}
StreamOf(e) == IF e \in High THEN "high" ELSE "standard"
Try         == 0 .. MaxRetries

Owners   == {"reserved", "added", "lost"}   \* their event set its key
InTask   == {"acquire", "giveback", "dispatch", "clamp"}
OwnsSlot == {"giveback", "dispatch"}

Init ==
  /\ enq = [e \in Event |-> "new"] /\ dedup = {} /\ outlived = {}
  /\ stream = [s \in StreamName |-> <<>>] /\ unacked = {} /\ idle = {}
  /\ tasks = [e \in Event |-> [r \in Try |-> 0]]
  /\ pc = [w \in Worker |-> "free"]
  /\ hand = [w \in Worker |-> NoEvent]
  /\ reclaimed = [w \in Worker |-> {}]
  /\ tries = [w \in Worker |-> 0]
  /\ dispatched = [w \in Worker |-> 0]
  /\ slots = 0
  /\ ended = {} /\ dropped = {} /\ killed = {}
  /\ published = [e \in Event |-> 0] /\ disturbed = {}
  /\ leaked = 0 /\ unsure = FALSE
  /\ faults = 0

Fault(kind) == kind \in FaultKind /\ faults < MaxFaults /\ faults' = faults + 1

Goto(w, l) == pc' = [pc EXCEPT ![w] = l]

Return(w) ==
  /\ Goto(w, "free")
  /\ hand' = [hand EXCEPT ![w] = NoEvent]
  /\ reclaimed' = [reclaimed EXCEPT ![w] = {}]
  /\ tries' = [tries EXCEPT ![w] = 0]
  /\ dispatched' = [dispatched EXCEPT ![w] = 0]

Post(e, r) == tasks' = [tasks EXCEPT ![e][r] = @ + 1]

-----------------------------------------------------------------------------
(* Producers: RedisEventQueue.enqueue *)

\* Mutant: the key is looked up and not set.
LookupKey(e) == enq[e] = "new" /\ KeyOf[e] \notin dedup /\ dedup' = dedup

\* SET key NX EX 86400.
ReserveKey(e) ==
  /\ enq[e] = "new" /\ KeyOf[e] \notin dedup
  /\ dedup' = dedup \cup ({KeyOf[e]} \ {NoKey})

Reserve(e) ==
  /\ ReserveKey(e)
  /\ enq' = [enq EXCEPT ![e] = "reserved"]
  /\ UNCHANGED <<outlived, stream, unacked, idle, tasks, local, slots, history, faults>>

Duplicate(e) ==
  /\ enq[e] = "new" /\ KeyOf[e] \in dedup
  /\ enq' = [enq EXCEPT ![e] = "duplicate"]
  /\ UNCHANGED <<dedup, outlived, stream, unacked, idle, tasks, local, slots, history, faults>>

\* A day after it was set a key is forgotten, whatever became of its event.
KeyExpires(k) ==
  /\ k \in dedup
  /\ dedup' = dedup \ {k}
  /\ outlived' = outlived \cup {e \in Event : KeyOf[e] = k /\ enq[e] \in Owners}
  /\ UNCHANGED <<enq, stream, unacked, idle, tasks, local, slots, history, faults>>

Add(e) ==
  /\ enq[e] = "reserved"
  /\ enq' = [enq EXCEPT ![e] = "added"]
  /\ stream' = [stream EXCEPT ![StreamOf(e)] = Append(@, e)]
  /\ UNCHANGED <<dedup, outlived, unacked, idle, tasks, local, slots, history, faults>>

\* The producer dies, or XADD raises, after the key was set.
AddFails(e) ==
  /\ enq[e] = "reserved" /\ Fault("enqueue")
  /\ enq' = [enq EXCEPT ![e] = "lost"]
  /\ UNCHANGED <<dedup, outlived, stream, unacked, idle, tasks, local, slots, history>>

-----------------------------------------------------------------------------
(* drain_event_stream: beat starts one every two seconds *)

StartDrain(w) ==
  /\ pc[w] = "free"
  /\ Goto(w, "high")
  /\ UNCHANGED <<queue, tasks, hand, reclaimed, tries, dispatched, slots, history, faults>>

\* Mutant: the entry is acked as it is claimed.
ReadAndAck(w, s) ==
  /\ pc[w] = s /\ stream[s] # <<>>
  /\ hand' = [hand EXCEPT ![w] = Head(stream[s])]
  /\ stream' = [stream EXCEPT ![s] = Tail(@)]
  /\ Goto(w, "publish")
  /\ UNCHANGED <<enq, dedup, outlived, unacked, idle, tasks, reclaimed, tries,
                 dispatched, slots, history, faults>>

\* XREADGROUP with BLOCK 0 waits for an entry: it never finds a stream empty.
ReadStream(w, s) ==
  /\ pc[w] = s /\ stream[s] # <<>>
  /\ hand' = [hand EXCEPT ![w] = Head(stream[s])]
  /\ stream' = [stream EXCEPT ![s] = Tail(@)]
  /\ unacked' = unacked \cup {Head(stream[s])}
  /\ Goto(w, "publish")
  /\ UNCHANGED <<enq, dedup, outlived, idle, tasks, reclaimed, tries, dispatched,
                 slots, history, faults>>

\* A read that raises is logged, and the next stream read.
ReadHighRaises(w) ==
  /\ pc[w] = "high" /\ Fault("read")
  /\ Goto(w, "standard")
  /\ UNCHANGED <<queue, tasks, hand, reclaimed, tries, dispatched, slots, history>>

ReadStandardRaises(w) ==
  /\ pc[w] = "standard" /\ Fault("read")
  /\ Return(w)
  /\ UNCHANGED <<queue, tasks, slots, history>>

Publish(w) ==
  /\ pc[w] = "publish"
  /\ Post(hand[w], 0)
  /\ published' = [published EXCEPT ![hand[w]] = @ + 1]
  /\ Goto(w, "ack")
  /\ UNCHANGED <<queue, hand, reclaimed, tries, dispatched, slots, ended, dropped,
                 killed, disturbed, leaked, unsure, faults>>

\* Mutant: the entry stays pending.
NoAck(w) == UNCHANGED <<unacked, idle>>

XAck(w) ==
  /\ unacked' = unacked \ {hand[w]}
  /\ idle' = idle \ {hand[w]}

Ack(w) ==
  /\ pc[w] = "ack"
  /\ XAck(w)
  /\ IF dispatched[w] + 1 < BatchSize
     THEN /\ dispatched' = [dispatched EXCEPT ![w] = @ + 1]
          /\ hand' = [hand EXCEPT ![w] = NoEvent]
          /\ Goto(w, "high")
          /\ UNCHANGED <<reclaimed, tries>>
     ELSE Return(w)
  /\ UNCHANGED <<enq, dedup, outlived, stream, tasks, slots, history, faults>>

\* The broker refuses the task, or Redis the ack: the drain ends.
DrainRaises(w) ==
  /\ \/ pc[w] = "publish" /\ Fault("publish")
     \/ pc[w] = "ack" /\ Fault("ack")
  /\ Return(w)
  /\ disturbed' = disturbed \cup {hand[w]}
  /\ UNCHANGED <<queue, tasks, slots, ended, dropped, killed, published, leaked, unsure>>

-----------------------------------------------------------------------------
(* reclaim_stale_events: beat starts one every thirty seconds *)

\* A minute passes over an entry that no live drain is about to ack.
VisibilityTimeout(e) ==
  /\ e \in unacked \ idle /\ published[e] < MaxCopies
  /\ \A w \in Worker : /\ hand[w] = e => pc[w] \in InTask
                       /\ e \notin reclaimed[w]
  /\ idle' = idle \cup {e}
  /\ UNCHANGED <<enq, dedup, outlived, stream, unacked, tasks, local, slots, history, faults>>

\* XAUTOCLAIM takes the idle entries over, and their idle time starts again.
Reclaim(w) ==
  /\ pc[w] = "free" /\ idle # {}
  /\ reclaimed' = [reclaimed EXCEPT ![w] = idle]
  /\ idle' = {}
  /\ Goto(w, "reclaim")
  /\ UNCHANGED <<enq, dedup, outlived, stream, unacked, tasks, hand, tries,
                 dispatched, slots, history, faults>>

\* Each is published; none is acked.
PublishReclaimed(w) ==
  /\ pc[w] = "reclaim"
  /\ \E e \in reclaimed[w] :
       /\ Post(e, 0)
       /\ published' = [published EXCEPT ![e] = @ + 1]
       /\ reclaimed' = [reclaimed EXCEPT ![w] = @ \ {e}]
       /\ Goto(w, IF reclaimed[w] = {e} THEN "free" ELSE "reclaim")
  /\ UNCHANGED <<queue, hand, tries, dispatched, slots, ended, dropped, killed,
                 disturbed, leaked, unsure, faults>>

ReclaimRaises(w) ==
  /\ pc[w] = "reclaim" /\ Fault("publish")
  /\ Return(w)
  /\ UNCHANGED <<queue, tasks, slots, history>>

-----------------------------------------------------------------------------
(* process_agent_event and the workspace semaphore *)

StartTask(w) ==
  /\ pc[w] = "free"
  /\ \E e \in Event, r \in Try :
       /\ tasks[e][r] > 0
       /\ tasks' = [tasks EXCEPT ![e][r] = @ - 1]
       /\ hand' = [hand EXCEPT ![w] = e]
       /\ tries' = [tries EXCEPT ![w] = r]
  /\ Goto(w, "acquire")
  /\ UNCHANGED <<queue, reclaimed, dispatched, slots, history, faults>>

\* Mutant: the slot at the limit is granted once more.
OverLimitByOne == slots > Limit

\* What INCR returned is compared with the limit.
OverLimit == slots + 1 > Limit

Acquire(w) ==
  /\ pc[w] = "acquire"
  /\ slots' = slots + 1
  /\ Goto(w, IF OverLimit THEN "giveback" ELSE "dispatch")
  /\ UNCHANGED <<queue, tasks, hand, reclaimed, tries, dispatched, history, faults>>

\* A Redis error, before or after the command took effect, lets the event
\* through: on the INCR, and on the DECR that gives a refused slot back.
AcquireFailsOpen(w) ==
  /\ pc[w] \in {"acquire", "giveback"} /\ Fault("redis")
  /\ slots' \in {slots, IF pc[w] = "acquire" THEN slots + 1 ELSE slots - 1}
  /\ unsure' = TRUE
  /\ Goto(w, "dispatch")
  /\ UNCHANGED <<queue, tasks, hand, reclaimed, tries, dispatched, ended, dropped,
                 killed, published, disturbed, leaked>>

DropSlot == slots' = slots - 1

\* The slot is given back and the task retried in five seconds; after
\* max_retries the retry raises and the task's message is acked.
Refuse(w) ==
  LET e == hand[w] IN
  /\ pc[w] = "giveback"
  /\ DropSlot
  /\ IF tries[w] < MaxRetries
     THEN Post(e, tries[w] + 1) /\ UNCHANGED dropped
     ELSE dropped' = dropped \cup {e} /\ UNCHANGED tasks
  /\ Return(w)
  /\ UNCHANGED <<queue, ended, killed, published, disturbed, leaked, unsure, faults>>

\* The plan ran, to whatever end; a counter below zero is set to zero after.
Release(w) ==
  /\ pc[w] = "dispatch"
  /\ slots' = slots - 1
  /\ ended' = ended \cup {hand[w]}
  /\ IF slots - 1 < 0
     THEN /\ Goto(w, "clamp")
          /\ UNCHANGED <<hand, reclaimed, tries, dispatched>>
     ELSE Return(w)
  /\ UNCHANGED <<queue, tasks, dropped, killed, published, disturbed, leaked, unsure,
                 faults>>

Clamp(w) ==
  /\ pc[w] = "clamp"
  /\ slots' = 0
  /\ Return(w)
  /\ UNCHANGED <<queue, tasks, history, faults>>

\* A Redis error, swallowed: on the DECR, which may have happened, or on the SET.
ReleaseFails(w) ==
  /\ Fault("redis")
  /\ \/ pc[w] = "dispatch" /\ slots' = slots /\ leaked' = leaked + 1
     \/ pc[w] = "dispatch" /\ slots' = slots - 1 /\ UNCHANGED leaked
     \/ pc[w] = "clamp" /\ UNCHANGED <<slots, leaked>>
  /\ ended' = ended \cup {hand[w]}
  /\ Return(w)
  /\ UNCHANGED <<queue, tasks, dropped, killed, published, disturbed, unsure>>

\* Fifteen minutes without an acquire: Redis forgets the counter.
SlotsExpire ==
  /\ slots # 0 /\ Fault("expiry")
  /\ slots' = 0 /\ unsure' = TRUE
  /\ UNCHANGED <<queue, tasks, local, ended, dropped, killed, published, disturbed, leaked>>

-----------------------------------------------------------------------------
(* Workers that die *)

Die(w) ==
  /\ leaked' = leaked + IF pc[w] \in OwnsSlot THEN 1 ELSE 0
  /\ disturbed' = IF pc[w] \in {"publish", "ack"}
                  THEN disturbed \cup {hand[w]} ELSE disturbed
  /\ Return(w)
  /\ UNCHANGED <<queue, slots, ended, dropped, published, unsure>>

\* The machine dies: the broker delivers the message of its task again.
MachineDies(w) ==
  /\ pc[w] # "free" /\ Fault("machine")
  /\ Die(w)
  /\ IF pc[w] \in InTask THEN Post(hand[w], tries[w]) ELSE UNCHANGED tasks
  /\ UNCHANGED killed

\* The child process dies: without task_reject_on_worker_lost its parent
\* acks the message.
ProcessDies(w) ==
  /\ pc[w] # "free" /\ Fault("process")
  /\ Die(w)
  /\ killed' = IF pc[w] \in InTask THEN killed \cup {hand[w]} ELSE killed
  /\ UNCHANGED tasks

-----------------------------------------------------------------------------
Producing(e) == Reserve(e) \/ Duplicate(e) \/ Add(e) \/ AddFails(e)

Working(w) ==
  \/ \E s \in StreamName : ReadStream(w, s)
  \/ Publish(w) \/ Ack(w) \/ PublishReclaimed(w)
  \/ StartTask(w) \/ Acquire(w) \/ Refuse(w) \/ Release(w) \/ Clamp(w)

Failing(w) ==
  \/ ReadHighRaises(w) \/ ReadStandardRaises(w) \/ DrainRaises(w)
  \/ ReclaimRaises(w) \/ AcquireFailsOpen(w) \/ ReleaseFails(w)
  \/ MachineDies(w) \/ ProcessDies(w)

Next ==
  \/ \E e \in Event : Producing(e) \/ VisibilityTimeout(e)
  \/ \E w \in Worker : StartDrain(w) \/ Reclaim(w) \/ Working(w) \/ Failing(w)
  \/ \E k \in Key : KeyExpires(k)
  \/ SlotsExpire

Spec == Init /\ [][Next]_vars

\* Beat never stops, a free worker takes what waits, and a task that is not
\* blocked goes on.
Fairness ==
  \A w \in Worker : /\ WF_vars(Working(w))
                    /\ WF_vars(StartDrain(w))
                    /\ WF_vars(Reclaim(w))

FairSpec == Spec /\ Fairness

-----------------------------------------------------------------------------
(* Properties *)

\* Every variable stays in its set.
TypeOK ==
  /\ enq \in [Event -> {"new", "reserved", "added", "duplicate", "lost"}]
  /\ dedup \in SUBSET Key /\ outlived \in SUBSET Event
  /\ stream \in [StreamName -> Seq(Event)]
  /\ unacked \in SUBSET Event /\ idle \in SUBSET unacked
  /\ tasks \in [Event -> [Try -> Nat]]
  /\ pc \in [Worker -> InTask \cup StreamName
                       \cup {"free", "publish", "ack", "reclaim"}]
  /\ hand \in [Worker -> Event \cup {NoEvent}]
  /\ \A w \in Worker :
       hand[w] = NoEvent <=> pc[w] \in StreamName \cup {"free", "reclaim"}
  /\ reclaimed \in [Worker -> SUBSET Event]
  /\ tries \in [Worker -> Try]
  /\ dispatched \in [Worker -> Nat]
  /\ slots \in Int /\ leaked \in Nat /\ unsure \in BOOLEAN
  /\ ended \in SUBSET Event /\ dropped \in SUBSET Event
  /\ killed \in SUBSET Event /\ disturbed \in SUBSET Event
  /\ published \in [Event -> Nat] /\ faults \in Nat

Queued(e) == \E s \in StreamName : \E i \in DOMAIN stream[s] : stream[s][i] = e
Tasked(e) == \/ \E r \in Try : tasks[e][r] > 0
             \/ \E w \in Worker : hand[w] = e

\* The event is in its stream, pending there, in a task or a worker's hand, or
\* came to one of its ends.
Kept(e) == \/ Queued(e) \/ e \in unacked \/ Tasked(e)
           \/ e \in ended \cup dropped \cup killed

\* No drain, reclaim or death of a machine loses an event that was added
\* ("events are not lost if the agent is unavailable, they wait").
NothingVanishes == \A e \in Event : enq[e] = "added" => Kept(e)

\* Two events with one idempotency key enter the streams only if the key of one
\* expired after it was set.
OneEventPerKey ==
  \A e, f \in Event :
    enq[e] = "added" /\ enq[f] = "added" /\ KeyOf[e] = KeyOf[f]
      => e = f \/ KeyOf[e] = NoKey \/ e \in outlived \/ f \in outlived

\* What is dropped as a duplicate is one: an event with its key is on its way, was
\* added and is kept, or its own enqueue failed after it had set the key.
DuplicateOfKept ==
  \A d \in Event : enq[d] = "duplicate" =>
    \E f \in Event : /\ KeyOf[f] = KeyOf[d] /\ f # d
                     /\ enq[f] \in {"reserved", "lost"} \/ (enq[f] = "added" /\ Kept(f))

\* An entry becomes two tasks only if its drain stopped between claim and ack.
OneTaskPerEntry ==
  \A e \in Event : published[e] > 1 => e \in disturbed

Holding(S) == {w \in Worker : pc[w] \in S}

\* The counter counts the workers that own a slot and the slots that leaked.
SlotsAccounted ==
  ~unsure => slots = Cardinality(Holding(OwnsSlot)) + leaked

\* A workspace never runs more plans at once than its tier allows.
WithinLimit == ~unsure => Cardinality(Holding({"dispatch"})) <= Limit

\* An event in a stream is taken to its end by some worker: they read the
\* high priority stream first, "fall back to standard if empty".
EventsEnd ==
  \A e \in Event : enq[e] = "added" ~> e \in ended \cup dropped \cup killed
=============================================================================
