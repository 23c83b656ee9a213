----------------------- MODULE EventPipeline_proofs -----------------------
(***************************************************************************)
(* Theorems about EventPipeline for any events, workers, limits and        *)
(* faults.  Three inductive invariants on top of the types: where an added *)
(* event can be, which events hold an idempotency key, and what the        *)
(* semaphore's counter counts.                                             *)
(***************************************************************************)
EXTENDS EventPipeline, SequenceTheorems, FiniteSetTheorems, TLAPS

Places == InTask \cup StreamName \cup {"free", "publish", "ack", "reclaim"}

\* A task message exists, a worker runs it, or it came to one of its ends.
Delivered(e) ==
  \/ \E r \in Try : tasks[e][r] > 0
  \/ \E w \in Worker : hand[w] = e /\ pc[w] \in InTask
  \/ e \in ended \cup dropped \cup killed

\* An entry is acked only after its task was delivered, and a worker that
\* corrects the counter has ended its event.
EventsKept ==
  /\ \A w \in Worker : pc[w] = "ack" => Delivered(hand[w])
  /\ \A w \in Worker : pc[w] = "clamp" => hand[w] \in ended
  /\ \A e \in Event : enq[e] = "added" =>
       Queued(e) \/ e \in unacked \/ Delivered(e)

\* The events that went past the lookup of their key own it until it expires,
\* and a key that is set, or refused an event, has had such an owner.
KeysOwned ==
  /\ \A e \in Event \ outlived : enq[e] \in Owners => KeyOf[e] \in dedup \cup {NoKey}
  /\ \A e, f \in Event \ outlived :
       enq[e] \in Owners /\ enq[f] \in Owners /\ KeyOf[e] = KeyOf[f]
         => e = f \/ KeyOf[e] = NoKey
  /\ \A k \in dedup : \E e \in Event : KeyOf[e] = k /\ enq[e] \in Owners
  /\ \A d \in Event : enq[d] = "duplicate" =>
       \E e \in Event : KeyOf[e] = KeyOf[d] /\ enq[e] \in Owners

\* While every slot was counted, the counter never goes below zero.
NoClamp == ~unsure => \A w \in Worker : pc[w] # "clamp"

-----------------------------------------------------------------------------
(* Types *)

LEMMA PostType ==
  ASSUME tasks \in [Event -> [Try -> Nat]], NEW e \in Event, NEW r \in Try,
         Post(e, r)
  PROVE  /\ tasks' \in [Event -> [Try -> Nat]]
         /\ tasks'[e][r] > 0
         /\ \A f \in Event, t \in Try : tasks[f][t] > 0 => tasks'[f][t] > 0
<1>1. tasks[e] \in [Try -> Nat]
  OBVIOUS
<1>2. tasks' = [tasks EXCEPT ![e] = [tasks[e] EXCEPT ![r] = tasks[e][r] + 1]]
  BY DEF Post
<1>3. tasks'[e][r] = tasks[e][r] + 1
  BY <1>1, <1>2
<1> QED BY <1>1, <1>2, <1>3

LEMMA ReturnType ==
  ASSUME TypeOK, NEW w \in Worker, Return(w)
  PROVE  /\ pc' \in [Worker -> Places] /\ hand' \in [Worker -> Event \cup {NoEvent}]
         /\ reclaimed' \in [Worker -> SUBSET Event]
         /\ tries' \in [Worker -> Try] /\ dispatched' \in [Worker -> Nat]
         /\ \A v \in Worker :
              hand'[v] = NoEvent <=> pc'[v] \in StreamName \cup {"free", "reclaim"}
<1>1. 0 \in Try
  BY PipelineAssumption DEF Try
<1> QED BY <1>1, PipelineAssumption DEF TypeOK, Return, Goto, Places, StreamName, InTask

\* A worker in a task or about to publish or ack has an event in hand.
LEMMA HandType ==
  ASSUME TypeOK, NEW w \in Worker, pc[w] \in InTask \cup {"publish", "ack"}
  PROVE  hand[w] \in Event
BY PipelineAssumption DEF TypeOK, InTask, StreamName

LEMMA InitType == Init => TypeOK
<1> SUFFICES ASSUME Init PROVE TypeOK
  OBVIOUS
<1>1. 0 \in Try
  BY PipelineAssumption DEF Try
<1>2. stream \in [StreamName -> Seq(Event)]
  BY DEF Init
<1>3. tasks \in [Event -> [Try -> Nat]]
  BY DEF Init
<1>4. /\ pc \in [Worker -> Places]
      /\ hand \in [Worker -> Event \cup {NoEvent}]
      /\ \A w \in Worker :
           hand[w] = NoEvent <=> pc[w] \in StreamName \cup {"free", "reclaim"}
  BY DEF Init, Places
<1>5. reclaimed \in [Worker -> SUBSET Event] /\ idle \in SUBSET unacked
  BY DEF Init
<1>6. enq \in [Event -> {"new", "reserved", "added", "duplicate", "lost"}]
  BY DEF Init
<1>7. dispatched \in [Worker -> Nat] /\ published \in [Event -> Nat]
  BY DEF Init
<1>8. tries \in [Worker -> Try]
  BY <1>1 DEF Init
<1>9. /\ dedup \in SUBSET Key /\ outlived \in SUBSET Event /\ unacked \in SUBSET Event
      /\ slots \in Int /\ leaked \in Nat /\ unsure \in BOOLEAN
      /\ ended \in SUBSET Event /\ dropped \in SUBSET Event
      /\ killed \in SUBSET Event /\ disturbed \in SUBSET Event /\ faults \in Nat
  <2>1. /\ dedup = {} /\ outlived = {} /\ unacked = {} /\ ended = {} /\ dropped = {}
        /\ killed = {} /\ disturbed = {}
        /\ slots = 0 /\ leaked = 0 /\ faults = 0 /\ unsure = FALSE
    BY DEF Init
  <2>2. slots \in Int /\ leaked \in Nat /\ faults \in Nat
    BY <2>1
  <2>3. unsure \in BOOLEAN
    BY <2>1, Zenon
  <2> QED BY <2>1, <2>2, <2>3, Zenon
<1> QED BY <1>2, <1>3, <1>4, <1>5, <1>6, <1>7, <1>8, <1>9 DEF TypeOK, Places

LEMMA NextType == TypeOK /\ [Next]_vars => TypeOK'
<1> SUFFICES ASSUME TypeOK, [Next]_vars PROVE TypeOK'
  OBVIOUS
<1> USE PipelineAssumption
    DEF Goto, Fault, queue, local, history
<1>0. CASE UNCHANGED vars  BY <1>0 DEF vars, TypeOK
<1>1. ASSUME NEW e \in Event, Producing(e) PROVE TypeOK'
  <2>1. CASE Reserve(e)  BY <2>1 DEF Reserve, ReserveKey, TypeOK
  <2>2. CASE Duplicate(e)  BY <2>2 DEF Duplicate, TypeOK
  <2>3. CASE Add(e)
    <3>1. stream' \in [StreamName -> Seq(Event)]
      <4>1. StreamOf(e) \in StreamName
        BY DEF StreamOf, StreamName
      <4>2. Append(stream[StreamOf(e)], e) \in Seq(Event)
        BY <4>1 DEF TypeOK
      <4> QED BY <2>3, <4>1, <4>2 DEF Add, TypeOK
    <3> QED BY <2>3, <3>1 DEF Add, TypeOK
  <2>4. CASE AddFails(e)  BY <2>4 DEF AddFails, TypeOK
  <2> QED BY <1>1, <2>1, <2>2, <2>3, <2>4 DEF Producing
<1>2. ASSUME NEW e \in Event, VisibilityTimeout(e) PROVE TypeOK'
  BY <1>2 DEF VisibilityTimeout, TypeOK
<1>3. ASSUME NEW w \in Worker, StartDrain(w) PROVE TypeOK'
  BY <1>3 DEF StartDrain, TypeOK, StreamName, InTask
<1>4. ASSUME NEW w \in Worker, Reclaim(w) PROVE TypeOK'
  BY <1>4 DEF Reclaim, TypeOK, StreamName, InTask
<1>5. ASSUME NEW w \in Worker, Working(w) PROVE TypeOK'
  <2>1. ASSUME NEW s \in StreamName, ReadStream(w, s) PROVE TypeOK'
    <3>1. /\ stream[s] \in Seq(Event) /\ stream[s] # <<>>
          /\ stream' = [stream EXCEPT ![s] = Tail(stream[s])]
      BY <2>1 DEF ReadStream, TypeOK
    <3>2. Head(stream[s]) \in Event /\ Tail(stream[s]) \in Seq(Event)
      BY <3>1
    <3>3. stream' \in [StreamName -> Seq(Event)]
      BY <3>1, <3>2 DEF TypeOK
    <3>4. /\ unacked' \in SUBSET Event /\ idle' \in SUBSET unacked'
          /\ hand' \in [Worker -> Event \cup {NoEvent}]
      BY <2>1, <3>2 DEF ReadStream, TypeOK
    <3>5. /\ pc' \in [Worker -> Places]
          /\ \A v \in Worker :
               hand'[v] = NoEvent <=> pc'[v] \in StreamName \cup {"free", "reclaim"}
      BY <2>1, <3>2 DEF ReadStream, TypeOK, Places, StreamName, InTask
    <3> QED BY <2>1, <3>3, <3>4, <3>5 DEF ReadStream, TypeOK, Places
  <2>2. CASE Publish(w)
    <3>1. hand[w] \in Event /\ 0 \in Try
      BY <2>2, HandType DEF Publish, Try
    <3>2. tasks' \in [Event -> [Try -> Nat]]
      BY <2>2, <3>1, PostType DEF Publish, TypeOK
    <3>3. published' \in [Event -> Nat]
      BY <2>2, <3>1 DEF Publish, TypeOK
    <3>4. /\ pc' \in [Worker -> Places]
          /\ \A v \in Worker :
               hand'[v] = NoEvent <=> pc'[v] \in StreamName \cup {"free", "reclaim"}
      BY <2>2, <3>1 DEF Publish, TypeOK, Places, StreamName, InTask
    <3> QED BY <2>2, <3>2, <3>3, <3>4 DEF Publish, TypeOK, Places
  <2>3. CASE Ack(w)
    <3>1. unacked' \in SUBSET Event /\ idle' \in SUBSET unacked'
      BY <2>3 DEF Ack, XAck, TypeOK
    <3>2. CASE Return(w)  BY <2>3, <3>1, <3>2, ReturnType DEF Ack, TypeOK, Places
    <3>3. CASE ~Return(w)
      <4>1. /\ dispatched' \in [Worker -> Nat]
            /\ hand' \in [Worker -> Event \cup {NoEvent}]
            /\ reclaimed' = reclaimed /\ tries' = tries
        <5>1. /\ dispatched' = [dispatched EXCEPT ![w] = @ + 1]
              /\ hand' = [hand EXCEPT ![w] = NoEvent]
              /\ UNCHANGED <<reclaimed, tries>>
          BY <2>3, <3>3 DEF Ack
        <5>2. dispatched' \in [Worker -> Nat]
          BY <5>1 DEF TypeOK
        <5> QED BY <5>1, <5>2 DEF TypeOK
      <4>2. /\ pc' \in [Worker -> Places]
            /\ \A v \in Worker :
                 hand'[v] = NoEvent <=> pc'[v] \in StreamName \cup {"free", "reclaim"}
        BY <2>3, <3>3 DEF Ack, TypeOK, Places, StreamName, InTask
      <4> QED BY <2>3, <3>1, <4>1, <4>2 DEF Ack, TypeOK, Places
    <3> QED BY <3>2, <3>3
  <2>4. CASE PublishReclaimed(w)
    <3> PICK e \in reclaimed[w] :
         /\ Post(e, 0)
         /\ published' = [published EXCEPT ![e] = @ + 1]
         /\ reclaimed' = [reclaimed EXCEPT ![w] = @ \ {e}]
         /\ Goto(w, IF reclaimed[w] = {e} THEN "free" ELSE "reclaim")
      BY <2>4 DEF PublishReclaimed
    <3>1. e \in Event /\ 0 \in Try
      BY DEF TypeOK, Try
    <3>2. tasks' \in [Event -> [Try -> Nat]]
      BY <3>1, PostType DEF TypeOK
    <3>3. published' \in [Event -> Nat] /\ reclaimed' \in [Worker -> SUBSET Event]
      BY <3>1 DEF TypeOK
    <3>4. /\ pc' \in [Worker -> Places]
          /\ \A v \in Worker :
               hand'[v] = NoEvent <=> pc'[v] \in StreamName \cup {"free", "reclaim"}
      BY <2>4 DEF PublishReclaimed, TypeOK, Places, StreamName, InTask
    <3> QED BY <2>4, <3>2, <3>3, <3>4 DEF PublishReclaimed, TypeOK, Places
  <2>5. CASE StartTask(w)
    <3> PICK e \in Event, r \in Try :
         /\ tasks[e][r] > 0
         /\ tasks' = [tasks EXCEPT ![e][r] = @ - 1]
         /\ hand' = [hand EXCEPT ![w] = e]
         /\ tries' = [tries EXCEPT ![w] = r]
      BY <2>5 DEF StartTask
    <3>1. tasks' \in [Event -> [Try -> Nat]]
      BY DEF TypeOK
    <3> QED BY <2>5, <3>1 DEF StartTask, TypeOK, StreamName, InTask
  <2>6. CASE Acquire(w)
    BY <2>6 DEF Acquire, TypeOK, StreamName, InTask
  <2>7. CASE Refuse(w)
    <3>1. hand[w] \in Event
      BY <2>7, HandType DEF Refuse, InTask
    <3>2. tries[w] < MaxRetries => tries[w] + 1 \in Try
      BY DEF TypeOK, Try
    <3>3. tasks' \in [Event -> [Try -> Nat]] /\ dropped' \in SUBSET Event
      BY <2>7, <3>1, <3>2, PostType DEF Refuse, TypeOK
    <3> QED BY <2>7, <3>3, ReturnType DEF Refuse, DropSlot, TypeOK, Places
  <2>8. CASE Release(w)
    <3>1. hand[w] \in Event
      BY <2>8, HandType DEF Release, InTask
    <3>2. ended' \in SUBSET Event /\ slots' \in Int
      BY <2>8, <3>1 DEF Release, TypeOK
    <3>3. CASE Return(w)
      BY <2>8, <3>2, <3>3, ReturnType DEF Release, TypeOK, Places
    <3>4. CASE Goto(w, "clamp") /\ UNCHANGED <<hand, reclaimed, tries, dispatched>>
      <4>1. /\ pc' \in [Worker -> Places]
            /\ \A v \in Worker :
                 hand'[v] = NoEvent <=> pc'[v] \in StreamName \cup {"free", "reclaim"}
        BY <2>8, <3>4 DEF Release, TypeOK, Places, StreamName, InTask
      <4> QED BY <2>8, <3>2, <3>4, <4>1 DEF Release, TypeOK, Places
    <3> QED BY <2>8, <3>3, <3>4 DEF Release
  <2>9. CASE Clamp(w)  BY <2>9, ReturnType DEF Clamp, TypeOK, Places
  <2> QED BY <1>5, <2>1, <2>2, <2>3, <2>4, <2>5, <2>6, <2>7, <2>8, <2>9 DEF Working
<1>6. ASSUME NEW w \in Worker, Failing(w) PROVE TypeOK'
  <2>1. CASE ReadHighRaises(w)
    BY <2>1 DEF ReadHighRaises, TypeOK, StreamName, InTask
  <2>2. CASE ReadStandardRaises(w)
    BY <2>2, ReturnType DEF ReadStandardRaises, TypeOK, Places
  <2>3. CASE DrainRaises(w)
    <3>1. hand[w] \in Event
      BY <2>3, HandType DEF DrainRaises
    <3> QED BY <2>3, <3>1, ReturnType DEF DrainRaises, TypeOK, Places
  <2>4. CASE ReclaimRaises(w)  BY <2>4, ReturnType DEF ReclaimRaises, TypeOK, Places
  <2>5. CASE AcquireFailsOpen(w)
    BY <2>5 DEF AcquireFailsOpen, TypeOK, StreamName, InTask
  <2>8. CASE ReleaseFails(w)
    <3>1. /\ slots' \in Int /\ leaked' \in Nat /\ hand[w] \in Event
      BY <2>8, HandType DEF ReleaseFails, TypeOK, InTask
    <3> QED BY <2>8, <3>1, ReturnType DEF ReleaseFails, TypeOK, Places
  <2>6. CASE MachineDies(w)
    <3>1. /\ Return(w) /\ leaked' \in Nat /\ disturbed' \in SUBSET Event
      BY <2>6, HandType DEF MachineDies, Die, TypeOK
    <3>2. tasks' \in [Event -> [Try -> Nat]]
      BY <2>6, HandType, PostType DEF MachineDies, TypeOK
    <3>3. /\ UNCHANGED <<queue, slots, ended, dropped, killed, published, unsure>>
          /\ faults' \in Nat
      BY <2>6 DEF MachineDies, Die, TypeOK
    <3> QED BY <3>1, <3>2, <3>3, ReturnType DEF TypeOK, Places
  <2>7. CASE ProcessDies(w)
    <3>1. /\ Return(w) /\ leaked' \in Nat /\ disturbed' \in SUBSET Event
          /\ killed' \in SUBSET Event
      BY <2>7, HandType DEF ProcessDies, Die, TypeOK
    <3> QED BY <2>7, <3>1, ReturnType DEF ProcessDies, Die, TypeOK, Places
  <2> QED BY <1>6, <2>1, <2>2, <2>3, <2>4, <2>5, <2>6, <2>7, <2>8 DEF Failing
<1>7. CASE SlotsExpire  BY <1>7 DEF SlotsExpire, TypeOK
<1>8. ASSUME NEW k \in Key, KeyExpires(k) PROVE TypeOK'
  BY <1>8 DEF KeyExpires, TypeOK
<1> QED BY <1>0, <1>1, <1>2, <1>3, <1>4, <1>5, <1>6, <1>7, <1>8 DEF Next

\* TypeOK holds in every reachable state.
THEOREM PipelineTypeCorrect == Spec => []TypeOK
<1> QED BY InitType, NextType, PTL DEF Spec

-----------------------------------------------------------------------------
(* Idempotency keys *)

\* A key is taken by the one event that found it free.
LEMMA KeysOwnedStep == TypeOK /\ KeysOwned /\ [Next]_vars => KeysOwned'
<1> SUFFICES ASSUME TypeOK, KeysOwned, [Next]_vars PROVE KeysOwned'
  OBVIOUS
<1>1. ASSUME NEW e \in Event, Producing(e) PROVE KeysOwned'
  <2> USE PipelineAssumption DEF TypeOK, KeysOwned, Owners
  <2>1. CASE Reserve(e)  BY <2>1 DEF Reserve, ReserveKey
  <2>2. CASE Duplicate(e)
    <3>1. /\ enq[e] = "new" /\ KeyOf[e] \in dedup /\ UNCHANGED <<dedup, outlived>>
          /\ enq'[e] = "duplicate" /\ \A f \in Event \ {e} : enq'[f] = enq[f]
      BY <2>2 DEF Duplicate
    <3>2. \A f \in Event : enq[f] \in Owners <=> enq'[f] \in Owners
      BY <3>1
    <3>3. \A k \in dedup : \E f \in Event : KeyOf[f] = k /\ enq'[f] \in Owners
      BY <3>2
    <3>4. \A d \in Event : enq'[d] = "duplicate" =>
            \E f \in Event : KeyOf[f] = KeyOf[d] /\ enq'[f] \in Owners
      <4> TAKE d \in Event
      <4>1. CASE d = e  BY <3>1, <3>3, <4>1
      <4>2. CASE d # e  BY <3>1, <3>2, <4>2
      <4> QED BY <4>1, <4>2
    <3>5. /\ \A f \in Event \ outlived : enq'[f] \in Owners => KeyOf[f] \in dedup \cup {NoKey}
          /\ \A f, g \in Event \ outlived :
               enq'[f] \in Owners /\ enq'[g] \in Owners /\ KeyOf[f] = KeyOf[g]
                 => f = g \/ KeyOf[f] = NoKey
      BY <3>2
    <3> QED BY <3>1, <3>3, <3>4, <3>5
  <2>3. CASE Add(e)  BY <2>3 DEF Add
  <2>4. CASE AddFails(e)  BY <2>4 DEF AddFails
  <2> QED BY <1>1, <2>1, <2>2, <2>3, <2>4 DEF Producing
<1>3. ASSUME NEW k \in Key, KeyExpires(k) PROVE KeysOwned'
  BY <1>3, PipelineAssumption DEF KeyExpires, TypeOK, KeysOwned
<1>2. CASE (~\E e \in Event : Producing(e)) /\ ~\E k \in Key : KeyExpires(k)
  <2>1. UNCHANGED <<enq, dedup, outlived>>
    BY <1>2 DEF Next, Working, Failing, vars, queue, VisibilityTimeout, StartDrain,
       Reclaim, ReadStream, Publish, Ack, PublishReclaimed, StartTask, Acquire, Refuse,
       Release, Clamp, ReadHighRaises, ReadStandardRaises, DrainRaises, ReclaimRaises,
       AcquireFailsOpen, ReleaseFails, MachineDies, ProcessDies, Die, SlotsExpire
  <2> QED BY <2>1 DEF KeysOwned
<1> QED BY <1>1, <1>2, <1>3

-----------------------------------------------------------------------------
(* Where an added event is *)

\* What is delivered stays so: a task is taken by a worker, which ends it,
\* posts it again, or dies with it.
LEMMA DeliveredStays ==
  ASSUME TypeOK, EventsKept, [Next]_vars, NEW e \in Event, Delivered(e)
  PROVE  Delivered(e)'
<1> USE PipelineAssumption DEF Delivered, queue, local, history
<1>0. CASE UNCHANGED vars  BY <1>0 DEF vars
<1>1. ASSUME NEW f \in Event, Producing(f) \/ VisibilityTimeout(f)
      PROVE  Delivered(e)'
  BY <1>1 DEF Producing, Reserve, Duplicate, Add, AddFails, VisibilityTimeout
<1>2. CASE SlotsExpire \/ \E k \in Key : KeyExpires(k)
  BY <1>2 DEF SlotsExpire, KeyExpires
<1>3. ASSUME NEW w \in Worker,
             StartDrain(w) \/ Reclaim(w) \/ Working(w) \/ Failing(w)
      PROVE  Delivered(e)'
  <2> DEFINE Steady == /\ pc[w] \notin InTask
                       /\ \A v \in Worker \ {w} : pc'[v] = pc[v] /\ hand'[v] = hand[v]
                       /\ UNCHANGED <<ended, dropped, killed>>
                       /\ \A r \in Try : tasks[e][r] > 0 => tasks'[e][r] > 0
  <2>1. ASSUME Steady PROVE Delivered(e)'
    BY <2>1
  <2> HIDE DEF Steady
  <2>2. CASE StartDrain(w)
    BY <2>1, <2>2 DEF StartDrain, Steady, Goto, InTask, TypeOK
  <2>3. CASE Reclaim(w)
    BY <2>1, <2>3 DEF Reclaim, Steady, Goto, InTask, TypeOK
  <2>4. ASSUME NEW s \in StreamName, ReadStream(w, s) PROVE Delivered(e)'
    BY <2>1, <2>4 DEF ReadStream, Steady, Goto, InTask, TypeOK, StreamName
  <2>5. CASE Publish(w)
    <3>1. hand[w] \in Event /\ 0 \in Try
      BY <2>5, HandType DEF Publish, Try
    <3>2. \A r \in Try : tasks[e][r] > 0 => tasks'[e][r] > 0
      BY <2>5, <3>1, PostType DEF Publish, TypeOK
    <3> QED BY <2>1, <2>5, <3>2 DEF Publish, Steady, Goto, InTask, TypeOK
  <2>6. CASE Ack(w)
    BY <2>1, <2>6 DEF Ack, Return, Steady, Goto, InTask, TypeOK
  <2>7. CASE PublishReclaimed(w)
    <3> PICK f \in reclaimed[w] :
         Post(f, 0) /\ Goto(w, IF reclaimed[w] = {f} THEN "free" ELSE "reclaim")
      BY <2>7 DEF PublishReclaimed
    <3>1. f \in Event /\ 0 \in Try
      BY DEF TypeOK, Try
    <3>2. \A r \in Try : tasks[e][r] > 0 => tasks'[e][r] > 0
      BY <3>1, PostType DEF TypeOK
    <3> QED BY <2>1, <2>7, <3>2 DEF PublishReclaimed, Steady, Goto, InTask, TypeOK
  <2>8. CASE StartTask(w)
    <3> PICK f \in Event, r \in Try :
         /\ tasks[f][r] > 0
         /\ tasks' = [tasks EXCEPT ![f][r] = @ - 1]
         /\ hand' = [hand EXCEPT ![w] = f]
      BY <2>8 DEF StartTask
    <3>1. hand'[w] = f /\ pc'[w] \in InTask
      BY <2>8 DEF StartTask, Goto, InTask, TypeOK
    <3>2. CASE e = f  BY <3>1, <3>2
    <3>3. CASE e # f
      <4>1. tasks'[e] = tasks[e]
        BY <3>3 DEF TypeOK
      <4>2. \A v \in Worker : pc[v] \in InTask =>
              pc'[v] = pc[v] /\ hand'[v] = hand[v]
        BY <2>8 DEF StartTask, Goto, InTask, TypeOK
      <4> QED BY <2>8, <4>1, <4>2 DEF StartTask
    <3> QED BY <3>2, <3>3
  <2>9. CASE Acquire(w)
    BY <2>9 DEF Acquire, Goto, InTask, TypeOK
  <2>10. CASE Refuse(w)
    <3>1. hand[w] \in Event
      BY <2>10, HandType DEF Refuse, InTask
    <3>2. \A v \in Worker \ {w} : pc'[v] = pc[v] /\ hand'[v] = hand[v]
      BY <2>10 DEF Refuse, Return, Goto, TypeOK
    <3>3. CASE Post(hand[w], tries[w] + 1) /\ tries[w] < MaxRetries
      <4>1. tries[w] + 1 \in Try
        BY <3>3 DEF TypeOK, Try
      <4>2. /\ tasks'[hand[w]][tries[w] + 1] > 0
            /\ \A r \in Try : tasks[e][r] > 0 => tasks'[e][r] > 0
        BY <3>1, <3>3, <4>1, PostType DEF TypeOK
      <4> QED BY <2>10, <3>1, <3>2, <3>3, <4>1, <4>2 DEF Refuse
    <3>4. CASE dropped' = dropped \cup {hand[w]} /\ UNCHANGED tasks
      BY <2>10, <3>2, <3>4 DEF Refuse
    <3> QED BY <2>10, <3>3, <3>4 DEF Refuse
  <2>11. CASE Release(w)
    <3>1. \A v \in Worker \ {w} : pc'[v] = pc[v] /\ hand'[v] = hand[v]
      BY <2>11 DEF Release, Return, Goto, TypeOK
    <3> QED BY <2>11, <3>1 DEF Release
  <2>12. CASE Clamp(w)
    <3>1. \A v \in Worker \ {w} : pc'[v] = pc[v] /\ hand'[v] = hand[v]
      BY <2>12 DEF Clamp, Return, Goto, TypeOK
    <3>2. hand[w] \in ended
      BY <2>12 DEF Clamp, EventsKept
    <3> QED BY <2>12, <3>1, <3>2 DEF Clamp
  <2>13. CASE ReadHighRaises(w)
    BY <2>1, <2>13 DEF ReadHighRaises, Steady, Goto, InTask, TypeOK
  <2>14. CASE ReadStandardRaises(w)
    BY <2>1, <2>14 DEF ReadStandardRaises, Return, Steady, Goto, InTask, TypeOK
  <2>15. CASE DrainRaises(w)
    BY <2>1, <2>15 DEF DrainRaises, Return, Steady, Goto, InTask, TypeOK
  <2>16. CASE ReclaimRaises(w)
    BY <2>1, <2>16 DEF ReclaimRaises, Return, Steady, Goto, InTask, TypeOK
  <2>17. CASE AcquireFailsOpen(w)
    BY <2>17 DEF AcquireFailsOpen, Goto, InTask, TypeOK
  <2>18. CASE MachineDies(w)
    <3>1. \A v \in Worker \ {w} : pc'[v] = pc[v] /\ hand'[v] = hand[v]
      BY <2>18 DEF MachineDies, Die, Return, Goto, TypeOK
    <3>2. CASE pc[w] \in InTask
      <4>1. /\ hand[w] \in Event /\ tries[w] \in Try
            /\ Post(hand[w], tries[w])
        BY <2>18, <3>2, HandType DEF MachineDies, TypeOK
      <4>2. /\ tasks'[hand[w]][tries[w]] > 0
            /\ \A r \in Try : tasks[e][r] > 0 => tasks'[e][r] > 0
        BY <4>1, PostType DEF TypeOK
      <4> QED BY <2>18, <3>1, <4>1, <4>2 DEF MachineDies, Die
    <3>3. CASE pc[w] \notin InTask
      BY <2>18, <3>1, <3>3 DEF MachineDies, Die
    <3> QED BY <3>2, <3>3
  <2>19. CASE ProcessDies(w)
    <3>1. \A v \in Worker \ {w} : pc'[v] = pc[v] /\ hand'[v] = hand[v]
      BY <2>19 DEF ProcessDies, Die, Return, Goto, TypeOK
    <3> QED BY <2>19, <3>1 DEF ProcessDies, Die
  <2>20. CASE ReleaseFails(w)
    <3>1. \A v \in Worker \ {w} : pc'[v] = pc[v] /\ hand'[v] = hand[v]
      BY <2>20 DEF ReleaseFails, Return, Goto, TypeOK
    <3> QED BY <2>20, <3>1 DEF ReleaseFails
  <2> QED BY <1>3, <2>2, <2>3, <2>4, <2>5, <2>6, <2>7, <2>8, <2>9, <2>10, <2>11,
             <2>12, <2>13, <2>14, <2>15, <2>16, <2>17, <2>18, <2>19, <2>20
          DEF Working, Failing
<1> QED BY <1>0, <1>1, <1>2, <1>3 DEF Next

\* Only Publish leads to the ack of an entry, and only Release to the clamp.
LEMMA PlacesStep ==
  ASSUME TypeOK, [Next]_vars, NEW v \in Worker
  PROVE  /\ pc'[v] = "ack" =>
              Publish(v) \/ (pc[v] = "ack" /\ hand'[v] = hand[v])
         /\ pc'[v] = "clamp" =>
              \/ pc[v] = "clamp" /\ hand'[v] = hand[v]
              \/ hand'[v] \in ended' /\ slots < 1 /\ pc[v] = "dispatch"
         /\ ended \subseteq ended'
<1> DEFINE Goal == /\ pc'[v] = "ack" =>
                        Publish(v) \/ (pc[v] = "ack" /\ hand'[v] = hand[v])
                   /\ pc'[v] = "clamp" =>
                        \/ pc[v] = "clamp" /\ hand'[v] = hand[v]
                        \/ hand'[v] \in ended' /\ slots < 1 /\ pc[v] = "dispatch"
                   /\ ended \subseteq ended'
<1> USE DEF queue, local, history, Goto, Return
<1>0. CASE UNCHANGED vars  BY <1>0 DEF vars
<1>1. ASSUME NEW e \in Event, Producing(e) \/ VisibilityTimeout(e) PROVE Goal
  BY <1>1 DEF Producing, Reserve, Duplicate, Add, AddFails, VisibilityTimeout
<1>2. CASE SlotsExpire \/ \E k \in Key : KeyExpires(k)
  BY <1>2 DEF SlotsExpire, KeyExpires
<1>3. ASSUME NEW w \in Worker,
             StartDrain(w) \/ Reclaim(w) \/ Working(w) \/ Failing(w)
      PROVE  Goal
  <2>1. CASE StartDrain(w)  BY <2>1 DEF StartDrain, TypeOK
  <2>2. CASE Reclaim(w)  BY <2>2 DEF Reclaim, TypeOK
  <2>3. ASSUME NEW s \in StreamName, ReadStream(w, s) PROVE Goal
    BY <2>3 DEF ReadStream, TypeOK
  <2>4. CASE Publish(w)
    <3>1. CASE v = w  BY <2>4, <3>1 DEF Publish, TypeOK
    <3>2. CASE v # w  BY <2>4, <3>2 DEF Publish, TypeOK
    <3> QED BY <3>1, <3>2
  <2>5. CASE Ack(w)  BY <2>5 DEF Ack, TypeOK
  <2>6. CASE PublishReclaimed(w)  BY <2>6 DEF PublishReclaimed, TypeOK
  <2>7. CASE StartTask(w)
    <3>1. /\ pc' = [pc EXCEPT ![w] = "acquire"]
          /\ \E e \in Event : hand' = [hand EXCEPT ![w] = e]
          /\ ended' = ended
      BY <2>7 DEF StartTask
    <3> QED BY <3>1 DEF TypeOK
  <2>8. CASE Acquire(w)  BY <2>8 DEF Acquire, TypeOK
  <2>9. CASE Refuse(w)  BY <2>9 DEF Refuse, TypeOK
  <2>10. CASE Release(w)
    <3>1. ended \subseteq ended' /\ hand[w] \in ended'
      BY <2>10 DEF Release
    <3>2. CASE v = w
      <4>1. CASE slots - 1 < 0
        <5>1. hand' = hand /\ pc[w] = "dispatch" /\ slots < 1
              /\ pc' = [pc EXCEPT ![w] = "clamp"]
          BY <2>10, <4>1 DEF Release, TypeOK
        <5> QED BY <3>1, <3>2, <5>1 DEF TypeOK
      <4>2. CASE ~(slots - 1 < 0)
        <5>1. pc' = [pc EXCEPT ![w] = "free"]
          BY <2>10, <4>2 DEF Release
        <5> QED BY <3>1, <3>2, <5>1 DEF TypeOK
      <4> QED BY <4>1, <4>2
    <3>3. CASE v # w  BY <2>10, <3>1, <3>3 DEF Release, TypeOK
    <3> QED BY <3>2, <3>3
  <2>11. CASE Clamp(w)  BY <2>11 DEF Clamp, TypeOK
  <2>12. CASE ReadHighRaises(w)  BY <2>12 DEF ReadHighRaises, TypeOK
  <2>13. CASE ReadStandardRaises(w)  BY <2>13 DEF ReadStandardRaises, TypeOK
  <2>14. CASE DrainRaises(w)  BY <2>14 DEF DrainRaises, TypeOK
  <2>15. CASE ReclaimRaises(w)  BY <2>15 DEF ReclaimRaises, TypeOK
  <2>16. CASE AcquireFailsOpen(w)  BY <2>16 DEF AcquireFailsOpen, TypeOK
  <2>17. CASE MachineDies(w)  BY <2>17 DEF MachineDies, Die, TypeOK
  <2>18. CASE ProcessDies(w)  BY <2>18 DEF ProcessDies, Die, TypeOK
  <2>19. CASE ReleaseFails(w)  BY <2>19 DEF ReleaseFails, TypeOK
  <2> QED BY <1>3, <2>1, <2>2, <2>3, <2>4, <2>5, <2>6, <2>7, <2>8, <2>9, <2>10, <2>11,
             <2>12, <2>13, <2>14, <2>15, <2>16, <2>17, <2>18, <2>19
          DEF Working, Failing
<1> QED BY <1>0, <1>1, <1>2, <1>3 DEF Next

\* Add appends to its stream, a read moves the head to the pending entries,
\* and an ack removes what its worker delivered.
LEMMA EntriesStep ==
  ASSUME TypeOK, EventsKept, [Next]_vars, NEW e \in Event,
         enq'[e] = "added", ~Delivered(e)
  PROVE  Queued(e)' \/ e \in unacked'
<1>1. CASE \E f \in Event : Producing(f)
  <2> PICK f \in Event : Producing(f)
    BY <1>1
  <2>1. CASE UNCHANGED <<stream, unacked>> /\ enq[e] = "added"
    BY <2>1 DEF EventsKept, Queued
  <2>2. CASE Reserve(f) \/ Duplicate(f) \/ AddFails(f)
    <3>1. UNCHANGED <<stream, unacked>> /\ enq[e] = "added"
      BY <2>2 DEF Reserve, Duplicate, AddFails, TypeOK
    <3> QED BY <2>1, <3>1
  <2>3. CASE Add(f)
    <3> DEFINE s == StreamOf(f)
               a == Append(stream[s], f)
    <3>1. /\ s \in StreamName /\ stream[s] \in Seq(Event)
          /\ stream' = [stream EXCEPT ![s] = a]
          /\ unacked' = unacked /\ enq' = [enq EXCEPT ![f] = "added"]
      BY <2>3 DEF Add, StreamOf, StreamName, TypeOK
    <3>2. /\ DOMAIN stream[s] \subseteq DOMAIN a
          /\ \A i \in DOMAIN stream[s] : a[i] = stream[s][i]
          /\ \E i \in DOMAIN a : a[i] = f
      <4>1. Len(stream[s]) + 1 \in DOMAIN a /\ a[Len(stream[s]) + 1] = f
        BY <3>1
      <4> QED BY <3>1, <4>1
    <3> HIDE DEF s, a
    <3>3. stream'[s] = a /\ \A t \in StreamName \ {s} : stream'[t] = stream[t]
      BY <3>1 DEF TypeOK
    <3>4. CASE e = f  BY <3>1, <3>2, <3>3, <3>4 DEF Queued
    <3>5. CASE e # f
      <4>1. Queued(e) \/ e \in unacked
        BY <3>1, <3>5 DEF EventsKept, TypeOK
      <4> QED BY <3>1, <3>2, <3>3, <4>1 DEF Queued
    <3> QED BY <3>4, <3>5
  <2> QED BY <2>2, <2>3 DEF Producing
<1>2. CASE \E w \in Worker, s \in StreamName : ReadStream(w, s)
  <2> PICK w \in Worker, s \in StreamName : ReadStream(w, s)
    BY <1>2
  <2>1. /\ stream[s] \in Seq(Event) /\ stream[s] # <<>>
        /\ stream' = [stream EXCEPT ![s] = Tail(stream[s])]
        /\ unacked' = unacked \cup {Head(stream[s])} /\ enq' = enq
    BY DEF ReadStream, TypeOK
  <2>2. \A i \in DOMAIN stream[s] :
          \/ stream[s][i] = Head(stream[s])
          \/ /\ i - 1 \in DOMAIN Tail(stream[s])
             /\ Tail(stream[s])[i - 1] = stream[s][i]
    BY <2>1
  <2>3. /\ stream'[s] = Tail(stream[s])
        /\ \A t \in StreamName \ {s} : stream'[t] = stream[t]
    BY <2>1 DEF TypeOK
  <2>4. Queued(e) \/ e \in unacked
    BY <2>1 DEF EventsKept
  <2>5. CASE e \in unacked  BY <2>1, <2>5
  <2>6. ASSUME NEW t \in StreamName, NEW i \in DOMAIN stream[t], stream[t][i] = e
        PROVE  Queued(e)' \/ e \in unacked'
    <3>1. CASE t = s  BY <2>1, <2>2, <2>3, <2>6, <3>1 DEF Queued
    <3>2. CASE t # s  BY <2>3, <2>6, <3>2 DEF Queued
    <3> QED BY <3>1, <3>2
  <2> QED BY <2>4, <2>5, <2>6 DEF Queued
<1>3. CASE \E w \in Worker : Ack(w)
  <2> PICK w \in Worker : Ack(w)
    BY <1>3
  <2>1. /\ Delivered(hand[w]) /\ unacked' = unacked \ {hand[w]}
        /\ UNCHANGED <<enq, stream>>
    BY DEF Ack, XAck, EventsKept
  <2> QED BY <2>1 DEF EventsKept, Queued
<1>4. CASE /\ ~\E f \in Event : Producing(f)
           /\ ~\E w \in Worker, s \in StreamName : ReadStream(w, s)
           /\ ~\E w \in Worker : Ack(w)
  <2>1. UNCHANGED <<enq, stream, unacked>>
    BY <1>4 DEF Next, Working, Failing, vars, queue, VisibilityTimeout, StartDrain,
       Reclaim, Publish, PublishReclaimed, StartTask, Acquire, Refuse,
       Release, Clamp, ReadHighRaises, ReadStandardRaises, DrainRaises, ReclaimRaises,
       AcquireFailsOpen, ReleaseFails, MachineDies, ProcessDies, Die, SlotsExpire,
       KeyExpires
  <2> QED BY <2>1 DEF EventsKept, Queued
<1> QED BY <1>1, <1>2, <1>3, <1>4

LEMMA KeptStep == TypeOK /\ EventsKept /\ [Next]_vars => EventsKept'
<1> SUFFICES ASSUME TypeOK, EventsKept, [Next]_vars PROVE EventsKept'
  OBVIOUS
<1>1. TypeOK'
  BY NextType
<1>2. ASSUME NEW w \in Worker, pc'[w] = "ack" PROVE Delivered(hand[w])'
  <2>1. CASE Publish(w)
    <3>1. hand[w] \in Event /\ 0 \in Try /\ hand' = hand
      BY <2>1, HandType, PipelineAssumption DEF Publish, Try
    <3>2. tasks'[hand[w]][0] > 0
      BY <2>1, <3>1, PostType DEF Publish, TypeOK
    <3> QED BY <3>1, <3>2 DEF Delivered
  <2>2. CASE pc[w] = "ack" /\ hand'[w] = hand[w]
    <3>1. hand[w] \in Event /\ Delivered(hand[w])
      BY <2>2, HandType DEF EventsKept
    <3>2. \A e \in Event : Delivered(e) => Delivered(e)'
      BY DeliveredStays
    <3>3. \A e \in Event : hand'[w] = e /\ Delivered(e)' => Delivered(hand[w])'
      BY DEF Delivered
    <3> QED BY <2>2, <3>1, <3>2, <3>3
  <2> QED BY <1>2, <2>1, <2>2, PlacesStep
<1>3. ASSUME NEW w \in Worker, pc'[w] = "clamp" PROVE hand'[w] \in ended'
  BY <1>3, PlacesStep DEF EventsKept
<1>4. ASSUME NEW e \in Event, enq'[e] = "added"
      PROVE  Queued(e)' \/ e \in unacked' \/ Delivered(e)'
  BY <1>4, DeliveredStays, EntriesStep
<1> QED BY <1>2, <1>3, <1>4 DEF EventsKept

-----------------------------------------------------------------------------
(* The semaphore's counter *)

LEMMA HoldingFinite ==
  ASSUME NEW S
  PROVE  IsFiniteSet(Holding(S)) /\ Cardinality(Holding(S)) \in Nat
<1>1. Holding(S) \subseteq Worker
  BY DEF Holding
<1> QED BY <1>1, FS_Subset, FS_CardinalityType, PipelineAssumption

LEMMA OwnersAtLeastOne ==
  ASSUME NEW S, NEW w \in Worker, pc[w] \in S
  PROVE  Cardinality(Holding(S)) > 0
<1>1. w \in Holding(S)
  BY DEF Holding
<1> QED BY <1>1, HoldingFinite, FS_EmptySet

\* A worker that enters or leaves a set of places is counted once.
LEMMA Enters ==
  ASSUME TypeOK, NEW w \in Worker, NEW l, NEW S, Goto(w, l), pc[w] \notin S, l \in S
  PROVE  Cardinality(Holding(S))' = Cardinality(Holding(S)) + 1
<1>1. Holding(S)' = Holding(S) \cup {w} /\ w \notin Holding(S)
  BY DEF Holding, Goto, TypeOK
<1> QED BY <1>1, HoldingFinite, FS_AddElement

LEMMA Leaves ==
  ASSUME TypeOK, NEW w \in Worker, NEW l, NEW S, Goto(w, l), pc[w] \in S, l \notin S
  PROVE  Cardinality(Holding(S))' = Cardinality(Holding(S)) - 1
<1>1. Holding(S)' = Holding(S) \ {w} /\ w \in Holding(S)
  BY DEF Holding, Goto, TypeOK
<1> QED BY <1>1, HoldingFinite, FS_RemoveElement

LEMMA Passes ==
  ASSUME TypeOK, NEW w \in Worker, NEW l, NEW S, Goto(w, l), pc[w] \in S <=> l \in S
  PROVE  Cardinality(Holding(S))' = Cardinality(Holding(S))
<1>1. Holding(S)' = Holding(S)
  BY DEF Holding, Goto, TypeOK
<1> QED BY <1>1

\* The counter while every slot was counted.
Counted == SlotsAccounted /\ WithinLimit /\ NoClamp

\* A step that no owner of a slot makes changes nothing that is counted.
LEMMA UncountedStep ==
  ASSUME TypeOK, Counted, UNCHANGED <<slots, leaked, unsure>>,
         \/ UNCHANGED pc
         \/ \E w \in Worker, l \in Places :
              Goto(w, l) /\ pc[w] \notin OwnsSlot /\ l \notin OwnsSlot
  PROVE  SlotsAccounted' /\ WithinLimit'
<1>1. CASE UNCHANGED pc
  BY <1>1 DEF Counted, SlotsAccounted, WithinLimit, Holding
<1>2. ASSUME NEW w \in Worker, NEW l \in Places,
             Goto(w, l), pc[w] \notin OwnsSlot, l \notin OwnsSlot
      PROVE  SlotsAccounted' /\ WithinLimit'
  <2>1. /\ Cardinality(Holding(OwnsSlot))' = Cardinality(Holding(OwnsSlot))
        /\ Cardinality(Holding({"dispatch"}))' = Cardinality(Holding({"dispatch"}))
    BY <1>2, Passes DEF OwnsSlot
  <2> QED BY <2>1 DEF Counted, SlotsAccounted, WithinLimit
<1> QED BY <1>1, <1>2

\* A worker that gives its slot back, or dies with it.
LEMMA SlotGoes ==
  ASSUME TypeOK, Counted, NEW w \in Worker, NEW l \in Places, Goto(w, l),
         pc[w] \in OwnsSlot, l \notin OwnsSlot, UNCHANGED unsure,
         slots' - leaked' = slots - leaked - 1, slots' \in Int, leaked' \in Int
  PROVE  SlotsAccounted' /\ WithinLimit'
<1>1. Cardinality(Holding(OwnsSlot))' = Cardinality(Holding(OwnsSlot)) - 1
  BY Leaves
<1>2. Cardinality(Holding({"dispatch"}))' \in
        {Cardinality(Holding({"dispatch"})), Cardinality(Holding({"dispatch"})) - 1}
  BY Leaves, Passes DEF OwnsSlot
<1>3. /\ Cardinality(Holding(OwnsSlot)) \in Nat
      /\ Cardinality(Holding({"dispatch"})) \in Nat
  BY HoldingFinite
<1>4. SlotsAccounted'
  BY <1>1, <1>3 DEF Counted, SlotsAccounted, TypeOK
<1>5. WithinLimit'
  BY <1>2, <1>3, PipelineAssumption DEF Counted, WithinLimit
<1> QED BY <1>4, <1>5

\* The slot that INCR returned is at most the limit, or is given back.
LEMMA AcquireCounts ==
  ASSUME TypeOK, Counted, NEW w \in Worker, Acquire(w)
  PROVE  SlotsAccounted' /\ WithinLimit'
<1> DEFINE l == IF OverLimit THEN "giveback" ELSE "dispatch"
<1>1. /\ Cardinality(Holding(OwnsSlot)) \in Nat
      /\ Cardinality(Holding({"dispatch"})) \in Nat
      /\ Cardinality(Holding({"dispatch"})) <= Cardinality(Holding(OwnsSlot))
  <2>1. Holding({"dispatch"}) \subseteq Holding(OwnsSlot)
    BY DEF Holding, OwnsSlot
  <2> QED BY <2>1, HoldingFinite, FS_Subset
<1>2. pc[w] = "acquire" /\ slots' = slots + 1 /\ UNCHANGED <<leaked, unsure>>
  BY DEF Acquire, history
<1>3. Cardinality(Holding(OwnsSlot))' = Cardinality(Holding(OwnsSlot)) + 1
  <2>1. CASE Goto(w, "giveback")  BY <1>2, <2>1, Enters DEF OwnsSlot
  <2>2. CASE Goto(w, "dispatch")  BY <1>2, <2>2, Enters DEF OwnsSlot
  <2> QED BY <2>1, <2>2 DEF Acquire
<1>4. SlotsAccounted'
  BY <1>1, <1>2, <1>3 DEF Counted, SlotsAccounted, TypeOK
<1>5. CASE OverLimit
  <2>1. Goto(w, "giveback")
    BY <1>5 DEF Acquire
  <2>2. Cardinality(Holding({"dispatch"}))' = Cardinality(Holding({"dispatch"}))
    BY <1>2, <2>1, Passes
  <2> QED BY <1>2, <1>4, <2>2 DEF Counted, WithinLimit
<1>6. CASE ~OverLimit
  <2>1. Goto(w, "dispatch") /\ slots + 1 <= Limit
    BY <1>6, PipelineAssumption DEF Acquire, OverLimit, TypeOK
  <2>2. Cardinality(Holding({"dispatch"}))' = Cardinality(Holding({"dispatch"})) + 1
    BY <1>2, <2>1, Enters
  <2>3. ~unsure => Cardinality(Holding({"dispatch"})) + 1 <= Limit
    BY <1>1, <2>1, PipelineAssumption DEF Counted, SlotsAccounted, TypeOK
  <2> QED BY <1>2, <1>4, <2>2, <2>3 DEF WithinLimit
<1> QED BY <1>5, <1>6

LEMMA CountedStep == TypeOK /\ Counted /\ [Next]_vars => Counted'
<1> SUFFICES ASSUME TypeOK, Counted, [Next]_vars PROVE Counted'
  OBVIOUS
<1> DEFINE Goal == SlotsAccounted' /\ WithinLimit'
<1> USE PipelineAssumption DEF queue, local, history, Places, OwnsSlot
<1>0. ASSUME UNCHANGED vars PROVE Goal
  <2>1. UNCHANGED <<pc, slots, leaked, unsure>>
    BY <1>0 DEF vars
  <2> QED BY <2>1, UncountedStep
<1>1. ASSUME NEW e \in Event, Producing(e) \/ VisibilityTimeout(e) PROVE Goal
  <2>1. UNCHANGED <<pc, slots, leaked, unsure>>
    BY <1>1 DEF Producing, Reserve, Duplicate, Add, AddFails, VisibilityTimeout
  <2> QED BY <2>1, UncountedStep
<1>2. ASSUME SlotsExpire PROVE Goal
  <2>1. unsure'
    BY <1>2 DEF SlotsExpire
  <2> QED BY <2>1 DEF SlotsAccounted, WithinLimit
<1>6. ASSUME NEW k \in Key, KeyExpires(k) PROVE Goal
  BY <1>6, UncountedStep DEF KeyExpires
<1>3. ASSUME NEW w \in Worker,
             StartDrain(w) \/ Reclaim(w) \/ Working(w) \/ Failing(w)
      PROVE  Goal
  <2>1. CASE StartDrain(w)
    BY <2>1, UncountedStep DEF StartDrain, StreamName
  <2>2. CASE Reclaim(w)  BY <2>2, UncountedStep DEF Reclaim
  <2>3. ASSUME NEW s \in StreamName, ReadStream(w, s) PROVE Goal
    BY <2>3, UncountedStep DEF ReadStream, StreamName
  <2>4. CASE Publish(w)  BY <2>4, UncountedStep DEF Publish
  <2>5. CASE Ack(w)
    <3>1. (Goto(w, "high") \/ Goto(w, "free")) /\ pc[w] = "ack"
          /\ UNCHANGED <<slots, leaked, unsure>>
      BY <2>5 DEF Ack, Return
    <3> QED BY <3>1, UncountedStep DEF StreamName
  <2>6. CASE PublishReclaimed(w)
    <3>1. (Goto(w, "reclaim") \/ Goto(w, "free")) /\ pc[w] = "reclaim"
          /\ UNCHANGED <<slots, leaked, unsure>>
      BY <2>6 DEF PublishReclaimed
    <3> QED BY <3>1, UncountedStep
  <2>7. CASE StartTask(w)
    BY <2>7, UncountedStep DEF StartTask, InTask
  <2>8. CASE Acquire(w)  BY <2>8, AcquireCounts
  <2>9. CASE Refuse(w)
    <3>1. /\ Goto(w, "free") /\ pc[w] = "giveback" /\ slots' = slots - 1
          /\ UNCHANGED <<leaked, unsure>>
      BY <2>9 DEF Refuse, DropSlot, Return
    <3> QED BY <3>1, SlotGoes DEF TypeOK, InTask
  <2>10. CASE Release(w)
    <3>1. /\ Goto(w, "free") \/ Goto(w, "clamp")
          /\ pc[w] = "dispatch" /\ slots' = slots - 1 /\ UNCHANGED <<leaked, unsure>>
      BY <2>10 DEF Release, Return
    <3> QED BY <3>1, SlotGoes DEF TypeOK, InTask
  <2>11. CASE Clamp(w)
    BY <2>11 DEF Clamp, Counted, NoClamp, SlotsAccounted, WithinLimit
  <2>12. CASE ReadHighRaises(w)
    BY <2>12, UncountedStep DEF ReadHighRaises, StreamName
  <2>13. CASE ReadStandardRaises(w)
    BY <2>13, UncountedStep DEF ReadStandardRaises, Return
  <2>14. CASE DrainRaises(w)
    BY <2>14, UncountedStep DEF DrainRaises, Return
  <2>15. CASE ReclaimRaises(w)
    BY <2>15, UncountedStep DEF ReclaimRaises, Return
  <2>16. CASE AcquireFailsOpen(w)
    BY <2>16 DEF AcquireFailsOpen, SlotsAccounted, WithinLimit
  <2>17. CASE MachineDies(w) \/ ProcessDies(w)
    <3>1. Goto(w, "free") /\ UNCHANGED <<slots, unsure>>
      BY <2>17 DEF MachineDies, ProcessDies, Die, Return
    <3>2. CASE pc[w] \in OwnsSlot
      <4>1. leaked' = leaked + 1
        BY <2>17, <3>2 DEF MachineDies, ProcessDies, Die
      <4> QED BY <3>1, <3>2, <4>1, SlotGoes DEF TypeOK, InTask
    <3>3. CASE pc[w] \notin OwnsSlot
      <4>1. leaked' = leaked
        BY <2>17, <3>3 DEF MachineDies, ProcessDies, Die, TypeOK
      <4> QED BY <3>1, <3>3, <4>1, UncountedStep
    <3> QED BY <3>2, <3>3
  <2>18. CASE ReleaseFails(w)
    <3>1. Goto(w, "free") /\ UNCHANGED unsure
      BY <2>18 DEF ReleaseFails, Return
    <3>2. CASE pc[w] = "dispatch"
      <4>1. \/ slots' = slots /\ leaked' = leaked + 1
            \/ slots' = slots - 1 /\ leaked' = leaked
        BY <2>18, <3>2 DEF ReleaseFails
      <4>2. slots \in Int /\ leaked \in Int
        BY DEF TypeOK
      <4>3. slots' - leaked' = slots - leaked - 1 /\ slots' \in Int /\ leaked' \in Int
        BY <4>1, <4>2
      <4> QED BY <3>1, <3>2, <4>3, SlotGoes DEF InTask
    <3>3. CASE pc[w] = "clamp"
      BY <2>18, <3>3 DEF ReleaseFails, Counted, NoClamp, SlotsAccounted, WithinLimit
    <3> QED BY <2>18, <3>2, <3>3 DEF ReleaseFails
  <2> QED BY <1>3, <2>1, <2>2, <2>3, <2>4, <2>5, <2>6, <2>7, <2>8, <2>9, <2>10, <2>11,
             <2>12, <2>13, <2>14, <2>15, <2>16, <2>17, <2>18
          DEF Working, Failing
<1> HIDE DEF Goal
<1>4. Goal
  BY <1>0, <1>1, <1>2, <1>3, <1>6 DEF Next
\* An owner of a slot is counted, so its release leaves the counter at zero
\* or more.
<1>5. ASSUME ~unsure', NEW v \in Worker, pc'[v] = "clamp" PROVE FALSE
  <2>1. ~unsure
    BY <1>5 DEF Next, vars, Producing, Reserve, Duplicate, Add, AddFails,
       VisibilityTimeout, StartDrain, Reclaim, Working, Failing, ReadStream, Publish,
       Ack, PublishReclaimed, StartTask, Acquire, Refuse, Release, Clamp,
       ReadHighRaises, ReadStandardRaises, DrainRaises, ReclaimRaises,
       AcquireFailsOpen, ReleaseFails, MachineDies, ProcessDies, Die, SlotsExpire,
       KeyExpires
  <2>2. pc[v] = "dispatch" /\ slots < 1
    BY <1>5, <2>1, PlacesStep DEF Counted, NoClamp
  <2>3. Cardinality(Holding(OwnsSlot)) > 0
    BY <2>2, OwnersAtLeastOne
  <2>4. slots = Cardinality(Holding(OwnsSlot)) + leaked
    BY <2>1 DEF Counted, SlotsAccounted
  <2> QED BY <2>2, <2>3, <2>4, HoldingFinite DEF TypeOK
<1> QED BY <1>4, <1>5 DEF Goal, Counted, NoClamp

-----------------------------------------------------------------------------
(* The theorems *)

PipelineInvariant == TypeOK /\ EventsKept /\ KeysOwned /\ Counted

LEMMA InitInvariant == Init => PipelineInvariant
<1> SUFFICES ASSUME Init PROVE PipelineInvariant
  OBVIOUS
<1>1. EventsKept /\ KeysOwned /\ NoClamp
  BY DEF Init, EventsKept, KeysOwned, Owners, NoClamp
<1>2. Holding(OwnsSlot) = {} /\ Holding({"dispatch"}) = {}
  BY DEF Init, Holding, OwnsSlot
<1>3. /\ Cardinality(Holding(OwnsSlot)) = 0 /\ Cardinality(Holding({"dispatch"})) = 0
      /\ slots = 0 /\ leaked = 0
  BY <1>2, FS_EmptySet DEF Init
<1>4. SlotsAccounted /\ WithinLimit
  BY <1>3, PipelineAssumption DEF SlotsAccounted, WithinLimit
<1> QED BY <1>1, <1>4, InitType DEF PipelineInvariant, Counted

\* The inductive invariant: types, where an added event can be, who owns a
\* key, what the counter counts.
THEOREM PipelineInvariantHolds == Spec => []PipelineInvariant
<1>1. PipelineInvariant /\ [Next]_vars => PipelineInvariant'
  BY NextType, KeptStep, KeysOwnedStep, CountedStep DEF PipelineInvariant
<1> QED BY InitInvariant, <1>1, PTL DEF Spec

\* An event that entered a stream is pending, in a task, or came to an end.
THEOREM PipelineNothingVanishes == Spec => []NothingVanishes
<1>1. PipelineInvariant => NothingVanishes
  BY DEF PipelineInvariant, EventsKept, Delivered, NothingVanishes, Kept, Tasked
<1> QED BY PipelineInvariantHolds, <1>1, PTL

\* Two events with one idempotency key enter the streams only if the key of one
\* expired after it was set.
THEOREM PipelineOneEventPerKey == Spec => []OneEventPerKey
<1>1. PipelineInvariant => OneEventPerKey
  BY DEF PipelineInvariant, KeysOwned, Owners, OneEventPerKey
<1> QED BY PipelineInvariantHolds, <1>1, PTL

\* What is dropped as a duplicate is a duplicate of an event that is on its way, or
\* kept, or whose own enqueue failed.
THEOREM PipelineDuplicateOfKept == Spec => []DuplicateOfKept
<1>1. ASSUME PipelineInvariant, NEW d \in Event, enq[d] = "duplicate"
      PROVE  \E f \in Event : /\ KeyOf[f] = KeyOf[d] /\ f # d
                              /\ \/ enq[f] \in {"reserved", "lost"}
                                 \/ enq[f] = "added" /\ Kept(f)
  <2>1. PICK f \in Event : KeyOf[f] = KeyOf[d] /\ enq[f] \in Owners
    BY <1>1 DEF PipelineInvariant, KeysOwned
  <2>2. f # d
    BY <1>1, <2>1 DEF Owners
  <2>3. enq[f] = "added" => Kept(f)
    BY <1>1 DEF PipelineInvariant, EventsKept, Delivered, Kept, Tasked
  <2> QED BY <2>1, <2>2, <2>3 DEF Owners
<1>2. PipelineInvariant => DuplicateOfKept
  BY <1>1 DEF DuplicateOfKept
<1> QED BY PipelineInvariantHolds, <1>2, PTL

\* The counter counts the owners of a slot and those that died with one.
THEOREM PipelineSlotsAccounted == Spec => []SlotsAccounted
<1>1. PipelineInvariant => SlotsAccounted
  BY DEF PipelineInvariant, Counted
<1> QED BY PipelineInvariantHolds, <1>1, PTL

\* A workspace never runs more plans at once than its tier allows.
THEOREM PipelineWithinLimit == Spec => []WithinLimit
<1>1. PipelineInvariant => WithinLimit
  BY DEF PipelineInvariant, Counted
<1> QED BY PipelineInvariantHolds, <1>1, PTL

-----------------------------------------------------------------------------
(* One task per entry *)

Drains(w, e) == hand[w] = e /\ pc[w] \in {"publish", "ack"}

\* An entry is in its stream once; nothing has happened to one that waits there.
InStreamOnce ==
  /\ \A s \in StreamName : \A i, j \in DOMAIN stream[s] :
       /\ stream[s][i] = stream[s][j] => i = j
       /\ StreamOf(stream[s][i]) = s /\ enq[stream[s][i]] = "added"
  /\ \A e \in Event : enq[e] # "added" \/ Queued(e) =>
       /\ published[e] = 0 /\ e \notin unacked \cup disturbed
       /\ \A w \in Worker : ~Drains(w, e)

\* One drain has an entry between its claim and its ack, and until a drain
\* stopped there no reclaim takes the entry.
InOneDrain ==
  /\ \A e \in Event : \A v, w \in Worker : Drains(v, e) /\ Drains(w, e) => v = w
  /\ \A e \in Event \ disturbed :
       /\ e \notin idle /\ published[e] <= 1
       /\ e \in unacked => \E w \in Worker : Drains(w, e)
       /\ \A w \in Worker : /\ e \notin reclaimed[w]
                            /\ Drains(w, e) /\ pc[w] = "publish" => published[e] = 0

OneTask == InStreamOnce /\ InOneDrain

\* A step that neither claims, publishes nor acks keeps it.
LEMMA EntriesApart ==
  ASSUME OneTask, UNCHANGED <<enq, stream, unacked, idle, published, disturbed>>,
         \A w \in Worker : reclaimed'[w] \subseteq reclaimed[w],
         \A w \in Worker, e \in Event : /\ Drains(w, e)' <=> Drains(w, e)
                                        /\ Drains(w, e)' /\ pc'[w] = "publish"
                                             => pc[w] = "publish"
  PROVE  OneTask'
<1>1. \A e \in Event : Queued(e)' <=> Queued(e)
  BY DEF Queued
<1>2. InStreamOnce'
  BY <1>1 DEF OneTask, InStreamOnce
<1>3. InOneDrain'
  BY DEF OneTask, InOneDrain
<1> QED BY <1>2, <1>3 DEF OneTask

\* A worker that was no drain between claim and ack, and becomes none.
LEMMA ElsewhereApart ==
  ASSUME TypeOK, OneTask, NEW w \in Worker,
         UNCHANGED <<enq, stream, unacked, idle, published, disturbed>>,
         NEW l \in Places \ {"publish", "ack"}, Goto(w, l), pc[w] \notin {"publish", "ack"},
         \A v \in Worker : reclaimed'[v] \subseteq reclaimed[v],
         \A v \in Worker \ {w} : hand'[v] = hand[v]
  PROVE  OneTask'
<1>1. pc'[w] = l /\ \A v \in Worker \ {w} : pc'[v] = pc[v]
  BY DEF Goto, TypeOK
<1>2. \A v \in Worker, e \in Event : /\ Drains(v, e)' <=> Drains(v, e)
                                     /\ Drains(v, e)' => pc'[v] = pc[v]
  BY <1>1 DEF Drains
<1> QED BY <1>2, EntriesApart

\* An entry that is added is in its stream and nowhere else.
LEMMA AddApart ==
  ASSUME TypeOK, OneTask, NEW f \in Event, Add(f)
  PROVE  OneTask'
<1> DEFINE s == StreamOf(f)
           a == Append(stream[s], f)
           n == Len(stream[s]) + 1
<1>1. /\ s \in StreamName /\ stream[s] \in Seq(Event) /\ enq[f] = "reserved"
      /\ stream' = [stream EXCEPT ![s] = a] /\ enq' = [enq EXCEPT ![f] = "added"]
      /\ UNCHANGED <<unacked, idle, published, disturbed, reclaimed, hand, pc>>
  BY DEF Add, StreamOf, StreamName, local, history, TypeOK
<1>2. /\ DOMAIN a = DOMAIN stream[s] \cup {n} /\ n \notin DOMAIN stream[s] /\ a[n] = f
      /\ \A i \in DOMAIN stream[s] : a[i] = stream[s][i]
  BY <1>1
<1>3. stream'[s] = a /\ \A t \in StreamName \ {s} : stream'[t] = stream[t]
  BY <1>1 DEF TypeOK
<1>4. enq'[f] = "added" /\ \A e \in Event \ {f} : enq'[e] = enq[e]
  BY <1>1 DEF TypeOK
<1>5. \A t \in StreamName : \A i \in DOMAIN stream[t] : stream[t][i] \in Event \ {f}
  BY <1>1 DEF OneTask, InStreamOnce, TypeOK
<1> HIDE DEF a, n
<1>6. \A t \in StreamName : \A i, j \in DOMAIN stream'[t] :
        /\ stream'[t][i] = stream'[t][j] => i = j
        /\ StreamOf(stream'[t][i]) = t /\ enq'[stream'[t][i]] = "added"
  <2> TAKE t \in StreamName
  <2> TAKE i, j \in DOMAIN stream'[t]
  <2>1. CASE t = s
    <3>1. i \in DOMAIN stream[s] \cup {n} /\ j \in DOMAIN stream[s] \cup {n}
      BY <1>2, <1>3, <2>1
    <3>2. CASE i = n
      BY <1>2, <1>3, <1>4, <1>5, <2>1, <3>1, <3>2
    <3>3. CASE i # n
      BY <1>2, <1>3, <1>4, <1>5, <2>1, <3>1, <3>3 DEF OneTask, InStreamOnce
    <3> QED BY <3>2, <3>3
  <2>2. CASE t # s
    BY <1>3, <1>4, <1>5, <2>2 DEF OneTask, InStreamOnce
  <2> QED BY <2>1, <2>2
<1>7. \A e \in Event : enq'[e] # "added" \/ Queued(e)' => enq[e] # "added" \/ Queued(e)
  <2> SUFFICES ASSUME NEW e \in Event, enq'[e] # "added" \/ Queued(e)', e # f
               PROVE  enq[e] # "added" \/ Queued(e)
    BY <1>1
  <2>1. CASE enq'[e] # "added"  BY <1>4, <2>1
  <2>2. ASSUME NEW t \in StreamName, NEW i \in DOMAIN stream'[t], stream'[t][i] = e
        PROVE  Queued(e)
    <3>1. i \in DOMAIN stream[t] /\ stream[t][i] = e
      BY <1>2, <1>3, <2>2
    <3> QED BY <3>1 DEF Queued
  <2> QED BY <2>1, <2>2 DEF Queued
<1>8. InStreamOnce'
  BY <1>1, <1>6, <1>7 DEF OneTask, InStreamOnce, Drains
<1>9. InOneDrain'
  BY <1>1 DEF OneTask, InOneDrain, Drains
<1> QED BY <1>8, <1>9 DEF OneTask

\* A claimed entry leaves its stream for one drain.
LEMMA ReadApart ==
  ASSUME TypeOK, OneTask, NEW w \in Worker, NEW s \in StreamName, ReadStream(w, s)
  PROVE  OneTask'
<1> DEFINE q == Tail(stream[s])
<1>0. PICK e \in Event : e = Head(stream[s])
  BY DEF ReadStream, TypeOK
<1>1. /\ pc[w] = s /\ stream[s] \in Seq(Event) /\ stream[s] # <<>>
      /\ stream' = [stream EXCEPT ![s] = q] /\ unacked' = unacked \cup {e}
      /\ hand' = [hand EXCEPT ![w] = e] /\ pc' = [pc EXCEPT ![w] = "publish"]
      /\ UNCHANGED <<enq, idle, published, disturbed, reclaimed>>
  BY <1>0 DEF ReadStream, Goto, history, TypeOK
<1>2. /\ e = stream[s][1] /\ 1 \in DOMAIN stream[s] /\ e \in Event
      /\ \A i \in DOMAIN q : i + 1 \in DOMAIN stream[s] /\ q[i] = stream[s][i + 1] /\ i + 1 # 1
  BY <1>0, <1>1
<1>3. stream'[s] = q /\ \A t \in StreamName \ {s} : stream'[t] = stream[t]
  BY <1>1 DEF TypeOK
<1>4. hand'[w] = e /\ pc'[w] = "publish" /\ pc[w] \notin {"publish", "ack"}
      /\ \A v \in Worker \ {w} : hand'[v] = hand[v] /\ pc'[v] = pc[v]
  BY <1>1 DEF TypeOK, StreamName
<1>5. Queued(e) /\ StreamOf(e) = s /\ enq[e] = "added"
  BY <1>2 DEF Queued, OneTask, InStreamOnce
<1>6. /\ published[e] = 0 /\ e \notin unacked \cup disturbed
      /\ \A v \in Worker : ~Drains(v, e)
  BY <1>2, <1>5 DEF OneTask, InStreamOnce
<1>7. DOMAIN q \subseteq Nat
  BY <1>1
<1> HIDE DEF q
<1>8. \A t \in StreamName : \A i \in DOMAIN stream'[t] :
        /\ stream'[t][i] # e
        /\ \E k \in DOMAIN stream[t] : stream'[t][i] = stream[t][k]
  <2> TAKE t \in StreamName
  <2> TAKE i \in DOMAIN stream'[t]
  <2>1. CASE t = s
    BY <1>2, <1>3, <2>1 DEF OneTask, InStreamOnce
  <2>2. CASE t # s
    BY <1>3, <1>5, <2>2 DEF OneTask, InStreamOnce
  <2> QED BY <2>1, <2>2
<1>9. \A t \in StreamName : \A i, j \in DOMAIN stream'[t] :
        stream'[t][i] = stream'[t][j] => i = j
  <2> TAKE t \in StreamName
  <2> TAKE i, j \in DOMAIN stream'[t]
  <2>1. CASE t = s
    <3>1. stream'[t][i] = stream'[t][j] => i + 1 = j + 1
      BY <1>2, <1>3, <2>1 DEF OneTask, InStreamOnce
    <3>2. i \in Nat /\ j \in Nat
      BY <1>3, <1>7, <2>1
    <3> QED BY <3>1, <3>2
  <2>2. CASE t # s
    BY <1>3, <2>2 DEF OneTask, InStreamOnce
  <2> QED BY <2>1, <2>2
<1>10. \A f \in Event : enq'[f] # "added" \/ Queued(f)'
                          => f # e /\ (enq[f] # "added" \/ Queued(f))
  BY <1>1, <1>5, <1>8 DEF Queued
<1>11. \A f \in Event : f # e => \A v \in Worker : Drains(v, f)' => Drains(v, f)
  BY <1>4 DEF Drains
<1>12. \A v \in Worker : v # w => ~Drains(v, e)'
  BY <1>4, <1>6 DEF Drains
<1>13. InStreamOnce'
  <2>1. \A t \in StreamName : \A i, j \in DOMAIN stream'[t] :
          /\ stream'[t][i] = stream'[t][j] => i = j
          /\ StreamOf(stream'[t][i]) = t /\ enq'[stream'[t][i]] = "added"
    BY <1>1, <1>8, <1>9 DEF OneTask, InStreamOnce
  <2>2. \A f \in Event : enq'[f] # "added" \/ Queued(f)' =>
          /\ published'[f] = 0 /\ f \notin unacked' \cup disturbed'
          /\ \A v \in Worker : ~Drains(v, f)'
    BY <1>1, <1>10, <1>11 DEF OneTask, InStreamOnce
  <2> QED BY <2>1, <2>2 DEF InStreamOnce
<1>14. \A f \in Event : \A u, v \in Worker : Drains(u, f)' /\ Drains(v, f)' => u = v
  BY <1>11, <1>12 DEF OneTask, InOneDrain
<1>15. ASSUME NEW f \in Event \ disturbed'
       PROVE  /\ f \notin idle' /\ published'[f] <= 1
              /\ f \in unacked' => \E v \in Worker : Drains(v, f)'
              /\ \A v \in Worker : /\ f \notin reclaimed'[v]
                                   /\ Drains(v, f)' /\ pc'[v] = "publish"
                                        => published'[f] = 0
  <2>1. /\ f \notin disturbed /\ f \notin idle' /\ published'[f] <= 1
        /\ \A v \in Worker : f \notin reclaimed'[v]
    BY <1>1, <1>15 DEF OneTask, InOneDrain
  <2>2. CASE f = e
    BY <1>1, <1>4, <1>6, <2>1, <2>2 DEF Drains
  <2>3. CASE f # e
    <3>1. f \in unacked' => \E v \in Worker : Drains(v, f)
      BY <1>1, <2>1, <2>3 DEF OneTask, InOneDrain
    <3>2. \A v \in Worker : Drains(v, f) => Drains(v, f)'
      BY <1>4 DEF Drains
    <3>3. \A v \in Worker : Drains(v, f)' /\ pc'[v] = "publish" => published'[f] = 0
      BY <1>1, <1>4, <1>11, <2>1, <2>3 DEF OneTask, InOneDrain, Drains
    <3> QED BY <2>1, <3>1, <3>2, <3>3
  <2> QED BY <2>2, <2>3
<1>16. InOneDrain'
  BY <1>14, <1>15 DEF InOneDrain
<1> QED BY <1>13, <1>16 DEF OneTask

\* The publishing drain is the only one that has the entry.
LEMMA PublishApart ==
  ASSUME TypeOK, OneTask, NEW w \in Worker, Publish(w)
  PROVE  OneTask'
<1> DEFINE e == hand[w]
<1>1. /\ e \in Event /\ pc[w] = "publish" /\ pc' = [pc EXCEPT ![w] = "ack"]
      /\ published' = [published EXCEPT ![e] = @ + 1]
      /\ UNCHANGED <<enq, stream, unacked, idle, disturbed, reclaimed, hand>>
  BY HandType DEF Publish, Goto, queue
<1>2. /\ published'[e] = published[e] + 1
      /\ \A f \in Event \ {e} : published'[f] = published[f]
  BY <1>1 DEF TypeOK
<1>3. /\ pc'[w] = "ack" /\ \A v \in Worker \ {w} : pc'[v] = pc[v]
      /\ \A v \in Worker, f \in Event : Drains(v, f)' <=> Drains(v, f)
  BY <1>1 DEF TypeOK, Drains
<1>4. Drains(w, e)
  BY <1>1 DEF Drains
<1>5. \A v \in Worker : Drains(v, e) => v = w
  BY <1>1, <1>4 DEF OneTask, InOneDrain
<1> HIDE DEF e
<1>6. \A f \in Event : Queued(f)' <=> Queued(f)
  BY <1>1 DEF Queued
<1>7. ~(enq[e] # "added" \/ Queued(e))
  BY <1>1, <1>4 DEF OneTask, InStreamOnce
<1>8. InStreamOnce'
  BY <1>1, <1>2, <1>3, <1>6, <1>7 DEF OneTask, InStreamOnce
<1>9. e \notin disturbed => published'[e] = 1
  BY <1>1, <1>2, <1>4 DEF OneTask, InOneDrain
<1>10. InOneDrain'
  BY <1>1, <1>2, <1>3, <1>5, <1>9 DEF OneTask, InOneDrain
<1> QED BY <1>8, <1>10 DEF OneTask

\* An entry is acked by the drain that has it.
LEMMA AckApart ==
  ASSUME TypeOK, OneTask, NEW w \in Worker, Ack(w)
  PROVE  OneTask'
<1> DEFINE e == hand[w]
<1>1. /\ e \in Event /\ pc[w] = "ack"
      /\ unacked' = unacked \ {e} /\ idle' = idle \ {e}
      /\ UNCHANGED <<enq, stream, published, disturbed>>
  BY HandType DEF Ack, XAck, history
<1>2. /\ pc'[w] \in {"free", "high"} /\ \A v \in Worker \ {w} : pc'[v] = pc[v]
      /\ \A v \in Worker \ {w} : hand'[v] = hand[v]
      /\ \A v \in Worker : reclaimed'[v] \subseteq reclaimed[v]
  BY DEF Ack, Return, Goto, TypeOK
<1>3. \A v \in Worker, f \in Event : Drains(v, f)' <=> Drains(v, f) /\ v # w
  BY <1>2 DEF Drains
<1>4. \A f \in Event : Queued(f)' <=> Queued(f)
  BY <1>1 DEF Queued
<1>5. InStreamOnce'
  BY <1>1, <1>3, <1>4 DEF OneTask, InStreamOnce
<1>6. \A f \in Event : f # e => ~Drains(w, f)
  BY DEF Drains
<1> HIDE DEF e
<1>7. \A f \in Event : f \in unacked' /\ f \notin disturbed => \E v \in Worker : Drains(v, f)'
  BY <1>1, <1>3, <1>6 DEF OneTask, InOneDrain
<1>8. \A v \in Worker, f \in Event : Drains(v, f)' => pc'[v] = pc[v]
  BY <1>2, <1>3
<1>9. InOneDrain'
  BY <1>1, <1>2, <1>3, <1>7, <1>8 DEF OneTask, InOneDrain
<1> QED BY <1>5, <1>9 DEF OneTask

\* A worker that stops leaves what it drained disturbed.
LEMMA StopApart ==
  ASSUME TypeOK, OneTask, NEW w \in Worker, Return(w),
         UNCHANGED <<enq, stream, unacked, idle, published>>,
         disturbed' = IF pc[w] \in {"publish", "ack"}
                      THEN disturbed \cup {hand[w]} ELSE disturbed
  PROVE  OneTask'
<1>1. /\ pc'[w] = "free" /\ \A v \in Worker \ {w} : pc'[v] = pc[v]
      /\ \A v \in Worker \ {w} : hand'[v] = hand[v]
      /\ \A v \in Worker : reclaimed'[v] \subseteq reclaimed[v]
  BY DEF Return, Goto, TypeOK
<1>2. \A v \in Worker, f \in Event : Drains(v, f)' <=> Drains(v, f) /\ v # w
  BY <1>1 DEF Drains
<1>3. /\ disturbed \subseteq disturbed'
      /\ \A f \in Event : Drains(w, f) => f \in disturbed'
      /\ \A f \in Event : f \in disturbed' => f \in disturbed \/ Drains(w, f)
  BY DEF Drains
<1>4. \A f \in Event : Queued(f)' <=> Queued(f)
  BY DEF Queued
<1>5. InStreamOnce'
  BY <1>2, <1>3, <1>4 DEF OneTask, InStreamOnce
<1>6. \A f \in Event : f \in unacked' /\ f \notin disturbed'
                         => \E v \in Worker : Drains(v, f)'
  BY <1>2, <1>3 DEF OneTask, InOneDrain
<1>7. \A v \in Worker, f \in Event : Drains(v, f)' => pc'[v] = pc[v]
  BY <1>1, <1>2
<1>8. InOneDrain'
  BY <1>1, <1>2, <1>3, <1>6, <1>7 DEF OneTask, InOneDrain
<1> QED BY <1>5, <1>8 DEF OneTask

\* What times out and is reclaimed is disturbed already.
LEMMA ReclaimApart ==
  ASSUME TypeOK, OneTask,
         \/ \E e \in Event : VisibilityTimeout(e)
         \/ \E w \in Worker : Reclaim(w) \/ PublishReclaimed(w)
  PROVE  OneTask'
<1>1. UNCHANGED <<enq, stream, unacked, disturbed, hand>>
  BY DEF VisibilityTimeout, Reclaim, PublishReclaimed, queue, local, history
<1>2. \A v \in Worker, f \in Event : /\ Drains(v, f)' <=> Drains(v, f)
                                     /\ Drains(v, f) => pc'[v] = pc[v]
  BY DEF VisibilityTimeout, Reclaim, PublishReclaimed, local, Goto, Drains, TypeOK
<1>3. \A f \in Event : Queued(f)' <=> Queued(f)
  BY <1>1 DEF Queued
<1>4. \A f \in Event \ disturbed :
        f \notin idle' /\ published'[f] = published[f] /\ \A v \in Worker : f \notin reclaimed'[v]
  <2>1. ASSUME NEW e \in Event, VisibilityTimeout(e)
        PROVE  /\ UNCHANGED <<published, reclaimed>> /\ idle' = idle \cup {e}
               /\ e \in disturbed
    <3>1. /\ e \in unacked /\ UNCHANGED <<published, reclaimed>> /\ idle' = idle \cup {e}
          /\ \A v \in Worker : hand[v] = e => pc[v] \in InTask
      BY <2>1 DEF VisibilityTimeout, local, history
    <3>2. \A v \in Worker : ~Drains(v, e)
      BY <3>1 DEF Drains, InTask
    <3> QED BY <3>1, <3>2 DEF OneTask, InOneDrain
  <2>2. ASSUME NEW w \in Worker, Reclaim(w)
        PROVE  /\ UNCHANGED published /\ idle' = {}
               /\ \A v \in Worker : reclaimed'[v] \subseteq reclaimed[v] \cup idle
    BY <2>2 DEF Reclaim, history, TypeOK
  <2>3. ASSUME NEW w \in Worker, PublishReclaimed(w)
        PROVE  /\ idle' = idle
               /\ \A v \in Worker : reclaimed'[v] \subseteq reclaimed[v]
               /\ \A f \in Event : f \notin reclaimed[w] => published'[f] = published[f]
    BY <2>3 DEF PublishReclaimed, queue, TypeOK
  <2> QED BY <2>1, <2>2, <2>3 DEF OneTask, InOneDrain
<1>5. \A f \in Event : enq[f] # "added" \/ Queued(f) => f \notin disturbed
  BY DEF OneTask, InStreamOnce
<1>6. InStreamOnce'
  BY <1>1, <1>2, <1>3, <1>4, <1>5 DEF OneTask, InStreamOnce
<1>7. InOneDrain'
  BY <1>1, <1>2, <1>4 DEF OneTask, InOneDrain
<1> QED BY <1>6, <1>7 DEF OneTask

LEMMA OneTaskStep == TypeOK /\ OneTask /\ [Next]_vars => OneTask'
<1> SUFFICES ASSUME TypeOK, OneTask, [Next]_vars PROVE OneTask'
  OBVIOUS
<1> USE DEF queue, local, history, Places, InTask, StreamName
<1>0. CASE UNCHANGED vars \/ SlotsExpire \/ \E k \in Key : KeyExpires(k)
  <2>1. UNCHANGED <<enq, stream, unacked, idle, published, disturbed, pc, hand, reclaimed>>
    BY <1>0 DEF vars, SlotsExpire, KeyExpires
  <2> QED BY <2>1, EntriesApart DEF Drains
<1>1. ASSUME NEW e \in Event, Reserve(e) \/ Duplicate(e) \/ AddFails(e) PROVE OneTask'
  <2>1. /\ UNCHANGED <<stream, unacked, idle, published, disturbed, pc, hand, reclaimed>>
        /\ \A f \in Event : enq'[f] = "added" <=> enq[f] = "added"
    <3>1. /\ UNCHANGED <<stream, unacked, idle, published, disturbed, pc, hand, reclaimed>>
          /\ enq[e] # "added"
          /\ \E q \in {"reserved", "duplicate", "lost"} : enq' = [enq EXCEPT ![e] = q]
      BY <1>1 DEF Reserve, ReserveKey, Duplicate, AddFails
    <3> QED BY <3>1 DEF TypeOK
  <2>2. \A f \in Event : Queued(f)' <=> Queued(f)
    BY <2>1 DEF Queued
  <2>3. \A t \in StreamName : \A i \in DOMAIN stream[t] : stream[t][i] \in Event
    BY DEF TypeOK
  <2>4. InStreamOnce'
    BY <2>1, <2>2, <2>3 DEF OneTask, InStreamOnce, Drains
  <2>5. InOneDrain'
    BY <2>1 DEF OneTask, InOneDrain, Drains
  <2> QED BY <2>4, <2>5 DEF OneTask
<1>2. ASSUME NEW e \in Event, Add(e) PROVE OneTask'
  BY <1>2, AddApart
<1>3. ASSUME NEW e \in Event, VisibilityTimeout(e) PROVE OneTask'
  BY <1>3, ReclaimApart
<1>4. ASSUME NEW w \in Worker,
             StartDrain(w) \/ Reclaim(w) \/ Working(w) \/ Failing(w)
      PROVE  OneTask'
  <2>1. CASE StartDrain(w)  BY <2>1, ElsewhereApart DEF StartDrain
  <2>2. CASE Reclaim(w) \/ PublishReclaimed(w)  BY <2>2, ReclaimApart
  <2>3. ASSUME NEW s \in StreamName, ReadStream(w, s) PROVE OneTask'
    BY <2>3, ReadApart
  <2>4. CASE Publish(w)  BY <2>4, PublishApart
  <2>5. CASE Ack(w)  BY <2>5, AckApart
  <2>6. CASE StartTask(w)
    BY <2>6, ElsewhereApart DEF StartTask, TypeOK
  <2>7. CASE Acquire(w)  BY <2>7, ElsewhereApart DEF Acquire
  <2>8. CASE Refuse(w)  BY <2>8, StopApart DEF Refuse
  <2>9. CASE Release(w)
    <3>1. CASE slots - 1 < 0  BY <2>9, <3>1, ElsewhereApart DEF Release
    <3>2. CASE ~(slots - 1 < 0)  BY <2>9, <3>2, StopApart DEF Release
    <3> QED BY <3>1, <3>2
  <2>10. CASE Clamp(w)  BY <2>10, StopApart DEF Clamp
  <2>11. CASE ReadHighRaises(w)  BY <2>11, ElsewhereApart DEF ReadHighRaises
  <2>12. CASE ReadStandardRaises(w)  BY <2>12, StopApart DEF ReadStandardRaises
  <2>13. CASE DrainRaises(w)  BY <2>13, StopApart DEF DrainRaises
  <2>14. CASE ReclaimRaises(w)  BY <2>14, StopApart DEF ReclaimRaises
  <2>15. CASE AcquireFailsOpen(w)  BY <2>15, ElsewhereApart DEF AcquireFailsOpen
  <2>16. CASE ReleaseFails(w)  BY <2>16, StopApart DEF ReleaseFails
  <2>17. CASE MachineDies(w) \/ ProcessDies(w)
    BY <2>17, StopApart DEF MachineDies, ProcessDies, Die
  <2> QED BY <1>4, <2>1, <2>2, <2>3, <2>4, <2>5, <2>6, <2>7, <2>8, <2>9, <2>10, <2>11,
             <2>12, <2>13, <2>14, <2>15, <2>16, <2>17
          DEF Working, Failing
<1> QED BY <1>0, <1>1, <1>2, <1>3, <1>4 DEF Next, Producing

\* An entry is published again only if a drain stopped between claim and ack.
THEOREM PipelineOneTaskPerEntry == Spec => []OneTaskPerEntry
<1>1. Init => OneTask
  BY DEF Init, OneTask, InStreamOnce, InOneDrain, Drains, Queued
<1>2. TypeOK /\ OneTask /\ [Next]_vars => OneTask'
  BY OneTaskStep
<1>3. TypeOK /\ OneTask => OneTaskPerEntry
  BY DEF OneTask, InOneDrain, OneTaskPerEntry, TypeOK
<1> QED BY <1>1, <1>2, <1>3, PipelineTypeCorrect, PTL DEF Spec
=============================================================================
