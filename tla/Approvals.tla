------------------------------ MODULE Approvals ------------------------------
(***************************************************************************)
(* The approval of one AP item: the request that puts a card in Slack      *)
(* (_send_for_approval of services/invoice_workflow.py, with its outbox    *)
(* entry in the item's metadata), the sweep that recovers orphaned entries *)
(* (services/agent_background.py) and the signatures of dual approval      *)
(* (services/dual_approval.py).  All three read the metadata, and write it *)
(* back whole later.  A request works under the box lock, a signature does *)
(* not; a state is validated on one connection and written on another.     *)
(***************************************************************************)
EXTENDS APStates, Naturals, FiniteSets

CONSTANTS
  Request,      \* calls of _send_for_approval in progress
  Sweep,        \* sweeps of reap_orphan_approval_dispatches
  Signing,      \* calls of the dual approval API in progress
  Person,
  Requester,    \* the person who filed the bill
  NoOne,
  MaxRequests,  \* bound: requests made
  MaxSignings,  \* bound: signature calls made
  MaxTroubles,  \* bound: crashes, failed statements and lost answers
  MaxEvents     \* bound: all of these together

ASSUME ApprovalsAssumption ==
  /\ Requester \in Person /\ NoOne \notin Person \cup Request \cup Sweep
  /\ Request \cap Sweep = {} /\ Signing \cap (Request \cup Sweep) = {}
  /\ MaxRequests \in Nat /\ MaxSignings \in Nat
  /\ MaxTroubles \in Nat /\ MaxEvents \in Nat

VARIABLES
  state,     \* ap_items.state
  meta,      \* the metadata: the first signature, and the outbox entry's status,
             \* with the card of an orphan, which is read again
  thread,    \* ap_items.slack_message_ts: the card on record, 0 for none
  cards,     \* cards delivered
  lock,      \* who holds the box lock
  pc,        \* where a call is
  read,      \* the metadata it has read
  entry,     \* the status a request is about to give its outbox entry
  card,      \* the card it has delivered and not recorded, or recovers; or 0
  op,        \* what a signing does, and who signs
  requests, signings, troubles,
  signed,    \* history: who has signed since signatures were last revoked
  cut,       \* history: the signature calls that were under way then
  torn,      \* history: a request wrote back another first signature since then
  before     \* history: who was under way when the approval was given, the sweep
             \* too if an orphan was left or a request could leave one

item   == <<state, meta, thread, cards>>
local  == <<pc, read, entry, card, op>>
counts == <<requests, signings, troubles>>
ghost  == <<signed, cut, torn, before>>
vars   == <<item, lock, local, counts, ghost>>

Call    == Request \cup Sweep \cup Signing
Status  == {"none", "pending", "failed", "orphan", "dispatched"}
NoMeta  == [first |-> NoOne, status |-> "none", card |-> 0]
NoOp    == [what |-> "none", who |-> NoOne, to |-> "none"]

Init ==
  /\ state = "validated" /\ meta = NoMeta /\ thread = 0 /\ cards = 0
  /\ lock = NoOne
  /\ pc = [c \in Call |-> "idle"]
  /\ read = [c \in Call |-> NoMeta]
  /\ entry = [c \in Call |-> "none"]
  /\ card = [c \in Call |-> 0]
  /\ op = [c \in Call |-> NoOp]
  /\ requests = 0 /\ signings = 0 /\ troubles = 0
  /\ signed = {} /\ cut = {} /\ torn = FALSE /\ before = {}

Goto(c, l) == pc' = [pc EXCEPT ![c] = l]
Bounded    == requests + signings + troubles < MaxEvents
Trouble    == Bounded /\ troubles < MaxTroubles /\ troubles' = troubles + 1

\* The call returns: its locals go, and the lock if it holds it.
Return(c) ==
  /\ Goto(c, "idle")
  /\ read' = [read EXCEPT ![c] = NoMeta] /\ entry' = [entry EXCEPT ![c] = "none"]
  /\ card' = [card EXCEPT ![c] = 0] /\ op' = [op EXCEPT ![c] = NoOp]
  /\ lock' = IF lock = c THEN NoOne ELSE lock

\* pg_try_advisory_lock: taken, held by another, or no connection for it.
TryLock(c, l) ==
  \/ /\ lock = NoOne /\ lock' = c
     /\ Goto(c, l) /\ UNCHANGED <<read, entry, card, op, troubles>>
  \/ /\ lock # NoOne
     /\ Return(c) /\ UNCHANGED troubles
  \/ /\ Trouble /\ Goto(c, l)
     /\ UNCHANGED <<lock, read, entry, card, op>>

Busy(calls) == {d \in calls : pc[d] # "idle"}

\* The item is sent back, from an approval too.
SendBack(t) == state' = t /\ before' = {}

-----------------------------------------------------------------------------
(* _send_for_approval *)

\* Mutant: asked for again at any time, as by a redelivered mail.
AskAnytime(r) ==
  /\ pc[r] = "idle" /\ requests < MaxRequests /\ Bounded
  /\ requests' = requests + 1 /\ Goto(r, "lock")
  /\ UNCHANGED <<item, lock, read, entry, card, op, signings, troubles, ghost>>

\* The intake pipeline, or a handler whose precheck found the item validated.
Ask(r) ==
  /\ pc[r] = "idle" /\ requests < MaxRequests /\ Bounded
  /\ state = "validated"
  /\ requests' = requests + 1 /\ Goto(r, "lock")
  /\ UNCHANGED <<item, lock, read, entry, card, op, signings, troubles, ghost>>

Lock(r) ==
  /\ pc[r] = "lock" /\ TryLock(r, "look")
  /\ UNCHANGED <<item, requests, signings, ghost>>

\* Mutant: the card on record is not looked for.
LookAtOutboxOnly(r) ==
  /\ pc[r] = "look"
  /\ IF meta.status = "dispatched"
     THEN Return(r)
     ELSE /\ Goto(r, "move") /\ entry' = [entry EXCEPT ![r] = "pending"]
          /\ UNCHANGED <<lock, read, card, op>>
  /\ UNCHANGED <<item, counts, ghost>>

\* A dispatched entry ends the request, whatever state the item is in; a card
\* on record is adopted, and no other one sent.
Look(r) ==
  /\ pc[r] = "look"
  /\ IF meta.status = "dispatched"
     THEN Return(r)
     ELSE /\ Goto(r, "move")
          /\ entry' = [entry EXCEPT ![r] = IF thread = 0 THEN "pending" ELSE "note"]
          /\ UNCHANGED <<lock, read, card, op>>
  /\ UNCHANGED <<item, counts, ghost>>

\* _transition_invoice_state to needs_approval: nothing to do, refused, or
\* validated.  Once a card is out, a refusal makes its entry an orphan.
Move(r) ==
  /\ pc[r] = "move"
  /\ \/ /\ state = "needs_approval"
        /\ Goto(r, "outbox") /\ UNCHANGED <<lock, read, entry, card, op>>
     \/ /\ ValidTransition(state, "needs_approval")
        /\ Goto(r, "moving") /\ UNCHANGED <<lock, read, entry, card, op>>
     \/ /\ state # "needs_approval" /\ ~ValidTransition(state, "needs_approval")
        /\ IF entry[r] = "dispatched"
           THEN /\ Goto(r, "outbox") /\ entry' = [entry EXCEPT ![r] = "orphan"]
                /\ UNCHANGED <<lock, read, card, op>>
           ELSE Return(r)
  /\ UNCHANGED <<item, counts, ghost>>

Moving(r) ==
  /\ pc[r] = "moving"
  /\ SendBack("needs_approval") /\ Goto(r, "outbox")
  /\ UNCHANGED <<meta, thread, cards, lock, read, entry, card, op, counts,
                 signed, cut, torn>>

\* _update_ap_item_metadata reads the metadata ...
Outbox(r) ==
  /\ pc[r] = "outbox"
  /\ read' = [read EXCEPT ![r] = meta] /\ Goto(r, "write")
  /\ UNCHANGED <<item, lock, entry, card, op, counts, ghost>>

\* ... and writes all of it back with its own key changed; if that fails, the
\* request goes on without.  After the entry "dispatched" comes one more write,
\* of what the card said.
Write(r) ==
  /\ pc[r] = "write"
  /\ \/ /\ meta' = IF entry[r] = "note" THEN read[r]
                   ELSE [read[r] EXCEPT !.status = entry[r],
                                        !.card = IF entry[r] = "orphan" THEN card[r] ELSE 0]
        /\ torn' = (torn \/ meta.first # read[r].first)
        /\ UNCHANGED troubles
     \/ Trouble /\ UNCHANGED <<meta, torn>>
  /\ IF entry[r] \in {"pending", "dispatched"}
     THEN /\ Goto(r, IF entry[r] = "pending" THEN "send" ELSE "outbox")
          /\ entry' = [entry EXCEPT ![r] = IF @ = "pending" THEN "none" ELSE "note"]
          /\ read' = [read EXCEPT ![r] = NoMeta] /\ card' = [card EXCEPT ![r] = 0]
          /\ UNCHANGED <<lock, op>>
     ELSE Return(r)
  /\ UNCHANGED <<state, thread, cards, requests, signings, signed, cut, before>>

\* The Slack call delivers a card or fails; its answer may be lost.
Send(r) ==
  /\ pc[r] = "send"
  /\ \/ /\ cards' = cards + 1
        /\ card' = [card EXCEPT ![r] = cards + 1] /\ Goto(r, "save")
        /\ UNCHANGED <<entry, troubles>>
     \/ /\ Trouble /\ cards' \in {cards, cards + 1}
        /\ entry' = [entry EXCEPT ![r] = "failed"] /\ Goto(r, "outbox")
        /\ UNCHANGED card
  /\ UNCHANGED <<state, meta, thread, lock, read, op, requests, signings, ghost>>

\* Mutant: the card is not put on record.
SaveForgotten(r) ==
  /\ pc[r] = "save"
  /\ Goto(r, "move") /\ entry' = [entry EXCEPT ![r] = "dispatched"]
  /\ UNCHANGED <<item, lock, read, card, op, counts, ghost>>

\* save_slack_thread; if it or the move after it fails, the entry is an orphan.
Save(r) ==
  /\ pc[r] = "save"
  /\ \/ /\ thread' = card[r] /\ Goto(r, "move")
        /\ entry' = [entry EXCEPT ![r] = "dispatched"] /\ UNCHANGED troubles
     \/ /\ Trouble /\ Goto(r, "outbox")
        /\ entry' = [entry EXCEPT ![r] = "orphan"] /\ thread' \in {thread, card[r]}
  /\ UNCHANGED <<state, meta, cards, lock, read, card, op, requests, signings, ghost>>

RequestStep(r) == \/ Lock(r) \/ Look(r) \/ Move(r) \/ Moving(r)
                  \/ Outbox(r) \/ Write(r) \/ Send(r) \/ Save(r)

-----------------------------------------------------------------------------
(* reap_orphan_approval_dispatches *)

List(s) ==
  /\ pc[s] = "idle" /\ meta.status = "orphan"
  /\ card' = [card EXCEPT ![s] = meta.card] /\ Goto(s, "lock")
  /\ UNCHANGED <<item, lock, read, entry, op, counts, ghost>>

SweepLock(s) ==
  /\ pc[s] = "lock" /\ TryLock(s, "save")
  /\ UNCHANGED <<item, requests, signings, ghost>>

\* The entry is not read again under the lock: its card is saved, and a move
\* that the graph refuses is skipped.
SaveAgain(s) ==
  /\ pc[s] = "save"
  /\ thread' = card[s]
  /\ Goto(s, IF ValidTransition(state, "needs_approval") THEN "moving" ELSE "merge")
  /\ UNCHANGED <<state, meta, cards, lock, read, entry, card, op, counts, ghost>>

MovingAgain(s) ==
  /\ pc[s] = "moving"
  /\ SendBack("needs_approval") /\ Goto(s, "merge")
  /\ UNCHANGED <<meta, thread, cards, lock, read, entry, card, op, counts,
                 signed, cut, torn>>

\* update_ap_item_metadata_merge: under a row lock, only its own key.
Merge(s) ==
  /\ pc[s] = "merge"
  /\ meta' = [meta EXCEPT !.status = "dispatched", !.card = 0]
  /\ Return(s)
  /\ UNCHANGED <<state, thread, cards, counts, ghost>>

SweepStep(s) == List(s) \/ SweepLock(s) \/ SaveAgain(s) \/ MovingAgain(s) \/ Merge(s)

-----------------------------------------------------------------------------
(* first_approve, second_approve, revoke_first_signature *)

\* The item is read and the signature checked against what was read.
Begin(c, what, who, to) ==
  /\ pc[c] = "idle" /\ signings < MaxSignings /\ Bounded
  /\ signings' = signings + 1
  /\ op' = [op EXCEPT ![c] = [what |-> what, who |-> who, to |-> to]]
  /\ read' = [read EXCEPT ![c] = meta] /\ Goto(c, "validate")
  /\ cut' = cut \ {c} /\ before' = before \ {c}
  /\ UNCHANGED <<item, lock, entry, card, requests, troubles, signed, torn>>

\* Below the organization's threshold, which may change, one signature is enough.
First(c, who) ==
  /\ who # Requester
  /\ \E to \in {"approved", "needs_second_approval"} : Begin(c, "first", who, to)

\* Mutant: the second signature may be the first one's.
SecondByAnyone(c, who) ==
  /\ state = "needs_second_approval" /\ who # Requester
  /\ Begin(c, "second", who, "approved")

Second(c, who) ==
  /\ state = "needs_second_approval" /\ who \notin {meta.first, Requester}
  /\ Begin(c, "second", who, "approved")

\* Anyone may revoke the first signature.
Revoke(c) ==
  /\ state = "needs_second_approval"
  /\ Begin(c, "revoke", NoOne, "needs_approval")

Validate(c) ==
  /\ pc[c] = "validate"
  /\ IF ValidTransition(state, op[c].to)
     THEN Goto(c, "write") /\ UNCHANGED <<lock, read, entry, card, op>>
     ELSE Return(c)
  /\ UNCHANGED <<item, counts, ghost>>

Signed(c) ==
  CASE op[c].what = "first"  -> [read[c] EXCEPT !.first = op[c].who]
    [] op[c].what = "second" -> read[c]
    [] OTHER                 -> [read[c] EXCEPT !.first = NoOne]

\* The state and the metadata that was read, with the signature put in or
\* taken out, in one UPDATE.
Sign(c) ==
  /\ pc[c] = "write"
  /\ meta' = Signed(c)
  /\ IF op[c].what = "revoke"
     THEN /\ SendBack(op[c].to)
          /\ signed' = {} /\ cut' = Busy(Signing) /\ torn' = FALSE
     ELSE /\ state' = op[c].to /\ signed' = signed \cup {op[c].who}
          /\ before' = IF op[c].to # "approved" THEN {}
                       ELSE Busy(Call \ {c}) \cup
                            IF meta'.status = "orphan" \/ Busy(Request) # {}
                            THEN Sweep ELSE {}
          /\ UNCHANGED <<cut, torn>>
  /\ Return(c)
  /\ UNCHANGED <<thread, cards, counts>>

-----------------------------------------------------------------------------

\* A request or a sweep dies; the database frees its lock.
Crash(c) ==
  /\ pc[c] # "idle" /\ Trouble
  /\ Return(c)
  /\ UNCHANGED <<item, requests, signings, ghost>>

\* Other code: the item needs information, or has it.  An approved item's way
\* to the ERP is InvoicePosting's.
Elsewhere ==
  /\ \E t \in VALID_TRANSITIONS[state] \cap
              {"needs_info", "validated"} :
       SendBack(t)
  /\ UNCHANGED <<meta, thread, cards, lock, local, counts, signed, cut, torn>>

Next ==
  \/ Elsewhere
  \/ \E r \in Request : Ask(r) \/ RequestStep(r) \/ Crash(r)
  \/ \E s \in Sweep : SweepStep(s) \/ Crash(s)
  \/ \E c \in Signing : \/ Validate(c) \/ Sign(c) \/ Revoke(c)
                        \/ \E p \in Person : First(c, p) \/ Second(c, p)

Spec == Init /\ [][Next]_vars

-----------------------------------------------------------------------------
(* Properties *)

\* Every variable stays in its set.
Meta == [first : Person \cup {NoOne}, status : Status, card : Nat]
Ops  == [what : {"none", "first", "second", "revoke"}, who : Person \cup {NoOne},
         to : {"none", "approved", "needs_second_approval", "needs_approval"}]
TypeOK ==
  /\ state \in APState /\ meta \in Meta /\ thread \in Nat /\ cards \in Nat
  /\ lock \in Request \cup Sweep \cup {NoOne}
  /\ pc \in [Call -> {"idle", "lock", "look", "move", "moving", "outbox", "write",
                      "send", "save", "merge", "validate"}]
  /\ read \in [Call -> Meta]
  /\ entry \in [Call -> Status \cup {"note"}]
  /\ card \in [Call -> Nat]
  /\ op \in [Call -> Ops]
  /\ requests \in Nat /\ signings \in Nat /\ troubles \in Nat
  /\ signed \in SUBSET Person /\ cut \in SUBSET Signing
  /\ torn \in BOOLEAN /\ before \in SUBSET Call

\* Call c approves the item with a second signature.
SignsSecond(c) == op[c].what = "second" /\ pc[c] = "write" /\ pc'[c] = "idle"

\* Two people have signed since signatures were last revoked, and neither of
\* them filed the bill.
TwoSigned == \E p, q \in signed \ {Requester} : p # q

\* What second_approve says of its signer, who must differ from the first one and
\* from the bill's creator; a signature that was revoked is none.
TwoPeopleStand == [][\A c \in Signing : SignsSecond(c) => TwoSigned']_vars

\* That fails in two ways only: the first signature was revoked while the second
\* was under way, or a request wrote back metadata it had read before the first.
TwoPeopleSign ==
  [][\A c \in Signing : SignsSecond(c) /\ c \notin cut /\ ~torn => TwoSigned']_vars

\* An approval is taken back only by a call that was under way when it was given,
\* or by the sweep of an orphan that was there or that such a request left: not
\* by a new request, nor by a signature or revocation that comes after it.
TakenBackByEarlier ==
  [][state = "approved" /\ state' \in {"needs_approval", "needs_second_approval"}
       => \E c \in before : pc'[c] # pc[c]]_vars

\* Approvers see one card: each further one is owed to a crash, a failed
\* statement, an answer that was lost or a lock that could not be asked for.
CardBudget == cards <= 1 + troubles

\* An entry that says "dispatched" has a delivered card on record: no stale
\* write, crash or late recovery makes it say so without one.
EntryHasCard == meta.status = "dispatched" => thread \in 1..cards
=============================================================================
