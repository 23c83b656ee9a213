-------------------------- MODULE Approvals_proofs --------------------------
(***************************************************************************)
(* Theorems about Approvals for any number of requests, sweeps, signature  *)
(* calls and people: who stands behind a second signature, who can take an *)
(* approval back, and that an entry that says dispatched has its card.     *)
(***************************************************************************)
EXTENDS Approvals, FiniteSetTheorems, TLAPS

Signer == Person \ {Requester}

\* What a signature call was begun with.
OpFits ==
  \A c \in Signing : pc[c] # "idle" =>
    \/ /\ op[c].what = "first" /\ op[c].who \in Signer
       /\ op[c].to \in {"approved", "needs_second_approval"}
    \/ op[c].what = "second" /\ op[c].who \in Signer /\ op[c].to = "approved"
    \/ op[c].what = "revoke" /\ op[c].to = "needs_approval"

\* An item that waits for its second signature has a first one that stands, and
\* who signs second signs over another's, unless it was revoked since.
Signatures ==
  ~torn =>
    /\ state = "needs_second_approval" => meta.first \in signed \ {Requester}
    /\ \A c \in Signing : pc[c] # "idle" /\ op[c].what = "second" /\ c \notin cut =>
         read[c].first \in signed \ {Requester} /\ op[c].who # read[c].first

\* A status, or a copy of one, that promises a card has it.
Kept(m) == /\ m.status = "dispatched" => thread \in 1..cards
           /\ m.status = "orphan" => m.card \in 1..cards
CardsKept ==
  /\ Kept(meta) /\ \A c \in Call : Kept(read[c])
  /\ \A r \in Request :
       /\ entry[r] = "dispatched" => thread \in 1..cards
       /\ entry[r] \in {"dispatched", "orphan"} \/ pc[r] = "save" => card[r] \in 1..cards
  /\ \A s \in Sweep :
       /\ pc[s] \in {"lock", "save"} => card[s] \in 1..cards
       /\ pc[s] \in {"moving", "merge"} => thread \in 1..cards

\* Request r is on its way to Slack, or may yet find that no card is on record.
Sends(r) == \/ pc[r] = "send"
            \/ entry[r] = "pending" /\ pc[r] \in {"move", "moving", "outbox", "write"}
Owes(r)  == Sends(r) \/ (thread = 0 /\ pc[r] = "look")
Owing    == {r \in Request : Owes(r)}

\* No card is on record, and whoever has the lock is not about to change that:
\* one more request may begin.
Spare    == thread = 0 /\ \A r \in Request : lock = r => ~Owes(r) /\ pc[r] # "save"

\* The cards that are out and those that are owed: one, and one per trouble.
InBudget ==
  /\ IsFiniteSet(Owing)
  /\ cards + Cardinality(Owing) + (IF Spare THEN 1 ELSE 0) <= 1 + troubles

\* Whoever came after the approval holds no move that could take it back.
Latecomers ==
  state = "approved" =>
    /\ \A r \in Request \ before : pc[r] = "idle"
    /\ \A s \in Sweep \ before :
         /\ pc[s] = "idle" /\ meta.status # "orphan"
         /\ \A r \in Request : pc[r] = "idle"
    /\ \A c \in Signing \ before :
         /\ pc[c] \in {"idle", "validate"}
         /\ pc[c] = "validate" => op[c].to \in {"approved", "needs_second_approval"}

-----------------------------------------------------------------------------
(* Types *)

LEMMA MetaFacts ==
  ASSUME NEW m \in Meta
  PROVE  /\ \A p \in Person \cup {NoOne} :
              [m EXCEPT !.first = p] \in Meta
         /\ \A t \in Status, n \in Nat : [m EXCEPT !.status = t, !.card = n] \in Meta
BY DEF Meta

LEMMA NoFacts == NoMeta \in Meta /\ NoMeta.status = "none" /\ NoOp \in Ops
BY DEF NoMeta, Meta, Status, NoOp, Ops

LEMMA ApprovalsInitType == Init => TypeOK /\ OpFits
<1> SUFFICES ASSUME Init PROVE TypeOK /\ OpFits
  OBVIOUS
<1>1. OpFits
  BY DEF Init, OpFits, Call
<1>2. /\ state \in APState /\ lock \in Request \cup Sweep \cup {NoOne}
      /\ thread \in Nat /\ cards \in Nat
      /\ requests \in Nat /\ signings \in Nat /\ troubles \in Nat
      /\ signed \in SUBSET Person /\ cut \in SUBSET Signing /\ torn \in BOOLEAN
      /\ before \in SUBSET Call
  BY DEF Init, APState
<1>3. /\ meta \in Meta /\ read \in [Call -> Meta] /\ op \in [Call -> Ops]
      /\ entry \in [Call -> Status \cup {"note"}] /\ card \in [Call -> Nat]
  BY NoFacts DEF Init, Status
<1>4. pc \in [Call -> {"idle", "lock", "look", "move", "moving", "outbox", "write",
                      "send", "save", "merge", "validate"}]
  BY DEF Init
<1> QED BY <1>1, <1>2, <1>3, <1>4 DEF TypeOK

\* What a call that returns or dies leaves is typed.
Local == /\ lock \in Request \cup Sweep \cup {NoOne}
         /\ pc \in [Call -> {"idle", "lock", "look", "move", "moving", "outbox", "write",
                             "send", "save", "merge", "validate"}]
         /\ read \in [Call -> Meta] /\ entry \in [Call -> Status \cup {"note"}]
         /\ card \in [Call -> Nat] /\ op \in [Call -> Ops]

\* The three ways a signature call begins.
Begins(c) == Revoke(c) \/ \E p \in Person : First(c, p) \/ Second(c, p)

LEMMA ReturnFacts ==
  ASSUME Local, OpFits, NEW c \in Call, Return(c)
  PROVE  Local' /\ OpFits'
<1>1. lock' \in Request \cup Sweep \cup {NoOne}
  BY DEF Return, Local
<1>2. /\ read' \in [Call -> Meta] /\ op' \in [Call -> Ops]
      /\ card' \in [Call -> Nat]
  BY NoFacts DEF Return, Local
<1>3. /\ entry' \in [Call -> Status \cup {"note"}]
      /\ pc' \in [Call -> {"idle", "lock", "look", "move", "moving", "outbox", "write",
                            "send", "save", "merge", "validate"}]
  BY DEF Return, Goto, Local, Status
<1>4. \A d \in Call : /\ d = c => pc'[d] = "idle"
                      /\ d # c => pc'[d] = pc[d] /\ op'[d] = op[d]
  BY DEF Return, Goto, Local
<1>5. OpFits'
  BY <1>4 DEF OpFits, Call
<1> QED BY <1>1, <1>2, <1>3, <1>5 DEF Local

LEMMA TryLockFacts ==
  ASSUME Local, OpFits, troubles \in Nat, NEW c \in Request \cup Sweep,
         NEW l \in {"look", "save"}, TryLock(c, l)
  PROVE  Local' /\ OpFits' /\ troubles' \in Nat
<1>1. CASE Return(c)
  BY <1>1, ReturnFacts DEF TryLock, Trouble, Call
<1>2. CASE Goto(c, l) /\ UNCHANGED <<read, entry, card, op>> /\ lock' \in {lock, c}
  <2>1. OpFits'
    BY <1>2, ApprovalsAssumption DEF Goto, OpFits, Call, Local
  <2> QED BY <1>2, <2>1 DEF Goto, Local, TryLock, Trouble, Call
<1> QED BY <1>1, <1>2 DEF TryLock

LEMMA BeginFacts ==
  ASSUME Local, OpFits, meta \in Meta, signings \in Nat, NEW c \in Signing,
         NEW k \in {"first", "second", "revoke"}, NEW p \in Person \cup {NoOne},
         NEW t \in {"approved", "needs_second_approval", "needs_approval"},
         Begin(c, k, p, t),
         \/ k = "first" /\ p \in Signer /\ t \in {"approved", "needs_second_approval"}
         \/ k = "second" /\ p \in Signer /\ t = "approved"
         \/ k = "revoke" /\ t = "needs_approval"
  PROVE  Local' /\ OpFits' /\ signings' \in Nat
<1>1. [what |-> k, who |-> p, to |-> t] \in Ops
  BY DEF Ops
<1>2. op' \in [Call -> Ops] /\ op'[c] = [what |-> k, who |-> p, to |-> t]
  BY <1>1 DEF Begin, Local, Call
<1>3. \A d \in Signing : d # c => pc'[d] = pc[d] /\ op'[d] = op[d]
  BY DEF Begin, Goto, Local, Call
<1>4. OpFits'
  BY <1>2, <1>3 DEF OpFits
<1>5. read' \in [Call -> Meta]
  BY DEF Begin, Local
<1> QED BY <1>2, <1>4, <1>5 DEF Begin, Goto, Local

LEMMA ApprovalsNextType == TypeOK /\ OpFits /\ [Next]_vars => TypeOK' /\ OpFits'
<1> SUFFICES ASSUME TypeOK, OpFits, [Next]_vars PROVE TypeOK' /\ OpFits'
  OBVIOUS
<1> USE ApprovalsAssumption, NoFacts
    DEF TypeOK, Call, Trouble, item, local, counts, ghost, SendBack, Busy
<1>l. Local
  BY DEF Local
<1>r. ASSUME NEW c \in Call, Return(c) PROVE Local' /\ OpFits'
  BY <1>r, <1>l, ReturnFacts
<1>g. ASSUME NEW c \in Call, NEW l, Goto(c, l), UNCHANGED op, c \notin Signing \/ pc[c] # "idle"
      PROVE  OpFits'
  BY <1>g DEF OpFits, Goto
<1>s. {"needs_approval", "approved", "needs_second_approval", "needs_info", "validated"}
        \subseteq APState
  BY DEF APState
<1>1. CASE UNCHANGED vars
  BY <1>1 DEF vars, OpFits
<1>2. CASE Elsewhere
  BY <1>2, <1>s DEF Elsewhere, OpFits
<1>3. ASSUME NEW r \in Request, Ask(r) PROVE TypeOK' /\ OpFits'
  <2>1. OpFits'
    BY <1>3, <1>g DEF Ask
  <2> QED BY <1>3, <2>1 DEF Ask, Goto
<1>4. ASSUME NEW r \in Request, RequestStep(r) PROVE TypeOK' /\ OpFits'
  <2>1. CASE Lock(r)
    BY <2>1, <1>l, TryLockFacts DEF Lock, Local
  <2>2. CASE Look(r)    BY <2>2, <1>r, <1>g DEF Look, Goto, Local, Status
  <2>3. CASE Move(r)    BY <2>3, <1>r, <1>g DEF Move, Goto, Local, Status
  <2>4. CASE Moving(r)  BY <2>4, <1>s, <1>g DEF Moving, Goto
  <2>5. CASE Outbox(r)  BY <2>5, <1>g DEF Outbox, Goto
  <2>6. CASE Write(r)
    <3>0. /\ read[r] \in Meta
          /\ entry[r] # "note" =>
               [read[r] EXCEPT !.status = entry[r],
                  !.card = IF entry[r] = "orphan" THEN card[r] ELSE 0] \in Meta
      BY MetaFacts
    <3>1. meta' \in Meta
      BY <2>6, <3>0 DEF Write
    <3>2. Local'
      BY <2>6, <1>r, NoFacts DEF Write, Local, Goto, Status
    <3>3. OpFits'
      BY <2>6, <1>r, <1>g DEF Write
    <3>4. torn' \in BOOLEAN
      BY <2>6 DEF Write
    <3> QED BY <2>6, <3>1, <3>2, <3>3, <3>4 DEF Write, Local
  <2>7. CASE Send(r)
    <3>1. OpFits'
      BY <2>7, <1>g DEF Send
    <3>2. /\ cards' \in Nat /\ card' \in [Call -> Nat] /\ troubles' \in Nat
          /\ entry' \in [Call -> Status \cup {"note"}]
      BY <2>7 DEF Send, Status
    <3> QED BY <2>7, <3>1, <3>2 DEF Send, Goto
  <2>8. CASE Save(r)
    <3>1. OpFits'
      BY <2>8, <1>g DEF Save
    <3> QED BY <2>8, <3>1 DEF Save, Goto, Status
  <2> QED BY <1>4, <2>1, <2>2, <2>3, <2>4, <2>5, <2>6, <2>7, <2>8 DEF RequestStep
<1>5. ASSUME NEW s \in Sweep, SweepStep(s) PROVE TypeOK' /\ OpFits'
  <2>1. CASE List(s)
    BY <2>1, <1>g DEF List, Goto, Meta
  <2>2. CASE SweepLock(s)
    BY <2>2, <1>l, TryLockFacts DEF SweepLock, Local
  <2>3. CASE SaveAgain(s)    BY <2>3, <1>g DEF SaveAgain, Goto
  <2>4. CASE MovingAgain(s)  BY <2>4, <1>s, <1>g DEF MovingAgain, Goto
  <2>5. CASE Merge(s)
    <3>1. meta' \in Meta
      BY <2>5, MetaFacts DEF Merge, Status
    <3> QED BY <2>5, <3>1, <1>r DEF Merge, Local
  <2> QED BY <1>5, <2>1, <2>2, <2>3, <2>4, <2>5 DEF SweepStep
<1>6. ASSUME NEW c \in Request \cup Sweep, Crash(c) PROVE TypeOK' /\ OpFits'
  BY <1>6, <1>r DEF Crash, Local
<1>7. ASSUME NEW c \in Signing PROVE Validate(c) => TypeOK' /\ OpFits'
  BY <1>r, <1>g DEF Validate, Goto, Local
<1>8. ASSUME NEW c \in Signing, Sign(c) PROVE TypeOK' /\ OpFits'
  <2>1. meta' \in Meta
    <3>1. read[c] \in Meta /\ op[c].who \in Person \cup {NoOne}
      BY DEF Ops
    <3>2. Signed(c) \in Meta
      BY <3>1 DEF Signed, Meta
    <3> QED BY <1>8, <3>2 DEF Sign
  <2>2. state' \in APState
    BY <1>8, <1>s DEF Sign, OpFits
  <2>3. /\ signed' \in SUBSET Person /\ cut' \in SUBSET Signing
        /\ torn' \in BOOLEAN /\ before' \in SUBSET Call
    <3>1. CASE op[c].what = "revoke"  BY <1>8, <3>1 DEF Sign
    <3>2. CASE op[c].what # "revoke"
      <4>1. op[c].who \in Person  BY <1>8, <3>2 DEF Sign, OpFits, Signer
      <4> QED BY <1>8, <3>2, <4>1 DEF Sign
    <3> QED BY <3>1, <3>2
  <2> QED BY <1>8, <2>1, <2>2, <2>3, <1>r DEF Sign, Local
<1>9. ASSUME NEW c \in Signing, Begins(c) PROVE TypeOK' /\ OpFits'
  <2>1. Local' /\ OpFits' /\ signings' \in Nat
    BY <1>9, <1>l, BeginFacts DEF Begins, First, Second, Revoke, Signer
  <2> QED BY <1>9, <2>1 DEF Begins, First, Second, Revoke, Begin, Local
<1> QED BY <1>1, <1>2, <1>3, <1>4, <1>5, <1>6, <1>7, <1>8, <1>9 DEF Next, Begins

\* Every variable stays in its set, and a signature call keeps to its request.
THEOREM ApprovalsTypeCorrect == Spec => [](TypeOK /\ OpFits)
BY ApprovalsInitType, ApprovalsNextType, PTL DEF Spec
-----------------------------------------------------------------------------
(* What every step does to the metadata, its copies and the calls *)

LEMMA CallFacts ==
  ASSUME TypeOK, NEW c \in Call, Return(c)
  PROVE  /\ pc' = [pc EXCEPT ![c] = "idle"] /\ pc'[c] = "idle"
         /\ read'[c] = NoMeta /\ entry'[c] = "none" /\ card'[c] = 0
         /\ \A d \in Call \ {c} :
              /\ pc'[d] = pc[d] /\ read'[d] = read[d] /\ entry'[d] = entry[d]
              /\ card'[d] = card[d] /\ op'[d] = op[d]
BY DEF Return, Goto, TypeOK

-----------------------------------------------------------------------------
(* Who takes an approval back *)

\* A step of a request, a sweep or a validation leaves the other calls where they
\* are, and only a request writes an orphan.
LEMMA OwnStep ==
  ASSUME TypeOK, NEW x \in Call,
         \/ x \in Request /\ (RequestStep(x) \/ Crash(x))
         \/ x \in Sweep /\ (SweepStep(x) \/ Crash(x))
         \/ x \in Signing /\ Validate(x),
         ~Moving(x), ~MovingAgain(x)
  PROVE  /\ UNCHANGED <<state, before>>
         /\ \A c \in Call \ {x} : pc'[c] = pc[c] /\ op'[c] = op[c]
         /\ meta'.status = "orphan" => meta.status = "orphan" \/ x \in Request
         /\ pc[x] = "idle" => x \in Sweep /\ List(x)
<1> USE ApprovalsAssumption DEF Call, item, ghost
<1>r. Return(x) => \A c \in Call \ {x} : pc'[c] = pc[c] /\ op'[c] = op[c]
  BY CallFacts
<1>g. ASSUME NEW l, Goto(x, l), op' = op
      PROVE  \A c \in Call \ {x} : pc'[c] = pc[c] /\ op'[c] = op[c]
  BY <1>g DEF Goto, TypeOK
<1>1. CASE x \in Request /\ RequestStep(x)
  <2>1. CASE Lock(x)    BY <1>1, <2>1, <1>r, <1>g DEF Lock, TryLock
  <2>2. CASE Look(x)    BY <1>1, <2>2, <1>r, <1>g DEF Look
  <2>3. CASE Move(x)    BY <1>1, <2>3, <1>r, <1>g DEF Move
  <2>4. CASE Outbox(x)  BY <1>1, <2>4, <1>g DEF Outbox
  <2>5. CASE Write(x)
    <3>1. CASE Return(x)  BY <1>1, <2>5, <3>1, <1>r DEF Write
    <3>2. CASE ~Return(x)  BY <1>1, <2>5, <3>2, <1>g DEF Write
    <3> QED BY <3>1, <3>2
  <2>6. CASE Send(x)    BY <1>1, <2>6, <1>g DEF Send
  <2>7. CASE Save(x)    BY <1>1, <2>7, <1>g DEF Save
  <2> QED BY <1>1, <2>1, <2>2, <2>3, <2>4, <2>5, <2>6, <2>7 DEF RequestStep
<1>2. CASE x \in Sweep /\ SweepStep(x)
  <2>1. CASE List(x)       BY <1>2, <2>1, <1>g DEF List
  <2>2. CASE SweepLock(x)  BY <1>2, <2>2, <1>r, <1>g DEF SweepLock, TryLock
  <2>3. CASE SaveAgain(x)  BY <1>2, <2>3, <1>g DEF SaveAgain
  <2>4. CASE Merge(x)      BY <1>2, <2>4, <1>r DEF Merge, TypeOK, Meta
  <2> QED BY <1>2, <2>1, <2>2, <2>3, <2>4 DEF SweepStep
<1>3. CASE x \in Request \cup Sweep /\ Crash(x)
  BY <1>3, <1>r DEF Crash
<1>4. CASE x \in Signing /\ Validate(x)
  BY <1>4, <1>r, <1>g DEF Validate
<1> QED BY <1>1, <1>2, <1>3, <1>4

\* Only a signature approves, and nobody who came later is under way with a move.
LEMMA LatecomersStep == TypeOK /\ OpFits /\ Latecomers /\ [Next]_vars => Latecomers'
<1> SUFFICES ASSUME TypeOK, OpFits, Latecomers, [Next]_vars, state' = "approved"
             PROVE  Latecomers'
  BY DEF Latecomers
<1> USE ApprovalsAssumption DEF Call
<1>1. ASSUME NEW c \in Signing, Sign(c) PROVE Latecomers'
  <2>1. /\ op[c].what # "revoke" /\ op[c].to = "approved" /\ Return(c)
        /\ before' = Busy(Call \ {c}) \cup
                     (IF meta'.status = "orphan" \/ Busy(Request) # {} THEN Sweep ELSE {})
    BY <1>1 DEF Sign, SendBack, OpFits
  <2>2. \A d \in Call \ before' : pc'[d] = "idle"
    BY <2>1, CallFacts DEF Busy
  <2>3. \A s \in Sweep \ before' :
          meta'.status # "orphan" /\ \A r \in Request : pc'[r] = "idle"
    BY <2>1, CallFacts DEF Busy
  <2> QED BY <2>2, <2>3 DEF Latecomers
<1>2. CASE ~\E c \in Signing : Sign(c)
  <2>1. /\ state = "approved"
        /\ \A c \in Request \cup Sweep : ~Moving(c) /\ ~MovingAgain(c)
        /\ ~Elsewhere
    BY <1>2 DEF Next, vars, item, Elsewhere, SendBack, Ask, RequestStep, SweepStep,
         Crash, First, Second, Revoke, Begin, Validate, Lock, Look, Move, Moving, Outbox,
         Write, Send, Save, List, SweepLock, SaveAgain, MovingAgain, Merge
  <2>h. /\ \A r \in Request \ before : pc[r] = "idle"
        /\ \A s \in Sweep \ before :
             /\ pc[s] = "idle" /\ meta.status # "orphan"
             /\ \A r \in Request : pc[r] = "idle"
        /\ \A c \in Signing \ before :
             /\ pc[c] \in {"idle", "validate"}
             /\ pc[c] = "validate" => op[c].to \in {"approved", "needs_second_approval"}
    BY <2>1 DEF Latecomers
  \* A step of a call that was there before the approval.
  <2>e. ASSUME NEW x \in Call, x \in before, before' = before,
               \A c \in Call \ {x} : pc'[c] = pc[c] /\ op'[c] = op[c],
               meta'.status = "orphan" => meta.status = "orphan" \/ x \in Request,
               x \in Request => pc[x] # "idle"
        PROVE  Latecomers'
    <3>1. ASSUME NEW s \in Sweep \ before
          PROVE  /\ pc'[s] = "idle" /\ meta'.status # "orphan"
                 /\ \A r \in Request : pc'[r] = "idle"
      BY <2>e, <2>h
    <3> QED BY <2>e, <2>h, <3>1 DEF Latecomers
  <2>2. CASE UNCHANGED vars
    BY <2>1, <2>2, <2>h DEF vars, item, local, ghost, Latecomers
  <2>3. ASSUME NEW r \in Request, Ask(r) \/ RequestStep(r) \/ Crash(r) PROVE Latecomers'
    <3>1. RequestStep(r) \/ Crash(r)
      BY <2>1, <2>3 DEF Ask
    <3>2. /\ before' = before /\ pc[r] # "idle"
          /\ \A c \in Call \ {r} : pc'[c] = pc[c] /\ op'[c] = op[c]
      BY <2>1, <3>1, OwnStep
    <3>3. r \in before
      BY <3>2, <2>h
    <3> QED BY <3>2, <3>3, <2>e
  <2>4. ASSUME NEW s \in Sweep, SweepStep(s) \/ Crash(s) PROVE Latecomers'
    <3>1. /\ before' = before /\ (pc[s] = "idle" => meta.status = "orphan")
          /\ \A c \in Call \ {s} : pc'[c] = pc[c] /\ op'[c] = op[c]
          /\ meta'.status = "orphan" => meta.status = "orphan"
      BY <2>1, <2>4, OwnStep DEF List
    <3>2. s \in before
      BY <3>1, <2>h
    <3> QED BY <3>1, <3>2, <2>e
  <2>5. ASSUME NEW c \in Signing, Begins(c) PROVE Latecomers'
    <3>1. PICK p \in Person : First(c, p)
      BY <2>5, <2>1 DEF Begins, Second, Revoke
    <3>2. /\ pc' = [pc EXCEPT ![c] = "validate"] /\ UNCHANGED item
          /\ op'[c].to \in {"approved", "needs_second_approval"}
          /\ \A d \in Signing \ {c} : op'[d] = op[d]
          /\ before' = before \ {c}
      BY <3>1 DEF First, Begin, Goto, TypeOK
    <3> QED BY <3>2, <2>h DEF Latecomers, item, TypeOK
  <2>6. ASSUME NEW c \in Signing, Validate(c) PROVE Latecomers'
    <3>1. /\ UNCHANGED <<before, meta>> /\ pc[c] = "validate"
          /\ \A d \in Call \ {c} : pc'[d] = pc[d] /\ op'[d] = op[d]
      BY <2>6, OwnStep DEF Validate, item, Moving, MovingAgain
    <3>2. CASE c \in before
      BY <3>1, <3>2, <2>e
    <3>3. CASE c \notin before
      <4>1. ~ValidTransition(state, op[c].to)
        BY <3>1, <3>3, <2>1, <2>h DEF ValidTransition, VALID_TRANSITIONS, APState
      <4>2. pc'[c] = "idle"
        BY <2>6, <4>1, CallFacts DEF Validate
      <4> QED BY <3>1, <4>2, <2>h DEF Latecomers
    <3> QED BY <3>2, <3>3
  <2> QED BY <1>2, <2>1, <2>2, <2>3, <2>4, <2>5, <2>6 DEF Next, Begins
<1> QED BY <1>1, <1>2

\* An approval is taken back only by a call that was under way when it was given,
\* or by the sweep of an orphan that was there or that such a request left.
THEOREM OnlyEarlierTakesBack == Spec => TakenBackByEarlier
<1>1. Init => Latecomers
  BY DEF Init, Latecomers
<1>2. TypeOK /\ OpFits /\ Latecomers /\ [Next]_vars
        => [state = "approved" /\ state' \in {"needs_approval", "needs_second_approval"}
              => \E c \in before : pc'[c] # pc[c]]_vars
  <2> SUFFICES ASSUME TypeOK, OpFits, Latecomers, Next, state = "approved",
                      state' \in {"needs_approval", "needs_second_approval"}
               PROVE  \E c \in before : pc'[c] # pc[c]
    OBVIOUS
  <2> USE ApprovalsAssumption DEF Call
  <2>1. ~Elsewhere
    BY DEF Elsewhere, SendBack
  <2>2. \/ \E c \in Request \cup Sweep : Moving(c) \/ MovingAgain(c)
        \/ \E c \in Signing : Sign(c)
    BY <2>1 DEF Next, item, Ask, RequestStep, SweepStep,
         Crash, First, Second, Revoke, Begin, Validate, Lock, Look, Move, Outbox,
         Write, Send, Save, List, SweepLock, SaveAgain, Merge
  <2>3. PICK c \in Call : \/ c \in Request \cup Sweep /\ (Moving(c) \/ MovingAgain(c))
                          \/ c \in Signing /\ Sign(c)
    BY <2>2
  <2>4. /\ pc[c] \in {"moving", "write"} /\ (c \in Signing => pc[c] = "write")
        /\ pc'[c] # pc[c]
    BY <2>3, CallFacts DEF Moving, MovingAgain, Sign, Goto, TypeOK
  <2>5. c \in before
    BY <2>4 DEF Latecomers
  <2> QED BY <2>4, <2>5
<1> QED BY <1>1, <1>2, LatecomersStep, ApprovalsTypeCorrect, PTL DEF Spec, TakenBackByEarlier

-----------------------------------------------------------------------------
(* Two people *)

LEMMA SignaturesStep == TypeOK /\ OpFits /\ Signatures /\ [Next]_vars => Signatures'
<1> SUFFICES ASSUME TypeOK, OpFits, Signatures, [Next]_vars, ~torn' PROVE Signatures'
  BY DEF Signatures
<1> USE ApprovalsAssumption DEF Call
\* A step that is no signature call's, leaves the signatures alone and asks for none.
<1>q. ASSUME meta'.first = meta.first, UNCHANGED <<signed, cut, torn>>,
             state' = "needs_second_approval" => state = "needs_second_approval",
             \A c \in Signing : pc'[c] # "idle" =>
               pc[c] # "idle" /\ op'[c] = op[c] /\ read'[c] = read[c]
      PROVE  Signatures'
  BY <1>q DEF Signatures
<1>w. SendBack("needs_approval") => state' # "needs_second_approval"
  BY DEF SendBack
<1>1. CASE UNCHANGED vars
  BY <1>1, <1>q DEF vars, item, local, ghost
<1>2. CASE Elsewhere
  BY <1>2, <1>q DEF Elsewhere, SendBack, local
<1>o. ASSUME NEW c \in Request \cup Sweep, NEW l, Goto(c, l), UNCHANGED <<read, op>>
      PROVE  \A d \in Signing : pc'[d] = pc[d] /\ op'[d] = op[d] /\ read'[d] = read[d]
  BY <1>o DEF Goto, TypeOK
<1>r. ASSUME NEW c \in Call, Return(c)
      PROVE  \A d \in Signing : pc'[d] # "idle" =>
               d # c /\ pc'[d] = pc[d] /\ op'[d] = op[d] /\ read'[d] = read[d]
  BY <1>r, CallFacts
<1>3. ASSUME NEW r \in Request, Ask(r) \/ RequestStep(r) \/ Crash(r) PROVE Signatures'
  <2>a. CASE Ask(r)     BY <2>a, <1>o, <1>q DEF Ask, item, ghost
  <2>c. CASE Crash(r)   BY <2>c, <1>r, <1>q DEF Crash, item, ghost
  <2>1. CASE Lock(r)    BY <2>1, <1>o, <1>r, <1>q DEF Lock, TryLock, item, ghost
  <2>2. CASE Look(r)    BY <2>2, <1>o, <1>r, <1>q DEF Look, item, ghost
  <2>3. CASE Move(r)    BY <2>3, <1>o, <1>r, <1>q DEF Move, item, ghost
  <2>4. CASE Moving(r)  BY <2>4, <1>w, <1>o, <1>q DEF Moving
  <2>5. CASE Outbox(r)
    BY <2>5, <1>q DEF Outbox, Goto, item, ghost, TypeOK
  <2>6. CASE Write(r)
    <3>1. meta'.first = meta.first /\ torn' = torn
      <4>1. read[r] \in Meta /\ meta \in Meta /\ torn \in BOOLEAN  BY DEF TypeOK
      <4>2. CASE UNCHANGED <<meta, torn>>  BY <4>2
      <4>3. CASE ~UNCHANGED <<meta, torn>>
        <5>1. /\ torn' = (torn \/ meta.first # read[r].first)
              /\ meta' = IF entry[r] = "note" THEN read[r]
                         ELSE [read[r] EXCEPT !.status = entry[r],
                                 !.card = IF entry[r] = "orphan" THEN card[r] ELSE 0]
          BY <2>6, <4>3 DEF Write
        <5>2. meta'.first = read[r].first  BY <4>1, <5>1 DEF Meta
        <5> QED BY <4>1, <5>1, <5>2
      <4> QED BY <4>2, <4>3
    <3>2. \A d \in Signing : pc'[d] # "idle" =>
            pc[d] # "idle" /\ op'[d] = op[d] /\ read'[d] = read[d]
      <4>1. CASE Return(r)  BY <4>1, <1>r
      <4>2. CASE ~Return(r)
        BY <4>2, <2>6 DEF Write, Goto, TypeOK
      <4> QED BY <4>1, <4>2
    <3> QED BY <2>6, <3>1, <3>2, <1>q DEF Write
  <2>7. CASE Send(r)    BY <2>7, <1>o, <1>q DEF Send, ghost
  <2>8. CASE Save(r)    BY <2>8, <1>o, <1>q DEF Save, ghost
  <2> QED BY <1>3, <2>a, <2>c, <2>1, <2>2, <2>3, <2>4, <2>5, <2>6, <2>7, <2>8 DEF RequestStep
<1>4. ASSUME NEW s \in Sweep, SweepStep(s) \/ Crash(s) PROVE Signatures'
  <2>c. CASE Crash(s)        BY <2>c, <1>r, <1>q DEF Crash, item, ghost
  <2>1. CASE List(s)         BY <2>1, <1>o, <1>q DEF List, item, ghost
  <2>2. CASE SweepLock(s)    BY <2>2, <1>o, <1>r, <1>q DEF SweepLock, TryLock, item, ghost
  <2>3. CASE SaveAgain(s)    BY <2>3, <1>o, <1>q DEF SaveAgain, ghost
  <2>4. CASE MovingAgain(s)  BY <2>4, <1>w, <1>o, <1>q DEF MovingAgain
  <2>5. CASE Merge(s)
    <3>1. meta'.first = meta.first
      BY <2>5 DEF Merge, TypeOK, Meta
    <3> QED BY <2>5, <3>1, <1>r, <1>q DEF Merge, ghost
  <2> QED BY <1>4, <2>c, <2>1, <2>2, <2>3, <2>4, <2>5 DEF SweepStep
<1>5. ASSUME NEW c \in Signing, Validate(c) PROVE Signatures'
  <2>1. CASE Return(c)
    BY <1>5, <2>1, <1>r, <1>q DEF Validate, item, ghost
  <2>2. CASE Goto(c, "write") /\ UNCHANGED <<read, op>>
    BY <1>5, <2>2, <1>q DEF Validate, Goto, item, ghost, TypeOK
  <2> QED BY <1>5, <2>1, <2>2 DEF Validate
<1>6. ASSUME NEW c \in Signing, Sign(c) PROVE Signatures'
  <2>1. \A d \in Signing : pc'[d] # "idle" =>
          pc[d] # "idle" /\ op'[d] = op[d] /\ read'[d] = read[d]
    BY <1>6, <1>r DEF Sign
  <2>2. CASE op[c].what = "revoke"
    <3>1. state' = "needs_approval" /\ cut' = Busy(Signing)
      BY <1>6, <2>2 DEF Sign, SendBack, OpFits
    <3> QED BY <3>1, <2>1 DEF Signatures, Busy
  <2>3. CASE op[c].what # "revoke"
    <3>1. /\ state' = op[c].to /\ meta' = Signed(c) /\ signed' = signed \cup {op[c].who}
          /\ UNCHANGED <<cut, torn>> /\ op[c].who \in Signer
      BY <1>6, <2>3 DEF Sign, OpFits
    <3>2. state' = "needs_second_approval" => meta'.first \in signed' \ {Requester}
      <4>1. SUFFICES ASSUME state' = "needs_second_approval"
                     PROVE  meta'.first \in signed' \ {Requester}
        OBVIOUS
      <4>2. op[c].what = "first"
        BY <1>6, <2>3, <3>1, <4>1 DEF Sign, OpFits
      <4>3. meta'.first = op[c].who
        BY <3>1, <4>2 DEF Signed, TypeOK, Meta
      <4> QED BY <3>1, <4>3 DEF Signer
    <3> QED BY <3>1, <3>2, <2>1 DEF Signatures
  <2> QED BY <2>2, <2>3
<1>7. ASSUME NEW c \in Signing, Begins(c) PROVE Signatures'
  <2>1. /\ UNCHANGED <<item, signed, torn>> /\ cut' = cut \ {c}
        /\ read'[c] = meta
        /\ \A d \in Signing \ {c} : pc'[d] = pc[d] /\ op'[d] = op[d] /\ read'[d] = read[d]
    BY <1>7 DEF Begins, First, Second, Revoke, Begin, Goto, TypeOK
  <2>2. op'[c].what = "second" => state = "needs_second_approval" /\ op'[c].who # meta.first
    BY <1>7 DEF Begins, First, Second, Revoke, Begin, TypeOK
  <2> QED BY <2>1, <2>2 DEF Signatures, item
<1> QED BY <1>1, <1>2, <1>3, <1>4, <1>5, <1>6, <1>7 DEF Next, Begins

\* Two people, neither of whom filed the bill, have signed when a second signature
\* approves an item, unless a revocation came in between or a request wrote back
\* another first signature.
THEOREM ApprovalsTakeTwoPeople == Spec => TwoPeopleSign
<1>1. Init => Signatures
  BY DEF Init, Signatures, Call
<1>2. TypeOK /\ OpFits /\ Signatures /\ [Next]_vars
        => [\A c \in Signing : SignsSecond(c) /\ c \notin cut /\ ~torn => TwoSigned']_vars
  <2> SUFFICES ASSUME TypeOK, OpFits, Signatures, Next,
                      NEW c \in Signing, SignsSecond(c), c \notin cut, ~torn
               PROVE  TwoSigned'
    OBVIOUS
  <2> USE ApprovalsAssumption DEF Call
  <2>1. ASSUME NEW x \in Call \ {c}, Return(x) \/ \E l : Goto(x, l) PROVE FALSE
    BY <2>1 DEF SignsSecond, Return, Goto, TypeOK
  <2>2. Sign(c)
    BY <2>1 DEF SignsSecond, Next, Elsewhere, local, Ask, RequestStep, SweepStep,
         Crash, First, Second, Revoke, Begin, Validate, Sign, Lock, TryLock, Look, Move,
         Moving, Outbox, Write, Send, Save, List, SweepLock, SaveAgain, MovingAgain, Merge
  <2>3. /\ signed' = signed \cup {op[c].who}
        /\ op[c].who \in Signer /\ op[c].who # read[c].first
        /\ read[c].first \in signed \ {Requester}
    BY <2>2 DEF SignsSecond, Sign, OpFits, Signatures
  <2> QED BY <2>3 DEF TwoSigned, Signer
<1> QED BY <1>1, <1>2, SignaturesStep, ApprovalsTypeCorrect, PTL DEF Spec, TwoPeopleSign

-----------------------------------------------------------------------------
(* An entry that says dispatched has its card *)

LEMMA CardsKeptStep == TypeOK /\ OpFits /\ CardsKept /\ [Next]_vars => CardsKept'
<1> SUFFICES ASSUME TypeOK, OpFits, CardsKept, [Next]_vars PROVE CardsKept'
  OBVIOUS
<1> USE ApprovalsAssumption DEF Call
<1>n. cards \in Nat /\ thread \in Nat  BY DEF TypeOK
\* A step of one call x that neither writes the metadata nor loses a card.
<1>q. ASSUME NEW x \in Call, cards \in Nat, cards' \in {cards, cards + 1},
             thread' = thread \/ thread' \in 1..cards',
             Kept(meta)', Kept(read[x])',
             \A c \in Call \ {x} : /\ pc'[c] = pc[c] /\ read'[c] = read[c]
                                   /\ entry'[c] = entry[c] /\ card'[c] = card[c],
             x \in Request =>
               /\ entry'[x] = "dispatched" => thread' \in 1..cards'
               /\ entry'[x] \in {"dispatched", "orphan"} \/ pc'[x] = "save"
                    => card'[x] \in 1..cards',
             x \in Sweep =>
               /\ pc'[x] \in {"lock", "save"} => card'[x] \in 1..cards'
               /\ pc'[x] \in {"moving", "merge"} => thread' \in 1..cards'
      PROVE  CardsKept'
  <2>1. thread \in 1..cards => thread' \in 1..cards'
    BY <1>q
  <2>2. \A k \in 1..cards : k \in 1..cards'
    BY <1>q
  <2>3. \A c \in Call \ {x} : Kept(read[c])'
    BY <1>q, <2>1, <2>2 DEF CardsKept, Kept
  <2>4. \A r \in Request \ {x} :
          /\ entry'[r] = "dispatched" => thread' \in 1..cards'
          /\ entry'[r] \in {"dispatched", "orphan"} \/ pc'[r] = "save"
               => card'[r] \in 1..cards'
    BY <1>q, <2>1, <2>2 DEF CardsKept
  <2>5. \A s \in Sweep \ {x} :
          /\ pc'[s] \in {"lock", "save"} => card'[s] \in 1..cards'
          /\ pc'[s] \in {"moving", "merge"} => thread' \in 1..cards'
    BY <1>q, <2>1, <2>2 DEF CardsKept
  <2> QED BY <1>q, <2>3, <2>4, <2>5 DEF CardsKept
\* The same for a step that leaves the cards and the metadata alone and moves on.
<1>g. ASSUME NEW x \in Call, UNCHANGED <<meta, thread, cards>>,
             pc' = [pc EXCEPT ![x] = pc'[x]], UNCHANGED <<read, card>>,
             entry' = [entry EXCEPT ![x] = entry'[x]],
             x \in Request =>
               /\ entry'[x] = "dispatched" => thread \in 1..cards
               /\ entry'[x] \in {"dispatched", "orphan"} \/ pc'[x] = "save"
                    => card[x] \in 1..cards,
             x \in Sweep =>
               /\ pc'[x] \in {"lock", "save"} => card[x] \in 1..cards
               /\ pc'[x] \in {"moving", "merge"} => thread \in 1..cards
      PROVE  CardsKept'
  BY <1>g, <1>n DEF CardsKept, Kept, TypeOK
<1>r. ASSUME NEW x \in Call, Return(x), Kept(meta)', cards' = cards, thread' = thread
      PROVE  CardsKept'
  <2>1. Kept(read[x])'
    BY <1>r, CallFacts, NoFacts DEF Kept
  <2> QED BY <1>r, <1>n, <2>1, CallFacts, <1>q
<1>1. CASE UNCHANGED vars
  BY <1>1 DEF vars, item, local, CardsKept, Kept
<1>2. CASE Elsewhere
  BY <1>2 DEF Elsewhere, local, CardsKept, Kept
<1>k. Kept(meta) /\ \A c \in Call : Kept(read[c])
  BY DEF CardsKept
<1>e. \A r \in Request :
        /\ entry[r] = "dispatched" => thread \in 1..cards
        /\ entry[r] \in {"dispatched", "orphan"} \/ pc[r] = "save" => card[r] \in 1..cards
  BY DEF CardsKept
<1>s. \A s \in Sweep :
        /\ pc[s] \in {"lock", "save"} => card[s] \in 1..cards
        /\ pc[s] \in {"moving", "merge"} => thread \in 1..cards
  BY DEF CardsKept
<1>3. ASSUME NEW r \in Request, Ask(r) \/ RequestStep(r) PROVE CardsKept'
  <2>a. CASE Ask(r)     BY <2>a, <1>e, <1>g DEF Ask, Goto, item, TypeOK
  <2>1. CASE Lock(r)
    <3>1. CASE Return(r)  BY <2>1, <3>1, <1>r, <1>k DEF Lock, item, Kept
    <3>2. CASE ~Return(r)
      BY <2>1, <3>2, <1>e, <1>g DEF Lock, TryLock, Goto, item, TypeOK
    <3> QED BY <3>1, <3>2
  <2>2. CASE Look(r)
    <3>1. CASE Return(r)  BY <2>2, <3>1, <1>r, <1>k DEF Look, item, Kept
    <3>2. CASE ~Return(r)
      BY <2>2, <3>2, <1>e, <1>g DEF Look, Goto, item, TypeOK
    <3> QED BY <3>1, <3>2
  <2>3. CASE Move(r)
    <3>1. CASE Return(r)  BY <2>3, <3>1, <1>r, <1>k DEF Move, item, Kept
    <3>2. CASE ~Return(r)
      BY <2>3, <3>2, <1>e, <1>g DEF Move, Goto, item, TypeOK
    <3> QED BY <3>1, <3>2
  <2>4. CASE Moving(r)  BY <2>4, <1>e, <1>g DEF Moving, Goto, TypeOK
  <2>5. CASE Outbox(r)
    BY <2>5, <1>q, <1>n, <1>k, <1>e DEF Outbox, Goto, item, TypeOK, Kept
  <2>6. CASE Write(r)
    <3>1. Kept(meta)'
      <4>0. CASE UNCHANGED meta  BY <2>6, <4>0, <1>k DEF Write, Kept
      <4>1. CASE entry[r] = "note" /\ meta' # meta
        BY <2>6, <4>1, <1>k DEF Write, Kept
      <4>2. CASE entry[r] # "note" /\ meta' # meta
        <5>1. read[r] \in Meta
          BY DEF TypeOK
        <5>2. /\ meta'.status = entry[r]
              /\ entry[r] = "orphan" => meta'.card = card[r]
          BY <2>6, <4>2, <5>1 DEF Write, Meta
        <5> QED BY <2>6, <5>2, <1>e DEF Write, Kept
      <4> QED BY <4>0, <4>1, <4>2
    <3>2. CASE Return(r)
      BY <2>6, <3>1, <3>2, <1>r DEF Write
    <3>3. CASE ~Return(r)
      <4>1. /\ read'[r] = NoMeta /\ entry'[r] \in {"none", "note"} /\ pc'[r] \in {"send", "outbox"}
            /\ \A c \in Call \ {r} : /\ pc'[c] = pc[c] /\ read'[c] = read[c]
                                      /\ entry'[c] = entry[c] /\ card'[c] = card[c]
        BY <2>6, <3>3 DEF Write, Goto, TypeOK
      <4>2. Kept(read[r])'
        BY <4>1, NoFacts DEF Kept
      <4> QED BY <2>6, <3>1, <4>1, <4>2, <1>n, <1>q DEF Write
    <3> QED BY <3>2, <3>3
  <2>7. CASE Send(r)
    <3>1. Kept(meta)' /\ Kept(read[r])' /\ cards' \in {cards, cards + 1}
      BY <2>7, <1>k, <1>n DEF Send, Kept
    <3>2. /\ entry'[r] \in {"failed", entry[r]} /\ pc'[r] \in {"save", "outbox"}
          /\ card'[r] = card[r] \/ card'[r] \in 1..cards'
          /\ pc'[r] = "save" => card'[r] \in 1..cards'
          /\ \A c \in Call \ {r} : /\ pc'[c] = pc[c] /\ read'[c] = read[c]
                                    /\ entry'[c] = entry[c] /\ card'[c] = card[c]
      BY <2>7, <1>n DEF Send, Goto, TypeOK
    <3> QED BY <2>7, <3>1, <3>2, <1>n, <1>e, <1>q DEF Send
  <2>8. CASE Save(r)
    <3>0. card[r] \in 1..cards
      BY <2>8, <1>e DEF Save
    <3>1. Kept(meta)' /\ Kept(read[r])' /\ cards' = cards
      BY <2>8, <3>0, <1>k DEF Save, Kept
    <3>2. /\ entry'[r] = "dispatched" => thread' = card[r]
          /\ thread' = thread \/ thread' = card[r]
          /\ \A c \in Call \ {r} : /\ pc'[c] = pc[c] /\ entry'[c] = entry[c]
          /\ UNCHANGED <<read, card>>
      BY <2>8 DEF Save, Goto, TypeOK
    <3> QED BY <3>0, <3>1, <3>2, <1>n, <1>q
  <2> QED BY <1>3, <2>a, <2>1, <2>2, <2>3, <2>4, <2>5, <2>6, <2>7, <2>8 DEF RequestStep
<1>4. ASSUME NEW s \in Sweep, SweepStep(s) PROVE CardsKept'
  <2>1. CASE List(s)
    <3>1. meta.card \in 1..cards
      BY <2>1, <1>k DEF List, Kept
    <3> QED BY <2>1, <3>1, <1>n, <1>k, <1>q DEF List, Goto, item, TypeOK, Kept
  <2>2. CASE SweepLock(s)
    <3>1. CASE Return(s)  BY <2>2, <3>1, <1>r, <1>k DEF SweepLock, item, Kept
    <3>2. CASE ~Return(s)
      BY <2>2, <3>2, <1>s, <1>g DEF SweepLock, TryLock, Goto, item, TypeOK
    <3> QED BY <3>1, <3>2
  <2>3. CASE SaveAgain(s)
    <3>1. thread' \in 1..cards /\ cards' = cards
      BY <2>3, <1>s DEF SaveAgain
    <3>2. Kept(meta)' /\ Kept(read[s])'
      BY <2>3, <3>1, <1>k DEF SaveAgain, Kept
    <3> QED BY <2>3, <3>1, <3>2, <1>n, <1>s, <1>q DEF SaveAgain, Goto, TypeOK
  <2>4. CASE MovingAgain(s)  BY <2>4, <1>s, <1>g DEF MovingAgain, Goto, TypeOK
  <2>5. CASE Merge(s)
    <3>1. Kept(meta)'
      BY <2>5, <1>s DEF Merge, Kept, TypeOK, Meta
    <3> QED BY <2>5, <3>1, <1>r DEF Merge
  <2> QED BY <1>4, <2>1, <2>2, <2>3, <2>4, <2>5 DEF SweepStep
<1>5. ASSUME NEW c \in Request \cup Sweep, Crash(c) PROVE CardsKept'
  BY <1>5, <1>r, <1>k DEF Crash, item, Kept
<1>6. ASSUME NEW c \in Signing, Begins(c) PROVE CardsKept'
  BY <1>6, <1>q, <1>n, <1>k DEF Begins, First, Second, Revoke, Begin, Goto, item, TypeOK, Kept
<1>7. ASSUME NEW c \in Signing, Validate(c) PROVE CardsKept'
  <2>1. CASE Return(c)  BY <1>7, <2>1, <1>r, <1>k DEF Validate, item, Kept
  <2>2. CASE ~Return(c)
    BY <1>7, <2>2, <1>g DEF Validate, Goto, item, TypeOK
  <2> QED BY <2>1, <2>2
<1>8. ASSUME NEW c \in Signing, Sign(c) PROVE CardsKept'
  <2>1. meta'.status = read[c].status /\ meta'.card = read[c].card
    BY <1>8 DEF Sign, Signed, TypeOK, Meta
  <2>2. Kept(meta)'
    BY <1>8, <2>1, <1>k DEF Sign, Kept
  <2> QED BY <1>8, <2>2, <1>r DEF Sign
<1> QED BY <1>1, <1>2, <1>3, <1>4, <1>5, <1>6, <1>7, <1>8 DEF Next, Begins

\* No stale write, crash or late recovery makes the entry say "dispatched"
\* without a delivered card on record.
THEOREM DispatchedHasCard == Spec => []EntryHasCard
<1>1. Init => CardsKept
  BY DEF Init, CardsKept, Kept, NoMeta, Call
<1>2. CardsKept => EntryHasCard
  BY DEF CardsKept, Kept, EntryHasCard
<1> QED BY <1>1, <1>2, CardsKeptStep, ApprovalsTypeCorrect, PTL DEF Spec

-----------------------------------------------------------------------------
(* One card, and one more per trouble *)

\* What call x owes, and what is spare, as numbers.
Share(x)  == IF x \in Request /\ Owes(x) THEN 1 ELSE 0
SpareCard == IF Spare THEN 1 ELSE 0

\* A step of call x stays in the budget if its own account does.
LEMMA OneCallMoves ==
  ASSUME TypeOK, InBudget, NEW x \in Call, cards' \in Nat, troubles' \in Nat,
         \A c \in Call \ {x} : pc'[c] = pc[c] /\ entry'[c] = entry[c],
         thread' = 0 => thread = 0,
         cards' + Share(x)' + SpareCard' <= cards + Share(x) + SpareCard + (troubles' - troubles)
  PROVE  InBudget'
<1> DEFINE Rest == Owing \ {x}
<1>1. IsFiniteSet(Owing) /\ Cardinality(Owing) \in Nat
  BY FS_CardinalityType DEF InBudget
<1>2. /\ IsFiniteSet(Rest) /\ Cardinality(Rest) \in Nat
      /\ Cardinality(Owing) = Cardinality(Rest) + Share(x)
  <2>0. Share(x) = IF x \in Owing THEN 1 ELSE 0
    BY DEF Share, Owing
  <2>1. CASE x \in Owing
    <3>1. IsFiniteSet(Rest) /\ Cardinality(Rest) = Cardinality(Owing) - 1
      BY <1>1, <2>1, FS_RemoveElement
    <3> QED BY <1>1, <2>0, <2>1, <3>1, FS_CardinalityType
  <2>2. CASE x \notin Owing
    <3>1. Rest = Owing  BY <2>2
    <3>2. IsFiniteSet(Rest) /\ Cardinality(Rest) = Cardinality(Owing)
      BY <1>1, <3>1
    <3> HIDE DEF Rest
    <3> QED BY <1>1, <2>0, <2>2, <3>2
  <2> QED BY <2>1, <2>2
<1>3. Owing' \subseteq Rest \cup {x} /\ (Share(x)' = 0 => Owing' \subseteq Rest)
  <2>1. \A c \in Request \ {x} : Owes(c)' => Owes(c)
    BY DEF Owes, Sends, Call
  <2> QED BY <2>1 DEF Owing, Share
<1>4. IsFiniteSet(Owing)' /\ Cardinality(Owing)' <= Cardinality(Rest) + Share(x)'
  <2>1. CASE Share(x)' = 0
    BY <1>2, <1>3, <2>1, FS_Subset
  <2>2. CASE Share(x)' = 1
    <3>1. IsFiniteSet(Rest \cup {x}) /\ Cardinality(Rest \cup {x}) = Cardinality(Rest) + 1
      BY <1>2, FS_AddElement
    <3> QED BY <1>3, <2>2, <3>1, FS_Subset
  <2> QED BY <2>1, <2>2 DEF Share
<1>5. Cardinality(Owing)' \in Nat  BY <1>4, FS_CardinalityType
<1> HIDE DEF Rest
<1>6. /\ cards + Cardinality(Owing) + SpareCard <= 1 + troubles
      /\ cards \in Nat /\ troubles \in Nat
      /\ Share(x) \in {0, 1} /\ Share(x)' \in {0, 1}
      /\ SpareCard \in {0, 1} /\ SpareCard' \in {0, 1}
  BY DEF InBudget, SpareCard, Share, TypeOK
<1>7. cards' + Cardinality(Owing)' + SpareCard' <= 1 + troubles'
  BY <1>1, <1>2, <1>4, <1>5, <1>6
<1> QED BY <1>4, <1>7 DEF InBudget, SpareCard

\* A call that returns owes nothing; only a card not yet on record is lost.
LEMMA ReturnShare ==
  ASSUME TypeOK, NEW x \in Call, Return(x), thread' = thread
  PROVE  Share(x)' + SpareCard'
           <= Share(x) + SpareCard + (IF x \in Request /\ pc[x] = "save" THEN 1 ELSE 0)
<1>1. pc'[x] = "idle" /\ \A c \in Call \ {x} : pc'[c] = pc[c] /\ entry'[c] = entry[c]
  BY CallFacts
<1>2. Share(x)' = 0
  BY <1>1 DEF Share, Owes, Sends
<1>3. ASSUME Spare', ~Spare PROVE x \in Request /\ (Owes(x) \/ pc[x] = "save")
  <2>1. PICK r \in Request : lock = r /\ (Owes(r) \/ pc[r] = "save")
    BY <1>3 DEF Spare
  <2>2. CASE r = x  BY <2>1, <2>2
  <2>3. CASE r # x
    <3>1. lock' = r /\ Owes(r)' = Owes(r) /\ pc'[r] = pc[r]
      BY <1>1, <2>1, <2>3 DEF Return, Owes, Sends, Call
    <3> QED BY <1>3, <2>1, <3>1 DEF Spare
  <2> QED BY <2>2, <2>3
<1> QED BY <1>2, <1>3 DEF Share, SpareCard

LEMMA InBudgetStep ==
  TypeOK /\ CardsKept /\ InBudget /\ [Next]_vars => InBudget'
<1> SUFFICES ASSUME TypeOK, CardsKept, InBudget, [Next]_vars PROVE InBudget'
  OBVIOUS
<1> USE ApprovalsAssumption DEF Call
<1>n. cards \in Nat /\ thread \in Nat /\ troubles \in Nat  BY DEF TypeOK
<1>t. Trouble => troubles' = troubles + 1  BY DEF Trouble
<1>0. ASSUME UNCHANGED <<thread, cards, troubles, lock, pc, entry>> PROVE InBudget'
  BY <1>0 DEF InBudget, Owing, Owes, Sends, Spare
\* A return that loses no card, or whose loss is a trouble.
<1>r. ASSUME NEW x \in Call, Return(x), UNCHANGED <<thread, cards>>,
             \/ troubles' = troubles /\ ~(x \in Request /\ pc[x] = "save")
             \/ troubles' = troubles + 1
      PROVE  InBudget'
  <2>1. \A c \in Call \ {x} : pc'[c] = pc[c] /\ entry'[c] = entry[c]
    BY <1>r, CallFacts
  <2> QED BY <1>n, <1>r, <2>1, ReturnShare, OneCallMoves DEF Share, SpareCard
\* A step of a sweep or a signing, which owe nothing.
<1>s. ASSUME NEW x \in Sweep \cup Signing, UNCHANGED <<cards, entry>>,
             \A c \in Call \ {x} : pc'[c] = pc[c],
             thread' = 0 => thread = 0,
             troubles' = troubles \/ troubles' = troubles + 1,
             lock' = lock \/ (lock = NoOne /\ lock' = x)
      PROVE  InBudget'
  <2>1. x \in Call /\ x \notin Request  OBVIOUS
  <2>2. \A r \in Request : pc'[r] = pc[r]  BY <1>s, <2>1
  <2>3. Spare' => Spare
    BY <1>s, <2>1, <2>2 DEF Spare, Owes, Sends
  <2>4. Share(x) = 0 /\ Share(x)' = 0
    BY <2>1 DEF Share
  <2>5. /\ cards \in Nat /\ cards' = cards /\ troubles' \in Nat
        /\ troubles' - troubles = 0 \/ troubles' - troubles = 1
    BY <1>n, <1>s
  <2>6. SpareCard \in {0, 1} /\ SpareCard' \in {0, 1} /\ SpareCard' <= SpareCard
    BY <2>3 DEF SpareCard
  <2>7. cards' + Share(x)' + SpareCard'
          <= cards + Share(x) + SpareCard + (troubles' - troubles)
    BY <2>4, <2>5, <2>6
  <2> QED BY <1>n, <1>s, <2>1, <2>5, <2>7, OneCallMoves
\* A step of a request that keeps the lock and the record.
<1>m. ASSUME NEW r \in Request, UNCHANGED <<lock, thread>>, cards' \in Nat,
             \A c \in Call \ {r} : pc'[c] = pc[c] /\ entry'[c] = entry[c],
             \/ /\ cards' = cards /\ troubles' \in {troubles, troubles + 1}
                /\ Owes(r)' => Owes(r)
                /\ Owes(r) \/ pc[r] = "save" => Owes(r)'
             \/ /\ pc[r] = "send" /\ cards' = cards + 1 /\ pc'[r] = "save"
                /\ troubles' = troubles
             \/ /\ pc[r] = "send" /\ cards' <= cards + 1 /\ ~Owes(r)'
                /\ troubles' = troubles + 1
             \/ cards' = cards /\ troubles' = troubles + 1 /\ ~Owes(r)'
      PROVE  InBudget'
  <2>1. \A q \in Request \ {r} : Owes(q)' = Owes(q) /\ pc'[q] = pc[q]
    BY <1>m DEF Owes, Sends
  <2>2. lock # r => (Spare' <=> Spare)
    BY <1>m, <2>1 DEF Spare
  <2>3. lock = r => /\ Spare <=> thread = 0 /\ ~Owes(r) /\ pc[r] # "save"
                    /\ Spare' <=> thread = 0 /\ ~Owes(r)' /\ pc'[r] # "save"
    BY <1>m DEF Spare
  <2>4. pc[r] = "send" => Owes(r)
    BY DEF Owes, Sends
  <2>5. pc'[r] = "save" => ~Owes(r)'
    BY DEF Owes, Sends
  <2>6. cards' + Share(r)' + SpareCard'
          <= cards + Share(r) + SpareCard + (troubles' - troubles)
    BY <1>n, <1>m, <2>2, <2>3, <2>4, <2>5 DEF Share, SpareCard
  <2>7. troubles' \in Nat  BY <1>n, <1>m
  <2> QED BY <1>m, <2>6, <2>7, OneCallMoves
<1>1. CASE UNCHANGED vars
  BY <1>0, <1>1 DEF vars, item, local, counts
<1>2. CASE Elsewhere
  BY <1>0, <1>2 DEF Elsewhere, local, counts
<1>3. ASSUME NEW r \in Request, Ask(r) \/ RequestStep(r) PROVE InBudget'
  <2>a. CASE Ask(r)
    BY <2>a, <1>m, <1>n DEF Ask, Goto, item, TypeOK, Owes, Sends
  <2>1. CASE Lock(r)
    <3>1. CASE Return(r)  BY <2>1, <3>1, <1>r, <1>t DEF Lock, TryLock, item
    <3>2. CASE ~Return(r)
      <4>1. /\ \A c \in Call \ {r} : pc'[c] = pc[c]
            /\ UNCHANGED <<thread, cards, entry>>
            /\ pc[r] = "lock" /\ pc'[r] = "look"
            /\ \/ lock = NoOne /\ lock' = r /\ troubles' = troubles
               \/ lock' = lock /\ troubles' = troubles + 1
        BY <2>1, <3>2, <1>t DEF Lock, TryLock, Goto, item, TypeOK
      <4>2. \A q \in Request \ {r} : Owes(q)' = Owes(q) /\ pc'[q] = pc[q]
        BY <4>1 DEF Owes, Sends
      <4>3. ~Owes(r) /\ (Owes(r)' <=> thread = 0)
        BY <4>1 DEF Owes, Sends
      <4>4. CASE lock = NoOne /\ lock' = r /\ troubles' = troubles
        <5>1. Spare <=> thread = 0  BY <4>4 DEF Spare
        <5>2. ~Spare'  BY <4>1, <4>3, <4>4 DEF Spare
        <5> QED BY <1>n, <4>1, <4>3, <4>4, <5>1, <5>2, OneCallMoves DEF Share, SpareCard
      <4>5. CASE lock' = lock /\ troubles' = troubles + 1
        <5>1. Spare' => Spare
          BY <4>1, <4>2, <4>3, <4>5 DEF Spare
        <5> QED BY <1>n, <4>1, <4>3, <4>5, <5>1, OneCallMoves DEF Share, SpareCard
      <4> QED BY <4>1, <4>4, <4>5
    <3> QED BY <3>1, <3>2
  <2>2. CASE Look(r)
    <3>1. CASE Return(r)  BY <2>2, <3>1, <1>r DEF Look, item, counts
    <3>2. CASE ~Return(r)
      BY <2>2, <3>2, <1>n, <1>m DEF Look, Goto, item, counts, TypeOK, Owes, Sends
    <3> QED BY <3>1, <3>2
  <2>3. CASE Move(r)
    <3>1. CASE Return(r)  BY <2>3, <3>1, <1>r DEF Move, item, counts
    <3>2. CASE ~Return(r)
      BY <2>3, <3>2, <1>n, <1>m DEF Move, Goto, item, counts, TypeOK, Owes, Sends
    <3> QED BY <3>1, <3>2
  <2>4. CASE Moving(r)
    BY <2>4, <1>n, <1>m DEF Moving, Goto, counts, TypeOK, Owes, Sends
  <2>5. CASE Outbox(r)
    BY <2>5, <1>n, <1>m DEF Outbox, Goto, item, counts, TypeOK, Owes, Sends
  <2>6. CASE Write(r)
    <3>0. troubles' \in {troubles, troubles + 1} /\ pc[r] = "write"
      BY <2>6, <1>t DEF Write
    <3>1. CASE Return(r)  BY <2>6, <3>0, <3>1, <1>r DEF Write
    <3>2. CASE ~Return(r)
      BY <2>6, <3>0, <3>2, <1>n, <1>m DEF Write, Goto, TypeOK, Owes, Sends
    <3> QED BY <3>1, <3>2
  <2>7. CASE Send(r)
    <3>1. CASE troubles' = troubles
      BY <2>7, <3>1, <1>n, <1>t, <1>m DEF Send, Goto, TypeOK
    <3>2. CASE troubles' # troubles
      BY <2>7, <3>2, <1>n, <1>t, <1>m DEF Send, Goto, TypeOK, Owes, Sends
    <3> QED BY <3>1, <3>2
  <2>8. CASE Save(r)
    <3>1. card[r] \in 1..cards /\ pc[r] = "save" /\ ~Owes(r)
      BY <2>8 DEF Save, CardsKept, Owes, Sends
    <3>2. /\ \A c \in Call \ {r} : pc'[c] = pc[c] /\ entry'[c] = entry[c]
          /\ UNCHANGED <<cards, lock>> /\ ~Owes(r)'
          /\ thread' \in {thread, card[r]}
          /\ troubles' = troubles => thread' = card[r]
          /\ troubles' \in {troubles, troubles + 1}
      BY <2>8, <1>n, <1>t DEF Save, Goto, TypeOK, Owes, Sends
    <3>3. CASE thread' = card[r]
      <4>1. ~Spare' /\ Share(r)' = 0 /\ Share(r) = 0
        BY <1>n, <3>1, <3>2, <3>3 DEF Spare, Share
      <4> QED BY <1>n, <3>1, <3>2, <3>3, <4>1, OneCallMoves DEF SpareCard
    <3>4. CASE thread' = thread /\ troubles' = troubles + 1
      BY <1>n, <3>1, <3>2, <3>4, <1>m
    <3> QED BY <3>2, <3>3, <3>4
  <2> QED BY <1>3, <2>a, <2>1, <2>2, <2>3, <2>4, <2>5, <2>6, <2>7, <2>8 DEF RequestStep
<1>4. ASSUME NEW s \in Sweep, SweepStep(s) PROVE InBudget'
  <2>1. CASE List(s)
    BY <2>1, <1>s DEF List, Goto, item, counts, TypeOK
  <2>2. CASE SweepLock(s)
    <3>1. CASE Return(s)  BY <2>2, <3>1, <1>r, <1>t DEF SweepLock, TryLock, item
    <3>2. CASE ~Return(s)
      BY <2>2, <3>2, <1>s, <1>t DEF SweepLock, TryLock, Goto, item, TypeOK
    <3> QED BY <3>1, <3>2
  <2>3. CASE SaveAgain(s)
    <3>1. thread' \in 1..cards
      BY <2>3 DEF SaveAgain, CardsKept
    <3> QED BY <2>3, <3>1, <1>s DEF SaveAgain, Goto, counts, TypeOK
  <2>4. CASE MovingAgain(s)
    BY <2>4, <1>s DEF MovingAgain, Goto, counts, TypeOK
  <2>5. CASE Merge(s)
    BY <2>5, <1>r DEF Merge, counts
  <2> QED BY <1>4, <2>1, <2>2, <2>3, <2>4, <2>5 DEF SweepStep
<1>5. ASSUME NEW c \in Request \cup Sweep, Crash(c) PROVE InBudget'
  BY <1>5, <1>r, <1>t DEF Crash, item
<1>6. ASSUME NEW c \in Signing, Begins(c) PROVE InBudget'
  BY <1>6, <1>s DEF Begins, First, Second, Revoke, Begin, Goto, item, TypeOK
<1>7. ASSUME NEW c \in Signing, Validate(c) PROVE InBudget'
  <2>1. CASE Return(c)  BY <1>7, <2>1, <1>r DEF Validate, item, counts
  <2>2. CASE ~Return(c)
    BY <1>7, <2>2, <1>s DEF Validate, Goto, item, counts, TypeOK
  <2> QED BY <2>1, <2>2
<1>8. ASSUME NEW c \in Signing, Sign(c) PROVE InBudget'
  BY <1>8, <1>r DEF Sign, counts
<1> QED BY <1>1, <1>2, <1>3, <1>4, <1>5, <1>6, <1>7, <1>8 DEF Next, Begins

\* Approvers see one card, and one more for each crash, failure or lost answer,
\* however many requests, sweeps and signatures interleave.
THEOREM OneCardPerTrouble == Spec => []CardBudget
<1>1. Init => CardsKept
  BY DEF Init, CardsKept, Kept, NoMeta, Call
<1>2. Init => InBudget
  <2> SUFFICES ASSUME Init PROVE InBudget
    OBVIOUS
  <2>1. Owing = {}  BY DEF Init, Owing, Owes, Sends, Call
  <2> QED BY <2>1, FS_EmptySet DEF Init, InBudget
<1>3. TypeOK /\ InBudget => CardBudget
  <2> SUFFICES ASSUME TypeOK, InBudget PROVE CardBudget
    OBVIOUS
  <2>1. Cardinality(Owing) \in Nat  BY FS_CardinalityType DEF InBudget
  <2> QED BY <2>1 DEF InBudget, CardBudget, TypeOK
<1> QED BY <1>1, <1>2, <1>3, CardsKeptStep, InBudgetStep, ApprovalsTypeCorrect, PTL
        DEF Spec
=============================================================================
