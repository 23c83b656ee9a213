------------------------- MODULE APItemStore_proofs -------------------------
(***************************************************************************)
(* Theorems about APItemStore for any number of writers, flags and codes,  *)
(* none of which holds a lock: the writes of a row implement APLifecycle,  *)
(* overwrites included, and what the lifecycle promises holds of the row.  *)
(***************************************************************************)
EXTENDS APItemStore, TLAPS

\* A request carries the argument its kind takes.
OpFits ==
  \A w \in Writer :
    /\ op[w].kind \in {"move", "cas"} => op[w].arg \in Target
    /\ op[w].kind = "snooze" => op[w].arg \in L!SNOOZEABLE_STATES
    /\ op[w].kind = "unsnooze" => op[w].arg \in L!SNOOZEABLE_STATES \cup {"none"}
    /\ op[w].kind \in {"flag", "resolve"} => op[w].arg \in Flag
    /\ op[w].kind = "raise" => op[w].arg \in Code

\* What a caller read of the row stays true until another moves the row.
ReadHolds ==
  \A w \in Writer : pc[w] \in {"check", "commit"} /\ ~overtaken[w] =>
    /\ op[w].kind \in {"move", "cas"} => (state = "snoozed" => op[w].arg = "closed")
    /\ op[w].kind = "snooze" =>
         op[w].arg = state /\ state \in L!SNOOZEABLE_STATES
    /\ op[w].kind = "unsnooze" => op[w].arg = preSnooze /\ state = "snoozed"

\* A state that reaches the UPDATE was validated against the state read with
\* it, which is the row's unless another writer has moved the row.
Validated ==
  \A w \in Writer : pc[w] = "commit" /\ op[w].kind \in StateOps =>
    /\ ValidTransition(read[w].prev, NewState(op[w]))
    /\ fresh[w] \/ ~overtaken[w] => read[w].prev = state

\* The newest audit row tells the state of the item.
AuditTells == ~lost => audited.to = state

-----------------------------------------------------------------------------
(* The lifecycle speaks of the same states and the same graph. *)

LEMMA SameStates == L!APState = APState
BY DEF L!APState, APState

LEMMA SameGraph == \A s, t : L!ValidTransition(s, t) <=> ValidTransition(s, t)
BY SameStates DEF L!ValidTransition, ValidTransition, L!VALID_TRANSITIONS,
                  VALID_TRANSITIONS

-----------------------------------------------------------------------------
(* Types *)

PCType   == [Writer -> {"idle", "check", "commit", "mirror"}]
OpType   == [Writer -> [kind : OpKinds \cup {"none"}, arg : Args]]
ReadType == [Writer -> [flags : FlagList, exc : Code \cup {NoCode}, prev : APState]]

\* The empty registers are registers.
LEMMA EmptyFits ==
  /\ Nothing \in [kind : OpKinds \cup {"none"}, arg : Args] /\ Nothing.kind = "none"
  /\ NoRead \in [flags : FlagList, exc : Code \cup {NoCode}, prev : APState]
BY DEF Nothing, Request, Args, NoRead, FlagList, APState

LEMMA InitType == Init => TypeOK
<1> SUFFICES ASSUME Init PROVE TypeOK
  OBVIOUS
<1>1. flags \in FlagList
  BY DEF Init, FlagList
<1>2. read \in ReadType /\ op \in OpType
  BY EmptyFits DEF Init, ReadType, OpType
<1>3. tries \in [Writer -> 0 .. CASAttempts - 1]
  BY StoreAssumption DEF Init
<1>4. L!LifecycleType /\ audited \in [to : APState, gap : BOOLEAN]
  BY SameStates DEF Init, L!LifecycleType, APState
<1>5. /\ pc \in PCType /\ fresh \in [Writer -> BOOLEAN]
      /\ overtaken \in [Writer -> BOOLEAN] /\ lost \in BOOLEAN
      /\ excCode \in Code \cup {NoCode} /\ openExc \in SUBSET Code
      /\ outcome \in Outcomes \cup {"none"}
  BY DEF Init, PCType
<1> QED BY <1>1, <1>2, <1>3, <1>4, <1>5 DEF TypeOK, PCType, OpType, ReadType

\* What a fitting request asks for is a state.
LEMMA NewStateType ==
  ASSUME OpFits, NEW w \in Writer, op[w].kind \in StateOps
  PROVE  NewState(op[w]) \in APState
BY StoreAssumption
   DEF OpFits, NewState, L!RestoreState, L!SNOOZEABLE_STATES, StateOps, APState

\* What a caller asks for fits, and is true of the row it has just read.
LEMMA RequestFits ==
  ASSUME TypeOK, NEW w \in Writer, NEW o \in Requests(w)
  PROVE  /\ o \in [kind : OpKinds \cup {"none"}, arg : Args]
         /\ o.kind \in {"move", "cas"} =>
              o.arg \in Target /\ (state = "snoozed" => o.arg = "closed")
         /\ o.kind = "snooze" => o.arg = state /\ state \in L!SNOOZEABLE_STATES
         /\ o.kind = "unsnooze" => o.arg = preSnooze /\ state = "snoozed"
         /\ o.kind \in {"flag", "resolve"} => o.arg \in Flag
         /\ o.kind = "raise" => o.arg \in Code
<1>1. o \in [kind : Op[w], arg : Args]
  BY DEF Requests
<1>2. Op[w] \subseteq OpKinds
  BY StoreAssumption
<1> QED BY <1>1, <1>2 DEF Requests, OpKinds

\* A read leaves well-formed registers.
LEMMA ReadFits ==
  ASSUME TypeOK, NEW w \in Writer, ReadRow(w)
  PROVE  read' \in ReadType /\ fresh' \in [Writer -> BOOLEAN]
BY DEF TypeOK, ReadRow, ReadType

\* The end of a write leaves well-formed registers.
LEMMA FinishFits ==
  ASSUME TypeOK, OpFits, NEW w \in Writer, Finish(w)
  PROVE  /\ pc' \in PCType /\ op' \in OpType /\ read' \in ReadType
         /\ tries' \in [Writer -> 0 .. CASAttempts - 1]
         /\ OpFits'
<1>1. op' = [op EXCEPT ![w] = Nothing] /\ read' = [read EXCEPT ![w] = NoRead]
  BY DEF Finish
<1>2. op' \in OpType /\ read' \in ReadType
  BY <1>1, EmptyFits DEF TypeOK, OpType, ReadType
<1>3. OpFits'
  <2> SUFFICES ASSUME NEW v \in Writer
               PROVE  op'[v] = op[v] \/ op'[v].kind = "none"
    BY DEF OpFits
  <2> QED BY <1>1, EmptyFits DEF TypeOK
<1> QED BY <1>2, <1>3, StoreAssumption DEF TypeOK, Finish, Goto, PCType

LEMMA AbandonFits ==
  ASSUME TypeOK, OpFits, NEW w \in Writer, Abandon(w)
  PROVE  /\ pc' \in PCType /\ op' \in OpType /\ read' \in ReadType
         /\ tries' \in [Writer -> 0 .. CASAttempts - 1]
         /\ fresh' \in [Writer -> BOOLEAN] /\ overtaken' \in [Writer -> BOOLEAN]
         /\ OpFits'
BY FinishFits DEF Abandon, TypeOK

LEMMA AfterCommitFits ==
  ASSUME TypeOK, OpFits, NEW w \in Writer, AfterCommit(w)
  PROVE  /\ pc' \in PCType /\ op' \in OpType /\ read' \in ReadType
         /\ tries' \in [Writer -> 0 .. CASAttempts - 1]
         /\ OpFits'
<1>1. CASE NewState(op[w]) \in Outcomes
  BY <1>1 DEF AfterCommit, Goto, TypeOK, OpFits, PCType, OpType, ReadType
<1>2. CASE NewState(op[w]) \notin Outcomes
  BY <1>2, FinishFits DEF AfterCommit
<1> QED BY <1>1, <1>2

\* Each step writes a member of the right set.
LEMMA TypeStep == TypeOK /\ OpFits /\ [Next]_vars => TypeOK' /\ OpFits'
<1> SUFFICES ASSUME TypeOK, OpFits, [Next]_vars PROVE TypeOK' /\ OpFits'
  OBVIOUS
<1> USE StoreAssumption
    DEF TypeOK, L!LifecycleType, Goto, Touch, row, side, local, ghost, PCType, OpType,
        ReadType
<1>0. CASE UNCHANGED vars  BY <1>0 DEF vars, OpFits
<1>1. ASSUME NEW w \in Writer, WriterStep(w) PROVE TypeOK' /\ OpFits'
  <2>1. CASE Begin(w)
    <3>1. PICK o \in Requests(w) : op' = [op EXCEPT ![w] = o]
      BY <2>1 DEF Begin
    <3>2. op' \in OpType
      BY <3>1, RequestFits
    <3>3. OpFits'
      <4>1. /\ o.kind \in {"move", "cas"} => o.arg \in Target
            /\ o.kind = "snooze" => o.arg \in L!SNOOZEABLE_STATES
            /\ o.kind = "unsnooze" => o.arg \in L!SNOOZEABLE_STATES \cup {"none"}
            /\ o.kind \in {"flag", "resolve"} => o.arg \in Flag
            /\ o.kind = "raise" => o.arg \in Code
        BY RequestFits
      <4>2. \A v \in Writer : op'[v] = op[v] \/ op'[v] = o
        BY <3>1
      <4> HIDE DEF TypeOK
      <4> QED BY <4>1, <4>2 DEF OpFits
    <3>4. ReadRow(w)  BY <2>1 DEF Begin
    <3> QED BY <2>1, <3>2, <3>3, <3>4, ReadFits DEF Begin
  <2>2. CASE Check(w)
    <3>1. state \in APState /\ excCode \in Code \cup {NoCode}
      BY SameStates
    <3>2. [flags |-> read[w].flags, exc |-> excCode, prev |-> state]
            \in [flags : FlagList, exc : Code \cup {NoCode}, prev : APState]
      BY <3>1
    <3>3. read' = [read EXCEPT ![w] = [flags |-> read[w].flags, exc |-> excCode,
                                       prev |-> state]]
      BY <2>2 DEF Check
    <3>4. read' \in ReadType
      BY <3>2, <3>3
    <3> QED BY <2>2, <3>4 DEF Check, OpFits
  <2>3. CASE Reject(w)  BY <2>3, AbandonFits DEF Reject
  <2>4. CASE CommitState(w)
    <3>1. NewState(op[w]) \in APState  BY <2>4, NewStateType DEF CommitState
    <3>2. preSnooze' \in L!SNOOZEABLE_STATES \cup {"none"}
      BY <2>4 DEF CommitState, PreSnoozeAfter, StateOps, OpFits
    <3>3. approved' \in BOOLEAN /\ late' \in BOOLEAN
      BY <2>4 DEF CommitState, L!ApprovedAfter, L!LateAfter
    <3>4. audited' \in [to : APState, gap : BOOLEAN]
      BY <2>4, <3>1 DEF CommitState, Audit
    <3>5. AfterCommit(w)  BY <2>4 DEF CommitState
    <3> QED BY <2>4, <3>1, <3>2, <3>3, <3>4, <3>5, AfterCommitFits, SameStates DEF CommitState
  <2>5. CASE CommitStateStale(w)
    <3>1. NewState(op[w]) \in APState  BY <2>5, NewStateType DEF CommitStateStale
    <3>2. audited' \in [to : APState, gap : BOOLEAN]
      BY <2>5, <3>1 DEF CommitStateStale, Audit
    <3>3. AfterCommit(w)  BY <2>5 DEF CommitStateStale
    <3> QED BY <2>5, <3>2, <3>3, AfterCommitFits DEF CommitStateStale
  <2>6. CASE CommitFlags(w)
    <3>1. op[w].arg \in Flag  BY <2>6 DEF CommitFlags, OpFits
    <3>2. flags' \in FlagList
      BY <2>6, <3>1 DEF CommitFlags, FlagList
    <3> QED BY <2>6, <3>2, FinishFits DEF CommitFlags
  <2>7. CASE RetryFlags(w)
    <3>1. CASE tries[w] + 1 < CASAttempts
      <4>1. tries[w] + 1 \in 0 .. CASAttempts - 1
        BY <3>1
      <4>2. tries' = [tries EXCEPT ![w] = tries[w] + 1]
        BY <2>7, <3>1 DEF RetryFlags
      <4>3. tries' \in [Writer -> 0 .. CASAttempts - 1]
        BY <4>1, <4>2
      <4>4. ReadRow(w)  BY <2>7, <3>1 DEF RetryFlags
      <4> QED BY <2>7, <3>1, <4>3, <4>4, ReadFits DEF RetryFlags, OpFits
    <3>2. CASE ~(tries[w] + 1 < CASAttempts)
      BY <2>7, <3>2, AbandonFits DEF RetryFlags
    <3> QED BY <3>1, <3>2
  <2>8. CASE CommitException(w)
    <3>1. op[w].kind = "raise" => op[w].arg \in Code
      BY <2>8 DEF OpFits
    <3> QED BY <2>8, <3>1 DEF CommitException, OpFits
  <2>9. CASE MirrorOutcome(w)
    BY <2>9, AbandonFits DEF MirrorOutcome
  <2>10. CASE MirrorException(w)
    <3>1. op[w].kind = "raise" => op[w].arg \in Code
      BY <2>10 DEF OpFits
    <3>2. openExc' \in SUBSET Code
      BY <2>10, <3>1 DEF MirrorException
    <3> QED BY <2>10, <3>2, AbandonFits DEF MirrorException
  <2>11. CASE Crash(w)  BY <2>11, AbandonFits DEF Crash
  <2> QED BY <1>1, <2>1, <2>2, <2>3, <2>4, <2>5, <2>6, <2>7, <2>8, <2>9, <2>10,
             <2>11 DEF WriterStep
<1> HIDE DEF TypeOK
<1> QED BY <1>0, <1>1 DEF Next

TypeInvariant == TypeOK /\ OpFits

LEMMA InitTypeInvariant == Init => TypeInvariant
BY InitType DEF Init, TypeInvariant, OpFits, Nothing, Request

\* Every variable of the store stays in its set, whoever writes when.
THEOREM StoreTypeCorrect == Spec => []TypeOK
<1>1. TypeInvariant /\ [Next]_vars => TypeInvariant'
  BY TypeStep DEF TypeInvariant
<1>2. TypeInvariant => TypeOK
  BY DEF TypeInvariant
<1> QED BY <1>1, <1>2, InitTypeInvariant, PTL DEF Spec

-----------------------------------------------------------------------------
(* The lifecycle *)

\* The inductive invariant of the lifecycle: an approval stands wherever the
\* item can be posted from, and a snooze only remembers snoozeable states.
LifecycleInvariant == L!LifecycleType /\ L!ApprovedBeforePosting

LEMMA LifecycleInit == L!Init => LifecycleInvariant
BY DEF L!Init, LifecycleInvariant, L!LifecycleType, L!ApprovedBeforePosting,
       L!AfterApproval, L!APState

LEMMA LifecycleStep ==
  LifecycleInvariant /\ [L!Next]_(L!lifecycle) => LifecycleInvariant'
<1> SUFFICES ASSUME LifecycleInvariant, [L!Next]_(L!lifecycle)
             PROVE  LifecycleInvariant'
  OBVIOUS
<1> USE DEF LifecycleInvariant, L!LifecycleType, L!ApprovedBeforePosting,
            L!AfterApproval, L!ApprovedAfter, L!LateAfter, L!Undecided, L!Enter,
            L!ValidTransition, L!VALID_TRANSITIONS, L!APState,
            L!SNOOZEABLE_STATES
<1>1. CASE UNCHANGED L!lifecycle  BY <1>1 DEF L!lifecycle
<1>2. CASE L!Snooze  BY <1>2 DEF L!Snooze
<1>3. CASE L!Unsnooze  BY <1>3 DEF L!Unsnooze, L!RestoreState
<1>4. ASSUME NEW t \in L!APState, L!Move(t) PROVE LifecycleInvariant'
  BY <1>4 DEF L!Move
<1>5. ASSUME NEW t \in L!APState, L!Overwrite(t) PROVE LifecycleInvariant'
  BY <1>5 DEF L!Overwrite
<1> QED BY <1>1, <1>2, <1>3, <1>4, <1>5 DEF L!Next

\* Nothing is ever posted, retried or paid without a standing approval, except
\* after an overwrite: a property of the transition graph with its snoozes.
THEOREM LifecycleApprovedBeforePosting == L!Spec => []L!ApprovedBeforePosting
<1>1. LifecycleInvariant => L!ApprovedBeforePosting
  BY DEF LifecycleInvariant
<1> QED BY <1>1, LifecycleInit, LifecycleStep, PTL DEF L!Spec

\* An item that was posted is not back where it could be posted again, unless
\* it was overwritten.
THEOREM LifecyclePostedStays == L!Spec => L!PostedStays
<1>1. [L!Next]_(L!lifecycle)
        => [(state \in L!AfterPosting)
              => (state' \in L!AfterPosting \/ late')]_(L!lifecycle)
  <2> SUFFICES ASSUME L!Next, state \in L!AfterPosting, ~late'
               PROVE  state' \in L!AfterPosting
    OBVIOUS
  <2> QED
    BY DEF L!Next, L!Snooze, L!Unsnooze, L!Move, L!Enter, L!Overwrite, L!AfterPosting,
           L!ValidTransition, L!VALID_TRANSITIONS, L!APState,
           L!SNOOZEABLE_STATES
<1> QED BY <1>1, PTL DEF L!Spec, L!PostedStays

-----------------------------------------------------------------------------
(* The writes of a state *)

\* What relates a write to the row it writes.
StoreInvariant == TypeInvariant /\ ReadHolds /\ Validated

\* Only CommitState changes what the lifecycle sees of the row, and only a
\* stale compare-and-swap also leaves an audit row.
LEMMA OthersStutter ==
  ASSUME NEW w \in Writer, WriterStep(w), ~CommitState(w)
  PROVE  /\ UNCHANGED L!lifecycle
         /\ CommitStateStale(w) \/ UNCHANGED <<audited, lost>>
BY DEF WriterStep, Begin, Check, Reject, CommitStateStale, CommitFlags,
       RetryFlags, CommitException, MirrorOutcome, MirrorException, Crash,
       row, ghost, L!lifecycle

\* The registers of the other writers, but fresh and overtaken, are their own.
LEMMA OthersKeep ==
  ASSUME TypeInvariant, NEW w \in Writer, WriterStep(w), NEW v \in Writer \ {w}
  PROVE  /\ pc'[v] = pc[v] /\ op'[v] = op[v] /\ read'[v] = read[v]
         /\ fresh'[v] => fresh[v]
         /\ ~CommitState(w) => overtaken'[v] = overtaken[v]
<1> USE DEF TypeInvariant, TypeOK, Goto, ReadRow, Touch, Finish, Abandon, AfterCommit,
            local, ghost
<1>1. CASE Begin(w)  BY <1>1 DEF Begin
<1>2. CASE Check(w)  BY <1>2 DEF Check
<1>3. CASE Reject(w)  BY <1>3 DEF Reject
<1>4. CASE CommitState(w)
  <2>1. CASE NewState(op[w]) \in Outcomes  BY <1>4, <2>1 DEF CommitState
  <2>2. CASE NewState(op[w]) \notin Outcomes  BY <1>4, <2>2 DEF CommitState
  <2> QED BY <2>1, <2>2
<1>5. CASE CommitStateStale(w)
  <2>1. CASE NewState(op[w]) \in Outcomes  BY <1>5, <2>1 DEF CommitStateStale
  <2>2. CASE NewState(op[w]) \notin Outcomes  BY <1>5, <2>2 DEF CommitStateStale
  <2> QED BY <2>1, <2>2
<1>6. CASE CommitFlags(w)  BY <1>6 DEF CommitFlags
<1>7. CASE RetryFlags(w)
  <2>1. CASE tries[w] + 1 < CASAttempts  BY <1>7, <2>1 DEF RetryFlags
  <2>2. CASE ~(tries[w] + 1 < CASAttempts)  BY <1>7, <2>2 DEF RetryFlags
  <2> QED BY <2>1, <2>2
<1>8. CASE CommitException(w)  BY <1>8 DEF CommitException
<1>9. CASE MirrorOutcome(w)  BY <1>9 DEF MirrorOutcome
<1>10. CASE MirrorException(w)  BY <1>10 DEF MirrorException
<1>11. CASE Crash(w)  BY <1>11 DEF Crash
<1> QED BY <1>1, <1>2, <1>3, <1>4, <1>5, <1>6, <1>7, <1>8, <1>9, <1>10, <1>11
        DEF WriterStep

\* Whoever ends or retries a write is at no validated state.
LEMMA OwnEnd ==
  ASSUME TypeInvariant, NEW w \in Writer, WriterStep(w), ~Begin(w), ~Check(w)
  PROVE  \/ pc'[w] \notin {"check", "commit"}
         \/ op'[w].kind \notin StateOps
<1> USE EmptyFits DEF TypeInvariant, TypeOK, Goto, Finish, Abandon, AfterCommit, StateOps
<1>3. CASE Reject(w)  BY <1>3 DEF Reject
<1>4. CASE CommitState(w)
  <2>1. CASE NewState(op[w]) \in Outcomes  BY <1>4, <2>1 DEF CommitState
  <2>2. CASE NewState(op[w]) \notin Outcomes  BY <1>4, <2>2 DEF CommitState
  <2> QED BY <2>1, <2>2
<1>5. CASE CommitStateStale(w)
  <2>1. CASE NewState(op[w]) \in Outcomes  BY <1>5, <2>1 DEF CommitStateStale
  <2>2. CASE NewState(op[w]) \notin Outcomes  BY <1>5, <2>2 DEF CommitStateStale
  <2> QED BY <2>1, <2>2
<1>6. CASE CommitFlags(w)  BY <1>6 DEF CommitFlags
<1>7. CASE RetryFlags(w)
  <2>1. CASE tries[w] + 1 < CASAttempts  BY <1>7, <2>1 DEF RetryFlags
  <2>2. CASE ~(tries[w] + 1 < CASAttempts)  BY <1>7, <2>2 DEF RetryFlags
  <2> QED BY <2>1, <2>2
<1>8. CASE CommitException(w)  BY <1>8 DEF CommitException
<1>9. CASE MirrorOutcome(w)  BY <1>9 DEF MirrorOutcome
<1>10. CASE MirrorException(w)  BY <1>10 DEF MirrorException
<1>11. CASE Crash(w)  BY <1>11 DEF Crash
<1> QED BY <1>3, <1>4, <1>5, <1>6, <1>7, <1>8, <1>9, <1>10, <1>11 DEF WriterStep

\* A commit overtakes and outdates every write in progress.
LEMMA CommitOvertakes ==
  ASSUME NEW w \in Writer, CommitState(w), NEW v \in Writer \ {w}, pc[v] # "idle"
  PROVE  overtaken'[v] /\ ~fresh'[v]
BY DEF CommitState, Touch

LEMMA StoreInvariantStep ==
  StoreInvariant /\ [Next]_vars => StoreInvariant'
<1> SUFFICES ASSUME StoreInvariant, [Next]_vars PROVE StoreInvariant'
  OBVIOUS
<1>0. TypeInvariant'  BY TypeStep DEF StoreInvariant, TypeInvariant
<1>1. CASE UNCHANGED vars
  BY <1>0, <1>1 DEF vars, row, local, ghost, StoreInvariant, ReadHolds, Validated
<1>2. ASSUME NEW w \in Writer, WriterStep(w) PROVE ReadHolds' /\ Validated'
  <2>1. UNCHANGED <<state, preSnooze>> \/ CommitState(w)
    BY <1>2, OthersStutter DEF L!lifecycle
  <2>2. ASSUME NEW v \in Writer \ {w}, pc'[v] \in {"check", "commit"}, CommitState(w)
        PROVE  overtaken'[v] /\ ~fresh'[v]
    BY <1>2, <2>2, OthersKeep, CommitOvertakes DEF StoreInvariant
  <2>3. CASE Begin(w)
    <3>1. PICK o \in Requests(w) : op' = [op EXCEPT ![w] = o]
      BY <2>3 DEF Begin
    <3>2. op'[w] = o /\ pc'[w] = "check" /\ UNCHANGED <<state, preSnooze>>
      BY <2>3, <3>1 DEF Begin, Goto, row, StoreInvariant, TypeInvariant, TypeOK
    <3>3. ReadHolds'
      BY <1>2, <2>2, <3>2, OthersKeep, RequestFits
         DEF StoreInvariant, ReadHolds, TypeInvariant, CommitState
    <3>4. Validated'
      BY <1>2, <2>2, <3>2, OthersKeep DEF StoreInvariant, Validated, CommitState
    <3> QED BY <3>3, <3>4
  <2>4. CASE Check(w)
    <3>1. /\ op'[w] = op[w] /\ pc'[w] = "commit" /\ UNCHANGED <<state, preSnooze>>
          /\ pc[w] = "check" /\ read'[w].prev = state /\ overtaken'[w] = overtaken[w]
      BY <2>4 DEF Check, Goto, row, ghost, StoreInvariant, TypeInvariant, TypeOK
    <3>2. op[w].kind \in StateOps => ValidTransition(state, NewState(op[w]))
      BY <2>4 DEF Check, Allowed
    <3>3. ReadHolds'
      BY <1>2, <3>1, <2>1, <2>2, OthersKeep DEF StoreInvariant, ReadHolds, CommitState
    <3>4. Validated'
      BY <1>2, <3>1, <3>2, <2>1, <2>2, OthersKeep DEF StoreInvariant, Validated, CommitState
    <3> QED BY <3>3, <3>4
  <2>5. CASE ~Begin(w) /\ ~Check(w)
    <3>1. pc'[w] \notin {"check", "commit"} \/ op'[w].kind \notin StateOps
      BY <1>2, <2>5, OwnEnd DEF StoreInvariant
    <3>2. ReadHolds'
      BY <1>2, <3>1, <2>1, <2>2, OthersKeep DEF StoreInvariant, ReadHolds, StateOps
    <3>3. Validated'
      BY <1>2, <3>1, <2>1, <2>2, OthersKeep DEF StoreInvariant, Validated
    <3> QED BY <3>2, <3>3
  <2> QED BY <2>3, <2>4, <2>5
<1> QED BY <1>0, <1>1, <1>2 DEF StoreInvariant, Next

LEMMA InitStoreInvariant == Init => StoreInvariant
BY InitTypeInvariant DEF Init, StoreInvariant, ReadHolds, Validated

\* The UPDATE of a write that nobody overtook is a move, a snooze or an unsnooze.
LEMMA CommitRefines ==
  ASSUME StoreInvariant, NEW w \in Writer, CommitState(w)
  PROVE  L!Next
<1> DEFINE o == op[w]
<1>1. /\ state' = NewState(o) /\ preSnooze' = PreSnoozeAfter(o)
      /\ approved' = L!ApprovedAfter(approved, NewState(o))
      /\ late' = (overtaken[w] \/ L!LateAfter(late, NewState(o)))
      /\ NewState(o) \in L!APState
  BY NewStateType, SameStates DEF CommitState, StoreInvariant, TypeInvariant
<1>2. CASE overtaken[w]
  <2>1. preSnooze' \in L!SNOOZEABLE_STATES \cup {"none"}
    BY <1>1 DEF CommitState, PreSnoozeAfter, StateOps, StoreInvariant, TypeInvariant,
         TypeOK, L!LifecycleType, OpFits
  <2> QED BY <1>1, <1>2, <2>1 DEF L!Next, L!Overwrite
<1>3. CASE ~overtaken[w]
  <2>1. ValidTransition(state, NewState(o))
    BY <1>3 DEF StoreInvariant, Validated, CommitState
  <2>2. L!Enter(NewState(o))
    BY <1>1, <1>3 DEF L!Enter, L!LateAfter
  <2>3. CASE o.kind \in {"move", "cas"}
    <3>1. o.arg \in Target /\ (state = "snoozed" => o.arg = "closed")
      BY <1>3, <2>3 DEF StoreInvariant, ReadHolds, CommitState, TypeInvariant, OpFits
    <3>2. NewState(o) = o.arg /\ PreSnoozeAfter(o) = preSnooze
      BY <2>3 DEF NewState, PreSnoozeAfter
    <3>3. o.arg \in L!APState /\ o.arg # "snoozed"
      BY <3>1, StoreAssumption, SameStates
    <3>4. L!Move(o.arg)
      BY <1>1, <2>1, <2>2, <3>1, <3>2, <3>3, SameGraph DEF L!Move
    <3> QED BY <3>3, <3>4 DEF L!Next
  <2>4. CASE o.kind = "snooze"
    <3>1. o.arg = state /\ state \in L!SNOOZEABLE_STATES
      BY <1>3, <2>4 DEF StoreInvariant, ReadHolds, CommitState
    <3>2. NewState(o) = "snoozed" /\ PreSnoozeAfter(o) = state
      BY <2>4, <3>1 DEF NewState, PreSnoozeAfter
    <3> QED BY <1>1, <2>1, <2>2, <3>1, <3>2, SameGraph DEF L!Snooze, L!Next
  <2>5. CASE o.kind = "unsnooze"
    <3>1. o.arg = preSnooze /\ state = "snoozed"
      BY <1>3, <2>5 DEF StoreInvariant, ReadHolds, CommitState
    <3>2. NewState(o) = L!RestoreState(preSnooze) /\ PreSnoozeAfter(o) = "none"
      BY <2>5, <3>1 DEF NewState, PreSnoozeAfter
    <3> QED BY <1>1, <2>1, <2>2, <3>1, <3>2, SameGraph DEF L!Unsnooze, L!Next
  <2> QED BY <2>3, <2>4, <2>5 DEF CommitState, StateOps
<1> QED BY <1>2, <1>3

LEMMA StepRefines ==
  StoreInvariant /\ [Next]_vars => [L!Next]_(L!lifecycle)
<1> SUFFICES ASSUME StoreInvariant, [Next]_vars
             PROVE  L!Next \/ UNCHANGED L!lifecycle
  OBVIOUS
<1>1. CASE UNCHANGED vars  BY <1>1 DEF vars, row, ghost, L!lifecycle
<1>2. CASE Next  BY <1>2, CommitRefines, OthersStutter DEF Next
<1> QED BY <1>1, <1>2

\* Callers that hold no lock implement the life of an AP item: any interleaving
\* of their reads, validations, commits and crashes is a sequence of moves,
\* snoozes, unsnoozes and overwrites.
THEOREM StoreImplementsLifecycle == Spec => ImplementsLifecycle
<1>1. Init => L!Init
  BY DEF Init, L!Init
<1> QED BY <1>1, InitStoreInvariant, StoreInvariantStep, StepRefines, PTL
        DEF Spec, ImplementsLifecycle, L!Spec

\* What the lifecycle promises holds of the row: an item is posted or retried
\* without a standing approval only after an overwrite, until the next decision.
THEOREM StoreApprovedBeforePosting == Spec => []ApprovedBeforePosting
BY StoreImplementsLifecycle, LifecycleApprovedBeforePosting, PTL
   DEF ImplementsLifecycle, ApprovedBeforePosting

\* A commit off the graph writes over a state it did not validate.
LEMMA CommitIsLegal ==
  ASSUME StoreInvariant, NEW w \in Writer, CommitState(w)
  PROVE  \/ ValidTransition(state, state')
         \/ WritesOver(w)
<1>1. /\ op[w].kind \in StateOps /\ pc[w] = "commit" /\ state' = NewState(op[w])
      /\ op[w].kind \in CASOps => fresh[w]
  BY DEF CommitState, MatchesRow
<1>2. /\ ValidTransition(read[w].prev, NewState(op[w]))
      /\ fresh[w] => read[w].prev = state
  BY <1>1 DEF StoreInvariant, Validated
<1>3. pc'[w] # "commit"
  <2>1. CASE NewState(op[w]) \in Outcomes
    BY <2>1 DEF CommitState, AfterCommit, Goto, StoreInvariant, TypeInvariant, TypeOK
  <2>2. CASE NewState(op[w]) \notin Outcomes
    BY <2>2 DEF CommitState, AfterCommit, Finish, Goto, StoreInvariant, TypeInvariant,
         TypeOK
  <2> QED BY <2>1, <2>2
<1> QED BY <1>1, <1>2, <1>3 DEF WritesOver

\* The row leaves the transition graph only where a caller that does not compare
\* updated_at writes over a state it did not validate.
THEOREM StoreLegalStep == Spec => LegalStep
<1>1. StoreInvariant /\ [Next]_vars
        => [state' # state /\ ~ValidTransition(state, state')
              => \E w \in Writer : WritesOver(w)]_vars
  <2> SUFFICES ASSUME StoreInvariant, NEW w \in Writer, WriterStep(w),
                      state' # state, ~ValidTransition(state, state')
               PROVE  WritesOver(w)
    BY DEF Next
  <2>1. CommitState(w)
    BY OthersStutter DEF L!lifecycle
  <2> QED BY <2>1, CommitIsLegal
<1> QED BY <1>1, InitStoreInvariant, StoreInvariantStep, PTL DEF Spec, LegalStep

\* Until a compare-and-swap has lost, the newest audit row tells the state of the
\* item, and a step off the graph leaves a gap between two audit rows.
THEOREM StoreAuditShowsRaces == Spec => AuditShowsRaces
<1>1. Init => AuditTells
  BY DEF Init, AuditTells
<1> DEFINE Shown == ~lost' => /\ audited'.to = state'
                              /\ state' # state /\ ~ValidTransition(state, state')
                                   => audited'.gap
<1>2. StoreInvariant /\ AuditTells /\ [Next]_vars => AuditTells' /\ [Shown]_vars
  <2> SUFFICES ASSUME StoreInvariant, AuditTells, [Next]_vars PROVE AuditTells' /\ Shown
    OBVIOUS
  <2>1. ASSUME NEW w \in Writer, CommitState(w) PROVE AuditTells' /\ Shown
    <3>1. /\ audited' = [to |-> state', gap |-> read[w].prev # audited.to]
          /\ lost' = lost
      BY <2>1 DEF CommitState, Audit
    <3>2. ~ValidTransition(state, state') => read[w].prev # state
      BY <2>1, CommitIsLegal DEF WritesOver
    <3> QED BY <3>1, <3>2 DEF AuditTells
  <2>2. ASSUME NEW w \in Writer, CommitStateStale(w) PROVE AuditTells' /\ Shown
    BY <2>2 DEF CommitStateStale, AuditTells
  <2>3. ASSUME UNCHANGED <<state, audited, lost>> PROVE AuditTells' /\ Shown
    BY <2>3 DEF AuditTells
  <2>4. CASE UNCHANGED vars  BY <2>3, <2>4 DEF vars, row, ghost
  <2> QED BY <2>1, <2>2, <2>3, <2>4, OthersStutter DEF Next, L!lifecycle
<1> QED BY <1>1, <1>2, InitStoreInvariant, StoreInvariantStep, PTL
        DEF Spec, AuditShowsRaces

-----------------------------------------------------------------------------
(* The writes of a flag *)

\* A writer that is fresh at its commit has the flags of the row, the flag it
\* adds is nobody else's and not there yet, and the one it resolves is.
FlagsHeld ==
  \A w \in Writer :
    /\ pc[w] # "idle" /\ op[w].kind \in {"flag", "resolve"} /\ fresh[w]
         => read[w].flags = flags
    /\ op[w].kind = "flag" =>
         /\ flags[op[w].arg] = "none"
         /\ \A v \in Writer \ {w} : op[v] # op[w]
    /\ op[w].kind = "resolve" => flags[op[w].arg] # "none"

\* The writes of anything but flags.
LEMMA OthersKeepFlags ==
  ASSUME TypeInvariant, FlagsHeld, NEW w \in Writer, WriterStep(w),
         ~Begin(w), ~CommitFlags(w), ~RetryFlags(w)
  PROVE  FlagsHeld' /\ flags' = flags
<1> USE DEF TypeInvariant, TypeOK, FlagsHeld, Goto, Finish, Abandon, AfterCommit, Touch, Nothing, Request, row,
       local,
       StateOps
<1>2. CASE Check(w)  BY <1>2 DEF Check
<1>3. CASE Reject(w)  BY <1>3 DEF Reject
<1>4. CASE CommitState(w)
  <2>1. CASE NewState(op[w]) \in Outcomes  BY <1>4, <2>1 DEF CommitState
  <2>2. CASE NewState(op[w]) \notin Outcomes  BY <1>4, <2>2 DEF CommitState
  <2> QED BY <2>1, <2>2
<1>5. CASE CommitStateStale(w)
  <2>1. CASE NewState(op[w]) \in Outcomes  BY <1>5, <2>1 DEF CommitStateStale
  <2>2. CASE NewState(op[w]) \notin Outcomes  BY <1>5, <2>2 DEF CommitStateStale
  <2> QED BY <2>1, <2>2
<1>8. CASE CommitException(w)  BY <1>8 DEF CommitException
<1>9. CASE MirrorOutcome(w)  BY <1>9 DEF MirrorOutcome
<1>10. CASE MirrorException(w)  BY <1>10 DEF MirrorException
<1>11. CASE Crash(w)  BY <1>11 DEF Crash
<1> QED BY <1>2, <1>3, <1>4, <1>5, <1>8, <1>9, <1>10, <1>11 DEF WriterStep

LEMMA CommitKeepsFlags ==
  ASSUME TypeInvariant, FlagsHeld, NEW w \in Writer, CommitFlags(w)
  PROVE  FlagsHeld' /\ KeepFlags
<1> DEFINE o == op[w]
<1>1. o.arg \in Flag /\ o.kind \in {"flag", "resolve"} /\ fresh[w] /\ pc[w] = "commit"
  BY DEF CommitFlags, MatchesRow, CASOps, TypeInvariant, OpFits
<1>2. flags' = [flags EXCEPT ![o.arg] = IF o.kind = "flag" THEN "open" ELSE "resolved"]
  BY <1>1 DEF CommitFlags, FlagsHeld
<1>3. flags \in [Flag -> {"none", "open", "resolved"}]
  BY DEF TypeInvariant, TypeOK, FlagList
<1>4. \A f \in Flag : flags[f] # "none" => flags'[f] # "none"
  BY <1>1, <1>2, <1>3 DEF FlagsHeld
<1>5. \A f \in Flag : flags[f] = "resolved" => flags'[f] = "resolved"
  BY <1>1, <1>2, <1>3 DEF FlagsHeld
<1>6. \A f \in Flag : f # o.arg => flags'[f] = flags[f]
  BY <1>1, <1>2, <1>3
<1>7. /\ op' = [op EXCEPT ![w] = Nothing] /\ \A v \in Writer : ~fresh'[v]
      /\ Nothing.kind = "none"
  BY DEF CommitFlags, Touch, Finish, Nothing, Request
<1>8. ASSUME NEW v \in Writer \ {w}
      PROVE  /\ op'[v] = op[v]
             /\ op[v].kind = "flag" => op[v].arg \in Flag /\ op[v].arg # o.arg
             /\ op[v].kind = "resolve" => op[v].arg \in Flag
  <2>1. op[v] \in [kind : OpKinds \cup {"none"}, arg : Args]
        /\ o \in [kind : OpKinds \cup {"none"}, arg : Args] /\ op'[v] = op[v]
    BY <1>7 DEF TypeInvariant, TypeOK
  <2>2. op[v].kind = "flag" /\ o.kind = "flag" => op[v].arg # o.arg
    BY <2>1 DEF FlagsHeld
  <2>3. op[v].kind = "flag" /\ o.kind = "resolve" => op[v].arg # o.arg
    BY DEF FlagsHeld
  <2> QED BY <2>1, <2>2, <2>3, <1>1 DEF TypeInvariant, OpFits
<1>9. op'[w] = Nothing
  BY <1>7 DEF TypeInvariant, TypeOK
<1>10. ASSUME NEW v \in Writer, op'[v].kind = "flag"
      PROVE  /\ flags'[op'[v].arg] = "none"
             /\ \A u \in Writer \ {v} : op'[u] # op'[v]
  <2>1. v # w
    BY <1>7, <1>9, <1>10
  <2>2. flags'[op'[v].arg] = "none"
    <3>1. op'[v] = op[v] /\ op[v].kind = "flag" /\ op[v].arg \in Flag /\ op[v].arg # o.arg
      BY <1>8, <1>10, <2>1
    <3>2. flags[op[v].arg] = "none"
      BY <3>1 DEF FlagsHeld
    <3> QED BY <1>6, <3>1, <3>2
  <2>3. ASSUME NEW u \in Writer \ {v} PROVE op'[u] # op'[v]
    <3>1. CASE u = w  BY <1>7, <1>9, <1>10, <3>1
    <3>2. CASE u # w  BY <1>8, <1>10, <2>1, <3>2 DEF FlagsHeld
    <3> QED BY <3>1, <3>2
  <2> QED BY <2>2, <2>3
<1>11. ASSUME NEW v \in Writer, op'[v].kind = "resolve" PROVE flags'[op'[v].arg] # "none"
  <2>1. v # w
    BY <1>7, <1>9, <1>11
  <2>2. op'[v] = op[v] /\ op[v].kind = "resolve" /\ op[v].arg \in Flag
    BY <1>8, <1>11, <2>1
  <2>3. flags[op[v].arg] # "none"
    BY <2>2 DEF FlagsHeld
  <2> QED BY <1>4, <2>2, <2>3
<1>12. FlagsHeld'
  BY <1>7, <1>10, <1>11 DEF FlagsHeld
<1> QED BY <1>4, <1>5, <1>12 DEF KeepFlags

LEMMA FlagsHeldStep ==
  TypeInvariant /\ FlagsHeld /\ [Next]_vars => FlagsHeld' /\ KeepFlags
<1> SUFFICES ASSUME TypeInvariant, FlagsHeld, [Next]_vars PROVE FlagsHeld' /\ KeepFlags
  OBVIOUS
<1> USE DEF KeepFlags
<1>1. CASE UNCHANGED vars  BY <1>1 DEF vars, row, local, FlagsHeld
<1>2. ASSUME NEW w \in Writer, Begin(w) PROVE FlagsHeld' /\ KeepFlags
  <2>1. PICK o \in Requests(w) : op' = [op EXCEPT ![w] = o]
    BY <1>2 DEF Begin
  <2>2. /\ o.kind = "flag" => /\ flags[o.arg] = "none"
                              /\ \A v \in Writer : op[v] # Request("flag", o.arg)
        /\ o.kind = "resolve" => flags[o.arg] # "none"
    BY DEF Requests
  <2>3. o.kind = "flag" => o = Request("flag", o.arg)
    BY <2>1, RequestFits DEF Request, TypeInvariant
  <2>4. /\ op'[w] = o /\ \A v \in Writer \ {w} : op'[v] = op[v] /\ pc'[v] = pc[v]
        /\ read'[w].flags = flags /\ UNCHANGED flags
        /\ \A v \in Writer \ {w} : read'[v] = read[v] /\ fresh'[v] = fresh[v]
    BY <1>2, <2>1 DEF Begin, ReadRow, Goto, TypeInvariant, TypeOK, row
  <2> QED BY <2>2, <2>3, <2>4 DEF FlagsHeld
<1>3. ASSUME NEW w \in Writer, CommitFlags(w) PROVE FlagsHeld' /\ KeepFlags
  BY <1>3, CommitKeepsFlags
<1>4. ASSUME NEW w \in Writer, RetryFlags(w) PROVE FlagsHeld' /\ KeepFlags
  <2>1. UNCHANGED flags /\ (\/ Abandon(w)
                            \/ ReadRow(w) /\ UNCHANGED <<pc, op>>)
    <3>1. CASE tries[w] + 1 < CASAttempts  BY <1>4, <3>1 DEF RetryFlags, row
    <3>2. CASE ~(tries[w] + 1 < CASAttempts)  BY <1>4, <3>2 DEF RetryFlags, row
    <3> QED BY <3>1, <3>2
  <2>2. CASE Abandon(w)
    BY <2>1, <2>2 DEF Abandon, Finish, Goto, Nothing, Request, FlagsHeld, TypeInvariant, TypeOK
  <2>3. CASE ReadRow(w) /\ UNCHANGED <<pc, op>>
    BY <2>1, <2>3 DEF ReadRow, FlagsHeld, TypeInvariant, TypeOK
  <2> QED BY <2>1, <2>2, <2>3
<1>5. ASSUME NEW w \in Writer, WriterStep(w), ~Begin(w), ~CommitFlags(w), ~RetryFlags(w)
      PROVE  FlagsHeld' /\ KeepFlags
  BY <1>5, OthersKeepFlags
<1> QED BY <1>1, <1>2, <1>3, <1>4, <1>5 DEF Next

\* However many callers append and resolve flags at once, without any lock,
\* none erases a flag that another has committed.
THEOREM StoreFlagsStick == Spec => FlagsStick
<1>1. Init => FlagsHeld
  BY DEF Init, FlagsHeld, Nothing, Request
<1>2. TypeInvariant /\ FlagsHeld /\ [Next]_vars => [KeepFlags]_vars
  BY FlagsHeldStep
<1>3. TypeInvariant /\ [Next]_vars => TypeInvariant'
  BY TypeStep DEF TypeInvariant
<1>4. TypeInvariant /\ FlagsHeld /\ [Next]_vars => FlagsHeld'
  BY FlagsHeldStep
<1> QED BY <1>1, <1>2, <1>3, <1>4, InitTypeInvariant, PTL DEF Spec, FlagsStick
=============================================================================
