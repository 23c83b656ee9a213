----------------------- MODULE OverrideWindow_proofs -----------------------
(***************************************************************************)
(* Theorems about OverrideWindow for any undoers, reapers, windows and     *)
(* faults.  On top of the types, one inductive invariant per property:     *)
(* which results stand for a reversal, who may announce an expiry, and     *)
(* who is about to write the reversal down.                                *)
(***************************************************************************)
EXTENDS OverrideWindow, TLAPS

\* A result that counts as a reversal was never given while the bill stood,
\* and only such a result takes a call past the audit event.
ResultIsReal ==
  \A u \in Undoer :
    /\ Succeeded(u) => bill = "reversed"
    /\ pc[u] \in {"persist", "transition"} => Succeeded(u)

RealInv == ReversedIsReal /\ ResultIsReal

\* A reaper on its way to announce owns the expiry of its window.
ExpiryOwned ==
  /\ \A r \in Reaper :
       pc[r] \in {"close", "announce"} =>
         window[on[r]] = "expired" /\ announced[on[r]] = 0
  /\ \A r, q \in Reaper :
       pc[r] \in {"close", "announce"} /\ pc[q] \in {"close", "announce"}
       /\ on[r] = on[q]
         => r = q

ExpiryInv == ExpiryOwned /\ ExpiryAnnouncedOnce

\* Until a fault, a reversal is on the item or in the hands of the call that
\* asked for it.
Recording ==
  faults = 0 =>
    /\ late = {}
    /\ bill = "reversed" =>
         \/ reversalRef
         \/ \E u \in Undoer : pc[u] \in {"audit", "persist"} /\ Succeeded(u)

-----------------------------------------------------------------------------
(* Types *)

LEMMA InitType == Init => TypeOK
<1> SUFFICES ASSUME Init PROVE TypeOK
  OBVIOUS
<1>1. reversalRef \in BOOLEAN
  BY Zenon DEF Init
<1>2. /\ pc \in [Caller -> UndoerPlace \cup ReaperPlace]
      /\ on \in [Caller -> Window \cup {0}]
      /\ \A c \in Caller : pc[c] = "idle"
  BY DEF Init, UndoerPlace, ReaperPlace
<1>3. /\ window \in [Window -> WindowState]
      /\ audit \in [Window -> {"none", "succeeded", "other"}]
      /\ announced \in [Window -> Nat]
  BY DEF Init, WindowState
<1>4. /\ result \in [Undoer -> Results] /\ answer \in [Undoer -> Outcomes]
      /\ clicks \in [Undoer -> Nat]
  BY DEF Init, Results, Outcomes
<1>5. /\ item = "posted_to_erp" /\ bill = "posted"
      /\ late = {} /\ due = {} /\ faults = 0
  BY DEF Init
<1> QED BY <1>1, <1>2, <1>3, <1>4, <1>5 DEF TypeOK, ReaperPlace, Caller

LEMMA NextType == TypeOK /\ [Next]_vars => TypeOK'
<1> SUFFICES ASSUME TypeOK, [Next]_vars PROVE TypeOK'
  OBVIOUS
<1> USE OverrideAssumption
    DEF TypeOK, WindowState, Outcomes, Results, UndoerPlace, ReaperPlace,
        Goto, Return, Got, Report, Fault, record, erp, store, call, count,
        Caller
<1>0. CASE UNCHANGED vars  BY <1>0 DEF vars
<1>1. ASSUME NEW w \in Window, Open(w) PROVE TypeOK'  BY <1>1 DEF Open
<1>2. ASSUME NEW w \in Window, TimePasses(w) PROVE TypeOK'
  BY <1>2 DEF TimePasses
<1>3. CASE PostingCloses  BY <1>3 DEF PostingCloses, Moved
<1>4. ASSUME NEW u \in Undoer, UndoerStep(u) PROVE TypeOK'
  <2>1. ASSUME NEW w \in Window, Load(u, w) PROVE TypeOK'  BY <2>1 DEF Load
  <2>2. CASE CheckItem(u)  BY <2>2 DEF CheckItem
  <2>3. CASE CheckKey(u)  BY <2>3 DEF CheckKey
  <2>4. CASE Request(u)  BY <2>4 DEF Request
  <2>5. CASE Refuse(u)  BY <2>5 DEF Refuse
  <2>6. CASE Abandon(u)  BY <2>6 DEF Abandon
  <2>7. CASE Raise(u)  BY <2>7 DEF Raise
  <2>8. CASE HandleLate(u)  BY <2>8 DEF HandleLate
  <2>9. CASE Audit(u)  BY <2>9 DEF Audit
  <2>10. CASE Persist(u)
    <3>1. reversalRef' \in BOOLEAN
      <4>1. CASE reversalRef' = TRUE  BY <4>1, Zenon
      <4>2. CASE UNCHANGED reversalRef  BY <4>2, Zenon DEF TypeOK
      <4> QED BY <2>10, <4>1, <4>2 DEF Persist
    <3>2. faults' \in Nat
      BY <2>10 DEF Persist
    <3>3. UNCHANGED <<item, erp, store, on, result, answer, clicks>>
      BY <2>10 DEF Persist
    <3>4. pc' = [pc EXCEPT ![u] = "mark"]
      BY <2>10 DEF Persist
    <3>5. pc[u] = "persist"
      BY <2>10 DEF Persist
    <3> QED BY <3>1, <3>2, <3>3, <3>4, <3>5
  <2>11. CASE Mark(u)  BY <2>11 DEF Mark, MarkWindow
  <2>12. CASE TransitionToReversed(u)
    BY <2>12 DEF TransitionToReversed, Moved
  <2>13. CASE ExpireOnClick(u)  BY <2>13 DEF ExpireOnClick, MarkWindow
  <2>14. CASE Close(u)  BY <2>14 DEF Close, Moved
  <2>15. CASE Crash(u)  BY <2>15 DEF Crash
  <2> QED BY <1>4, <2>1, <2>2, <2>3, <2>4, <2>5, <2>6, <2>7, <2>8, <2>9,
             <2>10, <2>11, <2>12, <2>13, <2>14, <2>15 DEF UndoerStep
<1>5. ASSUME NEW r \in Reaper, ReaperStep(r) \/ Crash(r) PROVE TypeOK'
  <2>1. ASSUME NEW w \in Window, Reap(r, w) PROVE TypeOK'  BY <2>1 DEF Reap
  <2>2. CASE Expire(r)  BY <2>2 DEF Expire, MarkWindow
  <2>3. CASE Close(r)  BY <2>3 DEF Close, Moved
  <2>4. CASE Announce(r)  BY <2>4 DEF Announce
  <2>5. CASE Crash(r)  BY <2>5 DEF Crash
  <2> QED BY <1>5, <2>1, <2>2, <2>3, <2>4, <2>5 DEF ReaperStep
<1> QED BY <1>0, <1>1, <1>2, <1>3, <1>4, <1>5 DEF Next

\* The variables of the undo calls and the reapers stay in their sets.
THEOREM OverrideTypeOK == Spec => []TypeOK
<1>1. Init => TypeOK
  BY InitType
<1>2. TypeOK /\ [Next]_vars => TypeOK'
  BY NextType
<1> QED BY <1>1, <1>2, PTL DEF Spec

-----------------------------------------------------------------------------
(* Outcomes *)

\* What a window came to is never overwritten.
LEMMA WindowStep ==
  ASSUME TypeOK, [Next]_vars
  PROVE  \A w \in Window :
           window[w] \in {"reversed", "failed", "expired"}
             => window'[w] = window[w]
<1> DEFINE Settled ==
      \A w \in Window :
        window[w] \in {"reversed", "failed", "expired"} => window'[w] = window[w]
<1> USE DEF store, record, erp, call, count
<1>1. ASSUME NEW w \in Window, NEW s \in WindowState, MarkWindow(w, s)
      PROVE  Settled
  BY <1>1 DEF MarkWindow, TypeOK
<1>2. CASE UNCHANGED window
  BY <1>2
<1>3. ASSUME NEW w \in Window, Open(w) PROVE Settled
  BY <1>3 DEF Open, TypeOK
<1>4. ASSUME NEW u \in Undoer, UndoerStep(u) PROVE Settled
  <2>1. CASE Mark(u)
    <3>1. on[u] \in Window /\ {"reversed", "failed"} \subseteq WindowState
      BY <2>1 DEF Mark, TypeOK, Caller, WindowState
    <3> QED BY <1>1, <2>1, <3>1 DEF Mark
  <2>2. CASE ExpireOnClick(u)
    <3>1. on[u] \in Window /\ "expired" \in WindowState
      BY <2>2 DEF ExpireOnClick, TypeOK, Caller, WindowState
    <3> QED BY <1>1, <2>2, <3>1 DEF ExpireOnClick
  <2>3. CASE ~Mark(u) /\ ~ExpireOnClick(u)
    <3>1. UNCHANGED window
      BY <1>4, <2>3
         DEF UndoerStep, Load, CheckItem, CheckKey, Request, Refuse, Abandon,
             Raise, HandleLate, Audit, Persist, TransitionToReversed, Close, Crash
    <3> QED BY <1>2, <3>1
  <2> QED BY <2>1, <2>2, <2>3
<1>5. ASSUME NEW r \in Reaper, ReaperStep(r) \/ Crash(r) PROVE Settled
  <2>1. CASE Expire(r)
    <3>1. on[r] \in Window /\ "expired" \in WindowState
      BY <2>1 DEF Expire, TypeOK, Caller, WindowState
    <3> QED BY <1>1, <2>1, <3>1 DEF Expire
  <2>2. CASE ~Expire(r)
    <3>1. UNCHANGED window
      BY <1>5, <2>2 DEF ReaperStep, Reap, Close, Announce, Crash
    <3> QED BY <1>2, <3>1
  <2> QED BY <2>1, <2>2
<1>6. CASE PostingCloses \/ (\E w \in Window : TimePasses(w)) \/ UNCHANGED vars
  <2>1. UNCHANGED window
    BY <1>6 DEF PostingCloses, TimePasses, vars
  <2> QED BY <1>2, <2>1
<1> QED BY <1>3, <1>4, <1>5, <1>6 DEF Next

\* Whatever clicks and sweeps still hold a window as pending, the outcome it
\* has is the one it keeps.
THEOREM OverrideOutcomeSticks == Spec => OutcomeSticks
<1>1. TypeOK /\ [Next]_vars =>
        [\A w \in Window :
           window[w] \in {"reversed", "failed", "expired"}
             => window'[w] = window[w]]_vars
  BY WindowStep
<1> QED BY <1>1, OverrideTypeOK, PTL DEF Spec, OutcomeSticks

-----------------------------------------------------------------------------
(* What says the posting was undone *)

LEMMA NextReal == TypeOK /\ RealInv /\ [Next]_vars => RealInv'
<1> SUFFICES ASSUME TypeOK, RealInv, [Next]_vars PROVE RealInv'
  OBVIOUS
<1> USE OverrideAssumption
    DEF RealInv, ReversedIsReal, ResultIsReal, Succeeded, TypeOK,
        UndoerPlace, ReaperPlace, Goto, Return, Got, Report, Fault, record,
        erp, store, call, count, Caller
<1>0. CASE UNCHANGED vars  BY <1>0 DEF vars
<1>1. ASSUME NEW w \in Window, Open(w) PROVE RealInv'  BY <1>1 DEF Open
<1>2. ASSUME NEW w \in Window, TimePasses(w) PROVE RealInv'
  BY <1>2 DEF TimePasses
<1>3. CASE PostingCloses  BY <1>3 DEF PostingCloses, Moved
<1>4. ASSUME NEW u \in Undoer, UndoerStep(u) PROVE RealInv'
  <2>1. ASSUME NEW w \in Window, Load(u, w)
        PROVE  RealInv'
    <3>1. UNCHANGED <<bill, reversalRef, window, audit, result>>
      BY <2>1 DEF Load
    <3>2. ResultIsReal'
      BY <2>1, <3>1 DEF Load
    <3>3. CASE window[w] = "pending"  BY <2>1, <3>1, <3>2, <3>3 DEF Load
    <3>4. CASE window[w] = "reversed"
      BY <3>1, <3>2, <3>4
    <3>5. CASE window[w] \notin {"pending", "reversed"}
      <4>1. answer'[u] = window[w]
        BY <2>1, <3>5 DEF Load
      <4>2. \A v \in Undoer : v # u => answer'[v] = answer[v]
        BY <2>1, <3>5 DEF Load
      <4>3. window[w] # "already_reversed"
        BY DEF WindowState
      <4> QED BY <3>1, <3>2, <3>5, <4>1, <4>2, <4>3
    <3> QED BY <3>3, <3>4, <3>5
  <2>2. CASE CheckItem(u)  BY <2>2 DEF CheckItem
  <2>3. CASE CheckKey(u)  BY <2>3 DEF CheckKey
  <2>4. CASE Request(u)  BY <2>4 DEF Request
  <2>5. CASE Refuse(u)  BY <2>5 DEF Refuse
  <2>6. CASE Abandon(u)  BY <2>6 DEF Abandon
  <2>7. CASE Raise(u)  BY <2>7 DEF Raise
  <2>8. CASE HandleLate(u)  BY <2>8 DEF HandleLate
  <2>9. CASE Audit(u)  BY <2>9 DEF Audit
  <2>10. CASE Persist(u)  BY <2>10 DEF Persist
  <2>11. CASE Mark(u)  BY <2>11 DEF Mark, MarkWindow
  <2>12. CASE TransitionToReversed(u)
    BY <2>12 DEF TransitionToReversed, Moved
  <2>13. CASE ExpireOnClick(u)  BY <2>13 DEF ExpireOnClick, MarkWindow
  <2>14. CASE Close(u)  BY <2>14 DEF Close, Moved
  <2>15. CASE Crash(u)  BY <2>15 DEF Crash
  <2> QED BY <1>4, <2>1, <2>2, <2>3, <2>4, <2>5, <2>6, <2>7, <2>8, <2>9,
             <2>10, <2>11, <2>12, <2>13, <2>14, <2>15 DEF UndoerStep
<1>5. ASSUME NEW r \in Reaper, ReaperStep(r) \/ Crash(r) PROVE RealInv'
  <2>1. ASSUME NEW w \in Window, Reap(r, w) PROVE RealInv'  BY <2>1 DEF Reap
  <2>2. CASE Expire(r)  BY <2>2 DEF Expire, MarkWindow
  <2>3. CASE Close(r)  BY <2>3 DEF Close, Moved
  <2>4. CASE Announce(r)  BY <2>4 DEF Announce
  <2>5. CASE Crash(r)  BY <2>5 DEF Crash
  <2> QED BY <1>5, <2>1, <2>2, <2>3, <2>4, <2>5 DEF ReaperStep
<1> QED BY <1>0, <1>1, <1>2, <1>3, <1>4, <1>5 DEF Next

\* A window, an item, an audit event or an answer that says a posting was
\* undone is right, for any number of clicks, sweeps, windows and faults.
THEOREM OverrideReversedIsReal == Spec => []ReversedIsReal
<1>1. Init => RealInv
  BY DEF Init, RealInv, ReversedIsReal, ResultIsReal, Succeeded, Caller
<1>2. TypeOK /\ RealInv /\ [Next]_vars => RealInv'
  BY NextReal
<1>3. RealInv => ReversedIsReal
  BY DEF RealInv
<1> QED BY <1>1, <1>2, <1>3, OverrideTypeOK, PTL DEF Spec

-----------------------------------------------------------------------------
(* Announcements *)

LEMMA NextExpiry == TypeOK /\ ExpiryInv /\ [Next]_vars => ExpiryInv'
<1> SUFFICES ASSUME TypeOK, ExpiryInv, [Next]_vars PROVE ExpiryInv'
  OBVIOUS
<1> USE OverrideAssumption
    DEF ExpiryInv, ExpiryOwned, ExpiryAnnouncedOnce, TypeOK, WindowState,
        UndoerPlace, ReaperPlace, Goto, Return, Got, Report, Fault, record,
        erp, store, call, count, Caller
<1>0. CASE UNCHANGED vars  BY <1>0 DEF vars
<1>1. ASSUME NEW w \in Window, Open(w) PROVE ExpiryInv'  BY <1>1 DEF Open
<1>2. ASSUME NEW w \in Window, TimePasses(w) PROVE ExpiryInv'
  BY <1>2 DEF TimePasses
<1>3. CASE PostingCloses  BY <1>3 DEF PostingCloses, Moved
<1>4. ASSUME NEW u \in Undoer, UndoerStep(u) PROVE ExpiryInv'
  <2>1. ASSUME NEW w \in Window, Load(u, w) PROVE ExpiryInv'  BY <2>1 DEF Load
  <2>2. CASE CheckItem(u)  BY <2>2 DEF CheckItem
  <2>3. CASE CheckKey(u)  BY <2>3 DEF CheckKey
  <2>4. CASE Request(u)  BY <2>4 DEF Request
  <2>5. CASE Refuse(u)  BY <2>5 DEF Refuse
  <2>6. CASE Abandon(u)  BY <2>6 DEF Abandon
  <2>7. CASE Raise(u)  BY <2>7 DEF Raise
  <2>8. CASE HandleLate(u)  BY <2>8 DEF HandleLate
  <2>9. CASE Audit(u)  BY <2>9 DEF Audit
  <2>10. CASE Persist(u)  BY <2>10 DEF Persist
  <2>11. CASE Mark(u)  BY <2>11 DEF Mark, MarkWindow
  <2>12. CASE TransitionToReversed(u)
    BY <2>12 DEF TransitionToReversed, Moved
  <2>13. CASE ExpireOnClick(u)  BY <2>13 DEF ExpireOnClick, MarkWindow
  <2>14. CASE Close(u)  BY <2>14 DEF Close, Moved
  <2>15. CASE Crash(u)  BY <2>15 DEF Crash
  <2> QED BY <1>4, <2>1, <2>2, <2>3, <2>4, <2>5, <2>6, <2>7, <2>8, <2>9,
             <2>10, <2>11, <2>12, <2>13, <2>14, <2>15 DEF UndoerStep
<1>5. ASSUME NEW r \in Reaper, ReaperStep(r) \/ Crash(r) PROVE ExpiryInv'
  <2>1. ASSUME NEW w \in Window, Reap(r, w) PROVE ExpiryInv'  BY <2>1 DEF Reap
  <2>2. CASE Expire(r)  BY <2>2 DEF Expire, MarkWindow
  <2>3. CASE Close(r)  BY <2>3 DEF Close, Moved
  <2>4. CASE Announce(r)  BY <2>4 DEF Announce
  <2>5. CASE Crash(r)  BY <2>5 DEF Crash
  <2> QED BY <1>5, <2>1, <2>2, <2>3, <2>4, <2>5 DEF ReaperStep
<1> QED BY <1>0, <1>1, <1>2, <1>3, <1>4, <1>5 DEF Next

\* The expiry of a window is announced at most once and only if it expired,
\* however many reapers sweep and however late the clicks come.
THEOREM OverrideExpiryAnnouncedOnce == Spec => []ExpiryAnnouncedOnce
<1>1. Init => ExpiryInv
  BY DEF Init, ExpiryInv, ExpiryOwned, ExpiryAnnouncedOnce, Caller
<1>2. TypeOK /\ ExpiryInv /\ [Next]_vars => ExpiryInv'
  BY NextExpiry
<1>3. ExpiryInv => ExpiryAnnouncedOnce
  BY DEF ExpiryInv
<1> QED BY <1>1, <1>2, <1>3, OverrideTypeOK, PTL DEF Spec

-----------------------------------------------------------------------------
(* Reversals on record *)

LEMMA NextRecording == TypeOK /\ Recording /\ [Next]_vars => Recording'
<1> SUFFICES ASSUME TypeOK, Recording, [Next]_vars PROVE Recording'
  OBVIOUS
<1> USE OverrideAssumption
    DEF Recording, Succeeded, TypeOK, UndoerPlace, ReaperPlace, Goto, Return,
        Got, Report, Fault, record, erp, store, call, count, Caller
<1>0. CASE UNCHANGED vars  BY <1>0 DEF vars
<1>1. ASSUME NEW w \in Window, Open(w) PROVE Recording'  BY <1>1 DEF Open
<1>2. ASSUME NEW w \in Window, TimePasses(w) PROVE Recording'
  BY <1>2 DEF TimePasses
<1>3. CASE PostingCloses  BY <1>3 DEF PostingCloses, Moved
<1>4. ASSUME NEW u \in Undoer, UndoerStep(u) PROVE Recording'
  <2>1. ASSUME NEW w \in Window, Load(u, w) PROVE Recording'  BY <2>1 DEF Load
  <2>2. CASE CheckItem(u)  BY <2>2 DEF CheckItem
  <2>3. CASE CheckKey(u)  BY <2>3 DEF CheckKey
  <2>4. CASE Request(u)  BY <2>4 DEF Request
  <2>5. CASE Refuse(u)  BY <2>5 DEF Refuse
  <2>6. CASE Abandon(u)  BY <2>6 DEF Abandon
  <2>7. CASE Raise(u)  BY <2>7 DEF Raise
  <2>8. CASE HandleLate(u)  BY <2>8 DEF HandleLate
  <2>9. CASE Audit(u)  BY <2>9 DEF Audit
  <2>10. CASE Persist(u)  BY <2>10 DEF Persist
  <2>11. CASE Mark(u)  BY <2>11 DEF Mark, MarkWindow
  <2>12. CASE TransitionToReversed(u)
    BY <2>12 DEF TransitionToReversed, Moved
  <2>13. CASE ExpireOnClick(u)  BY <2>13 DEF ExpireOnClick, MarkWindow
  <2>14. CASE Close(u)  BY <2>14 DEF Close, Moved
  <2>15. CASE Crash(u)  BY <2>15 DEF Crash
  <2> QED BY <1>4, <2>1, <2>2, <2>3, <2>4, <2>5, <2>6, <2>7, <2>8, <2>9,
             <2>10, <2>11, <2>12, <2>13, <2>14, <2>15 DEF UndoerStep
<1>5. ASSUME NEW r \in Reaper, ReaperStep(r) \/ Crash(r) PROVE Recording'
  <2>1. ASSUME NEW w \in Window, Reap(r, w) PROVE Recording'  BY <2>1 DEF Reap
  <2>2. CASE Expire(r)  BY <2>2 DEF Expire, MarkWindow
  <2>3. CASE Close(r)  BY <2>3 DEF Close, Moved
  <2>4. CASE Announce(r)  BY <2>4 DEF Announce
  <2>5. CASE Crash(r)  BY <2>5 DEF Crash
  <2> QED BY <1>5, <2>1, <2>2, <2>3, <2>4, <2>5 DEF ReaperStep
<1> QED BY <1>0, <1>1, <1>2, <1>3, <1>4, <1>5 DEF Next

\* Without a fault the item names every reversal of its bill once the calls
\* are over, even when the window expired while the ERP was at work.
THEOREM OverrideReversalRecorded == Spec => []ReversalRecorded
<1>1. Init => Recording
  BY DEF Init, Recording
<1>2. TypeOK /\ Recording /\ [Next]_vars => Recording'
  BY NextRecording
<1>3. Recording => ReversalRecorded
  BY DEF Recording, ReversalRecorded
<1> QED BY <1>1, <1>2, <1>3, OverrideTypeOK, PTL DEF Spec

-----------------------------------------------------------------------------
(* Refinement: OverrideWindow implements UndoPromise. *)

\* A mark settles a pending window or does nothing; only a call with a reversal
\* in hand marks "reversed".
LEMMA MarkRefines ==
  ASSUME TypeOK, NEW w \in Window, NEW s \in {"reversed", "failed", "expired"},
         MarkWindow(w, s), s = "reversed" => bill = "reversed",
         UNCHANGED <<announced, bill, reversalRef>>
  PROVE  Promise!Settle(w) \/ UNCHANGED Promise!undo
<1>1. CASE window[w] = "pending"
  BY <1>1 DEF MarkWindow, Promise!Settle, Promise!Settled
<1>2. CASE window[w] # "pending"
  BY <1>2 DEF MarkWindow, TypeOK, Promise!undo
<1> QED BY <1>1, <1>2

\* The ERP's reversal is the step Undo the first time and nothing afterwards.
LEMMA ReversalRefines ==
  ASSUME TypeOK, bill' = "reversed", UNCHANGED <<window, announced, reversalRef>>
  PROVE  Promise!Undo \/ UNCHANGED Promise!undo
BY DEF TypeOK, Promise!Undo, Promise!undo

LEMMA UndoerRefines ==
  ASSUME TypeOK, RealInv, NEW u \in Undoer, UndoerStep(u)
  PROVE  \/ \E w \in Window : Promise!Settle(w)
         \/ Promise!Undo \/ Promise!Note \/ UNCHANGED Promise!undo
<1> USE DEF record, erp, store, call, count
<1>1. pc[u] # "idle" => on[u] \in Window
  BY DEF TypeOK, Caller
<1>2. CASE Mark(u)
  BY <1>1, <1>2, MarkRefines DEF Mark, RealInv, ResultIsReal
<1>3. CASE ExpireOnClick(u)
  BY <1>1, <1>3, MarkRefines DEF ExpireOnClick
<1>4. CASE Request(u) \/ HandleLate(u)
  BY <1>4, ReversalRefines DEF Request, HandleLate
<1>5. CASE Persist(u)
  <2>1. /\ bill = "reversed" /\ UNCHANGED <<window, announced, bill>>
        /\ reversalRef' = TRUE \/ UNCHANGED reversalRef
    BY <1>5 DEF Persist, RealInv, ResultIsReal
  <2>2. CASE reversalRef' = TRUE /\ ~reversalRef
    BY <2>1, <2>2 DEF Promise!Note
  <2>3. CASE UNCHANGED reversalRef \/ reversalRef
    BY <2>1, <2>3 DEF TypeOK, Promise!undo
  <2> QED BY <2>1, <2>2, <2>3
<1>6. CASE \/ \E w \in Window : Load(u, w)
           \/ CheckItem(u) \/ CheckKey(u) \/ Refuse(u) \/ Abandon(u) \/ Raise(u)
           \/ Audit(u) \/ TransitionToReversed(u) \/ Close(u) \/ Crash(u)
  <2>1. UNCHANGED <<window, announced, bill, reversalRef>>
    BY <1>6 DEF Load, CheckItem, CheckKey, Refuse, Abandon, Raise, Audit,
               TransitionToReversed, Close, Crash
  <2> QED BY <2>1 DEF Promise!undo
<1> QED BY <1>2, <1>3, <1>4, <1>5, <1>6 DEF UndoerStep

LEMMA ReaperRefines ==
  ASSUME TypeOK, ExpiryInv, NEW r \in Reaper, ReaperStep(r) \/ Crash(r)
  PROVE  \/ \E w \in Window : Promise!Settle(w) \/ Promise!AnnounceExpiry(w)
         \/ UNCHANGED Promise!undo
<1> USE DEF record, erp, store, call, count
<1>1. pc[r] # "idle" => on[r] \in Window
  BY DEF TypeOK, Caller
<1>2. CASE Expire(r)
  BY <1>1, <1>2, MarkRefines DEF Expire
<1>3. CASE Announce(r)
  <2>1. window[on[r]] = "expired" /\ announced[on[r]] = 0
    BY <1>3 DEF Announce, ExpiryInv, ExpiryOwned
  <2>2. /\ UNCHANGED <<window, bill, reversalRef>>
        /\ \/ announced' = [announced EXCEPT ![on[r]] = @ + 1]
           \/ UNCHANGED announced
    BY <1>3 DEF Announce
  <2>3. CASE announced' = [announced EXCEPT ![on[r]] = @ + 1]
    <3>1. announced' = [announced EXCEPT ![on[r]] = 1]
      BY <2>1, <2>3
    <3>2. on[r] \in Window  BY <1>1, <1>3 DEF Announce
    <3> QED BY <2>1, <2>2, <3>1, <3>2 DEF Promise!AnnounceExpiry
  <2>4. CASE UNCHANGED announced
    BY <2>2, <2>4 DEF Promise!undo
  <2> QED BY <2>2, <2>3, <2>4
<1>4. CASE (\E w \in Window : Reap(r, w)) \/ Close(r) \/ Crash(r)
  <2>1. UNCHANGED <<window, announced, bill, reversalRef>>
    BY <1>4 DEF Reap, Close, Crash
  <2> QED BY <2>1 DEF Promise!undo
<1> QED BY <1>2, <1>3, <1>4 DEF ReaperStep

\* Any clicks, sweeps, late answers and faults keep the promise of the windows:
\* each is opened and settled once, and what says "reversed" is right.
THEOREM OverrideImplementsUndo == Spec => ImplementsUndo
<1>1. Init => Promise!UndoInit /\ RealInv /\ ExpiryInv
  BY DEF Init, Promise!UndoInit, RealInv, ReversedIsReal, ResultIsReal, Succeeded,
         ExpiryInv, ExpiryOwned, ExpiryAnnouncedOnce, Caller
<1>2. TypeOK /\ RealInv /\ ExpiryInv /\ [Next]_vars => [Promise!UndoNext]_Promise!undo
  <2> SUFFICES ASSUME TypeOK, RealInv, ExpiryInv, [Next]_vars
               PROVE  Promise!UndoNext \/ UNCHANGED Promise!undo
    OBVIOUS
  <2>1. ASSUME NEW w \in Window, Open(w)
        PROVE  Promise!OpenWindow(w)
    BY <2>1 DEF Open, record, erp, Promise!OpenWindow
  <2>2. CASE UNCHANGED vars \/ PostingCloses \/ \E w \in Window : TimePasses(w)
    <3>1. UNCHANGED <<window, announced, bill, reversalRef>>
      BY <2>2 DEF vars, PostingCloses, TimePasses, record, erp, store
    <3> QED BY <3>1 DEF Promise!undo
  <2> QED BY <2>1, <2>2, UndoerRefines, ReaperRefines DEF Next, Promise!UndoNext
<1> QED BY <1>1, <1>2, NextReal, NextExpiry, OverrideTypeOK, PTL
        DEF Spec, ImplementsUndo, Promise!UndoSpec

\* What UndoPromise implies for a reader of the windows, on the abstract state.
THEOREM PromiseAgrees == ImplementsUndo => []Promise!WindowsAgree
<1> DEFINE Shaped == /\ window \in [Window -> {"none", "pending"} \cup Promise!Settled]
                     /\ announced \in [Window -> Nat]
           Inv    == Shaped /\ Promise!WindowsAgree
<1> USE DEF Promise!WindowsAgree, Promise!Settled
<1>1. Promise!UndoInit => Inv
  BY DEF Promise!UndoInit
<1>2. Inv /\ [Promise!UndoNext]_Promise!undo => Inv'
  <2> SUFFICES ASSUME Inv, [Promise!UndoNext]_Promise!undo PROVE Inv'
    OBVIOUS
  <2>1. CASE \E w \in Window : Promise!OpenWindow(w)
    BY <2>1 DEF Promise!OpenWindow
  <2>2. CASE \E w \in Window : Promise!Settle(w)
    BY <2>2 DEF Promise!Settle
  <2>3. CASE \E w \in Window : Promise!AnnounceExpiry(w)
    BY <2>3 DEF Promise!AnnounceExpiry
  <2>4. CASE Promise!Undo \/ Promise!Note \/ UNCHANGED Promise!undo
    BY <2>4 DEF Promise!Undo, Promise!Note, Promise!undo
  <2> QED BY <2>1, <2>2, <2>3, <2>4 DEF Promise!UndoNext
<1> QED BY <1>1, <1>2, PTL DEF ImplementsUndo, Promise!UndoSpec
=============================================================================
