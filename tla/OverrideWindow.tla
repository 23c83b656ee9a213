--------------------------- MODULE OverrideWindow ---------------------------
(***************************************************************************)
(* Undoing a posting: solden/services/override_window.py with its store,   *)
(* the observer and the plan action that open windows, reverse_bill of     *)
(* erp_router.py and the reapers of agent_background.py.                   *)
(*                                                                         *)
(* One AP item, posted once.  Each database transaction or ERP request is  *)
(* a step.  The ERP is external: it keeps the bill.                        *)
(***************************************************************************)
EXTENDS APStates, Naturals

CONSTANTS
  Undoer,         \* calls of attempt_reversal: Slack clicks, API requests
  Reaper,         \* sweeps of the expired windows
  MaxWindows,     \* bound: windows opened for the item
  TellsReversed,  \* the adapter recognises a bill that is gone already
  FaultKind,      \* the faults that may happen
  MaxClicks,      \* bound: attempts by one undoer
  MaxFaults       \* bound: faults in a behaviour

Caller == Undoer \cup Reaper
Window == 1..MaxWindows

ASSUME OverrideAssumption ==
  /\ Undoer \cap Reaper = {}
  /\ MaxWindows \in Nat /\ MaxClicks \in Nat /\ MaxFaults \in Nat
  /\ TellsReversed \in BOOLEAN
  /\ FaultKind \subseteq {"raise", "refused", "lost", "late", "write", "crash"}

VARIABLES
  item,        \* ap_items.state
  reversalRef, \* metadata.reversal_reference of the item is set
  bill,        \* the ERP's bill: posted or reversed
  late,        \* callers that gave up on a request the ERP has yet to handle
  window,      \* override_windows.state, "none" before the row exists
  due,         \* windows whose expires_at has passed
  audit,       \* the audit event under the window's idempotency key
  announced,   \* OVERRIDE_WINDOW_EXPIRED events enqueued for the window
  pc,          \* Caller -> where the call is
  on,          \* Caller -> the window it works on, 0 between calls
  result,      \* Undoer -> status reverse_bill came back with
  answer,      \* Undoer -> the outcome it last reported
  clicks,      \* Undoer -> attempts so far
  faults       \* faults so far

record == <<item, reversalRef>>
erp    == <<bill, late>>
store  == <<window, due, audit, announced>>
call   == <<pc, on, result, answer>>
count  == <<clicks, faults>>
vars   == <<record, erp, store, call, count>>

WindowState == {"none", "pending", "reversed", "expired", "failed"}
Outcomes    == {"none", "reversed", "already_reversed", "expired", "failed"}
Results     == {"none", "success", "already_reversed", "failed"}
UndoerPlace == {"idle", "guard", "key", "request", "audit", "persist", "mark",
                "transition", "expire", "close"}
ReaperPlace == {"idle", "reap", "close", "announce"}

Init ==
  /\ item = "posted_to_erp" /\ reversalRef = FALSE
  /\ bill = "posted" /\ late = {}
  /\ window = [w \in Window |-> "none"] /\ due = {}
  /\ audit = [w \in Window |-> "none"]
  /\ announced = [w \in Window |-> 0]
  /\ pc = [c \in Caller |-> "idle"] /\ on = [c \in Caller |-> 0]
  /\ result = [u \in Undoer |-> "none"] /\ answer = [u \in Undoer |-> "none"]
  /\ clicks = [u \in Undoer |-> 0] /\ faults = 0

Fault(k)     == k \in FaultKind /\ faults < MaxFaults /\ faults' = faults + 1
Goto(c, l)   == pc' = [pc EXCEPT ![c] = l]
Return(c)    == Goto(c, "idle") /\ on' = [on EXCEPT ![c] = 0]
Got(u, r)    == result' = [result EXCEPT ![u] = r]
Report(u, o) == answer' = [answer EXCEPT ![u] = o]

\* Mutant: a mark that overwrites any state.
MarkAnyWindow(w, s) == window' = [window EXCEPT ![w] = s]

\* The three marks are UPDATE ... WHERE state = 'pending'.
MarkWindow(w, s) ==
  window' = [window EXCEPT ![w] = IF @ = "pending" THEN s ELSE @]

\* What update_ap_item lets through of the columns these callers name.
ItemColumns == {"state", "metadata", "erp_reference"}

\* _transition_invoice_state with the state and other columns to write: a
\* column off the list or a move off the graph raises, which callers swallow.
Moved(s, columns) ==
  IF columns \cup {"state"} \subseteq ItemColumns /\ ValidTransition(item, s)
  THEN s ELSE item

-----------------------------------------------------------------------------
(* Windows and the item *)

\* OverrideWindowObserver, run at least once by the outbox, and the plan action
\* of the coordination engine: neither looks for an earlier window.
Open(w) ==
  /\ window[w] = "none"
  /\ \A v \in Window : v < w => window[v] # "none"
  /\ window' = [window EXCEPT ![w] = "pending"]
  /\ UNCHANGED <<record, erp, due, audit, announced, call, count>>

TimePasses(w) ==
  /\ window[w] = "pending" /\ w \notin due
  /\ due' = due \cup {w}
  /\ UNCHANGED <<record, erp, window, audit, announced, call, count>>

\* The call that posted the bill moves the item on; a failure is only logged.
PostingCloses ==
  /\ item = "posted_to_erp"
  /\ item' = Moved("closed", {})
  /\ UNCHANGED <<reversalRef, erp, store, call, count>>

-----------------------------------------------------------------------------
(* attempt_reversal *)

\* The window as it is read decides; the API handler asks in addition that the
\* item is posted_to_erp and takes the newest window.
Load(u, w) ==
  /\ pc[u] = "idle" /\ clicks[u] < MaxClicks /\ window[w] # "none"
  /\ clicks' = [clicks EXCEPT ![u] = @ + 1]
  /\ IF window[w] = "pending"
     THEN /\ Goto(u, IF w \in due THEN "expire" ELSE "guard")
          /\ on' = [on EXCEPT ![u] = w]
          /\ UNCHANGED answer
     ELSE /\ Report(u, IF window[w] = "reversed" THEN "already_reversed"
                       ELSE window[w])
          /\ UNCHANGED <<pc, on>>
  /\ UNCHANGED <<record, erp, store, result, faults>>

\* Guard 1 of reverse_bill: the item's metadata names a reversal.
CheckItem(u) ==
  /\ pc[u] = "guard"
  /\ IF reversalRef THEN Got(u, "already_reversed") /\ Goto(u, "mark")
                    ELSE Goto(u, "key") /\ UNCHANGED result
  /\ UNCHANGED <<record, erp, store, on, answer, count>>

\* Guard 2: the audit event of this key says the reversal succeeded; a lookup
\* that raises is passed over.
CheckKey(u) ==
  /\ pc[u] = "key"
  /\ \/ /\ audit[on[u]] = "succeeded"
        /\ Got(u, "already_reversed") /\ Goto(u, "mark")
        /\ UNCHANGED faults
     \/ /\ \/ audit[on[u]] # "succeeded" /\ UNCHANGED faults
           \/ Fault("raise")
        /\ Goto(u, "request") /\ UNCHANGED result
  /\ UNCHANGED <<record, erp, store, on, answer, clicks>>

\* The ERP reverses the bill, or finds it gone; the answer may be lost, which
\* the adapter reports as an error.
Request(u) ==
  /\ pc[u] = "request"
  /\ bill' = "reversed" /\ UNCHANGED late
  /\ \/ /\ Got(u, IF bill = "posted" THEN "success"
                  ELSE IF TellsReversed THEN "already_reversed" ELSE "failed")
        /\ UNCHANGED faults
     \/ Got(u, "failed") /\ Fault("lost")
  /\ Goto(u, "audit")
  /\ UNCHANGED <<record, store, on, answer, clicks>>

\* No connection or a rate limit ends reverse_bill before the audit event, a
\* refusal of the ERP (payments applied, expired token) after it.
Refuse(u) ==
  /\ pc[u] = "request" /\ Fault("refused")
  /\ Got(u, "failed")
  /\ \E l \in {"mark", "audit"} : Goto(u, l)
  /\ UNCHANGED <<record, erp, store, on, answer, clicks>>

Abandon(u) ==
  /\ pc[u] = "request" /\ Fault("late")
  /\ late' = late \cup {u}
  /\ Got(u, "failed") /\ Goto(u, "audit")
  /\ UNCHANGED <<record, bill, store, on, answer, clicks>>

HandleLate(u) ==
  /\ u \in late
  /\ bill' = "reversed" /\ late' = late \ {u}
  /\ UNCHANGED <<record, store, call, count>>

\* reverse_bill raises before it has an answer.
Raise(u) ==
  /\ pc[u] \in {"guard", "request"} /\ Fault("raise")
  /\ Got(u, "failed") /\ Goto(u, "mark")
  /\ UNCHANGED <<record, erp, store, on, answer, clicks>>

\* Mutant: whatever did not raise counts as a reversal.
Returned(u)  == result[u] # "none"
Succeeded(u) == result[u] \in {"success", "already_reversed"}

\* append_audit_event keeps the first event of a key; a failure is logged.
Audit(u) ==
  /\ pc[u] = "audit"
  /\ \/ /\ audit' = [audit EXCEPT ![on[u]] =
                       IF @ # "none" THEN @
                       ELSE IF result[u] = "success" THEN "succeeded"
                       ELSE "other"]
        /\ UNCHANGED faults
     \/ Fault("write") /\ UNCHANGED audit
  /\ Goto(u, IF Succeeded(u) THEN "persist" ELSE "mark")
  /\ UNCHANGED <<record, erp, window, due, announced, on, result, answer, clicks>>

\* Mutant: the reference is written only while the window is open.
PersistWhilePending(u) ==
  /\ pc[u] = "persist"
  /\ reversalRef' = (reversalRef \/ window[on[u]] = "pending")
  /\ Goto(u, "mark")
  /\ UNCHANGED <<item, erp, store, on, result, answer, count>>

\* reversal_reference, for guard 1 of the next call; a failure is logged.
Persist(u) ==
  /\ pc[u] = "persist"
  /\ \/ reversalRef' = TRUE /\ UNCHANGED faults
     \/ Fault("write") /\ UNCHANGED reversalRef
  /\ Goto(u, "mark")
  /\ UNCHANGED <<item, erp, store, on, result, answer, clicks>>

Mark(u) ==
  /\ pc[u] = "mark"
  /\ IF Succeeded(u)
     THEN /\ MarkWindow(on[u], "reversed")
          /\ Goto(u, "transition") /\ UNCHANGED <<on, answer>>
     ELSE /\ MarkWindow(on[u], "failed")
          /\ Return(u) /\ Report(u, "failed")
  /\ UNCHANGED <<record, erp, due, audit, announced, result, count>>

\* _transition_ap_item_to_reversed passes metadata_update as a column.
TransitionToReversed(u) ==
  /\ pc[u] = "transition"
  /\ item' = Moved("reversed", {"metadata_update"})
  /\ Return(u)
  /\ Report(u, IF result[u] = "success" THEN "reversed" ELSE "already_reversed")
  /\ UNCHANGED <<reversalRef, erp, store, result, count>>

\* The window was due when it was read: the mark's outcome is not looked at.
ExpireOnClick(u) ==
  /\ pc[u] = "expire"
  /\ MarkWindow(on[u], "expired")
  /\ Goto(u, "close")
  /\ UNCHANGED <<record, erp, due, audit, announced, on, result, answer, count>>

-----------------------------------------------------------------------------
(* The reapers *)

\* Mutant: only the newest window of an item is swept.
ReapNewest(r, w) ==
  /\ pc[r] = "idle" /\ window[w] = "pending" /\ w \in due
  /\ \A v \in Window : v > w => window[v] = "none"
  /\ on' = [on EXCEPT ![r] = w]
  /\ Goto(r, "reap")
  /\ UNCHANGED <<record, erp, store, result, answer, count>>

\* list_expired_override_windows and the read of expire_window.
Reap(r, w) ==
  /\ pc[r] = "idle" /\ window[w] = "pending" /\ w \in due
  /\ on' = [on EXCEPT ![r] = w]
  /\ Goto(r, "reap")
  /\ UNCHANGED <<record, erp, store, result, answer, count>>

\* Mutant: a mark that matched no row counts.
ExpireBlindly(r) ==
  /\ pc[r] = "reap"
  /\ MarkWindow(on[r], "expired") /\ Goto(r, "close")
  /\ UNCHANGED <<record, erp, due, audit, announced, on, result, answer, count>>

\* A reaper that loses the race to another call leaves the item alone.
Expire(r) ==
  /\ pc[r] = "reap"
  /\ MarkWindow(on[r], "expired")
  /\ IF window[on[r]] = "pending"
     THEN Goto(r, "close") /\ UNCHANGED on
     ELSE Return(r)
  /\ UNCHANGED <<record, erp, due, audit, announced, result, answer, count>>

\* _transition_to_closed_safely: a posted item closes, errors are swallowed.
Close(c) ==
  /\ pc[c] = "close"
  /\ \/ /\ item' = IF item = "posted_to_erp" THEN Moved("closed", {}) ELSE item
        /\ UNCHANGED faults
     \/ Fault("write") /\ UNCHANGED item
  /\ IF c \in Undoer
     THEN Return(c) /\ Report(c, "expired")
     ELSE Goto(c, "announce") /\ UNCHANGED <<on, answer>>
  /\ UNCHANGED <<reversalRef, erp, store, result, clicks>>

\* The OVERRIDE_WINDOW_EXPIRED event; a failed enqueue is passed over.
Announce(r) ==
  /\ pc[r] = "announce"
  /\ \/ announced' = [announced EXCEPT ![on[r]] = @ + 1] /\ UNCHANGED faults
     \/ Fault("write") /\ UNCHANGED announced
  /\ Return(r)
  /\ UNCHANGED <<record, erp, window, due, audit, result, answer, clicks>>

\* The process of a call dies.
Crash(c) ==
  /\ pc[c] # "idle" /\ Fault("crash")
  /\ Return(c)
  /\ UNCHANGED <<record, erp, store, result, answer, clicks>>

-----------------------------------------------------------------------------

UndoerStep(u) ==
  \/ \E w \in Window : Load(u, w)
  \/ CheckItem(u) \/ CheckKey(u) \/ Request(u) \/ Refuse(u) \/ Abandon(u)
  \/ Raise(u) \/ HandleLate(u) \/ Audit(u) \/ Persist(u) \/ Mark(u)
  \/ TransitionToReversed(u) \/ ExpireOnClick(u) \/ Close(u) \/ Crash(u)

ReaperStep(r) ==
  \/ \E w \in Window : Reap(r, w)
  \/ Expire(r) \/ Close(r) \/ Announce(r)

Next ==
  \/ \E w \in Window : Open(w) \/ TimePasses(w)
  \/ PostingCloses
  \/ \E u \in Undoer : UndoerStep(u)
  \/ \E r \in Reaper : ReaperStep(r) \/ Crash(r)

\* Two loops sweep every minute in processes of their own, and time passes;
\* nobody has to click, and no call has to return.
Fairness ==
  /\ \A w \in Window : WF_vars(TimePasses(w))
  /\ \A r \in Reaper : WF_vars(ReaperStep(r))

Spec     == Init /\ [][Next]_vars
FairSpec == Spec /\ Fairness

-----------------------------------------------------------------------------
(* Properties *)

\* Every variable stays in its set.
TypeOK ==
  /\ item \in {"posted_to_erp", "closed", "reversed"}
  /\ reversalRef \in BOOLEAN
  /\ bill \in {"posted", "reversed"} /\ late \in SUBSET Undoer
  /\ window \in [Window -> WindowState] /\ due \in SUBSET Window
  /\ audit \in [Window -> {"none", "succeeded", "other"}]
  /\ announced \in [Window -> Nat]
  /\ pc \in [Caller -> UndoerPlace \cup ReaperPlace]
  /\ \A r \in Reaper : pc[r] \in ReaperPlace
  /\ on \in [Caller -> Window \cup {0}]
  /\ \A c \in Caller : pc[c] # "idle" => on[c] \in Window
  /\ result \in [Undoer -> Results] /\ answer \in [Undoer -> Outcomes]
  /\ clicks \in [Undoer -> Nat] /\ faults \in Nat

\* Whatever says that the posting was undone - a window, the item's metadata,
\* the audit trail, an answer to a user - is right about the ERP.
ReversedIsReal ==
  \/ bill = "reversed"
  \/ /\ ~reversalRef
     /\ \A w \in Window : window[w] # "reversed" /\ audit[w] # "succeeded"
     /\ \A u \in Undoer : answer[u] \notin {"reversed", "already_reversed"}

\* A window that was reversed, failed or expired keeps that outcome, whichever
\* clicks and sweeps still hold it as pending.
OutcomeSticks ==
  [][\A w \in Window :
       window[w] \in {"reversed", "failed", "expired"}
         => window'[w] = window[w]]_vars

\* Windows, item and announcements implement UndoPromise, whichever calls race.
Promise == INSTANCE UndoPromise WITH undone <- bill = "reversed", noted <- reversalRef

ImplementsUndo == Promise!UndoSpec

\* Two reapers and a late click announce the expiry of a window at most once,
\* and only when it did expire: not for a posting that was just undone.
ExpiryAnnouncedOnce ==
  \A w \in Window :
    announced[w] > 0 => announced[w] = 1 /\ window[w] = "expired"

\* Without a fault no reversal of the bill is lost: once the calls are over the
\* item's metadata names it, even when the window expired during the request.
ReversalRecorded ==
  bill = "reversed" /\ faults = 0 /\ (\A u \in Undoer : pc[u] = "idle")
    => reversalRef

\* No window stays open: from some point on it is undone, has failed, or was
\* swept after its time, though reapers die.
WindowsSettle ==
  \A w \in Window : <>[](window[w] # "pending")
=============================================================================
