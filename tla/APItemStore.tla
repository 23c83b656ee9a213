---------------------------- MODULE APItemStore ----------------------------
(***************************************************************************)
(* Writers of one ap_items row: update_ap_item of core/stores/ap_store.py  *)
(* with its callers that read before they write (the snooze handlers, the  *)
(* fraud flags of invoice_workflow.py, box_cas.py) and its mirrors into    *)
(* box_exceptions and box_outcomes.                                        *)
(*                                                                         *)
(* A write is four steps that other writers interleave with: the caller's  *)
(* read, update_ap_item's own read and validation, the transaction with    *)
(* the UPDATE and the audit INSERT, and the mirrors after the commit.      *)
(*                                                                         *)
(* No writer holds a lock here.  A few callers take the box lock around    *)
(* their writes, but snoozes, reverts, the approval walk, the record of a  *)
(* posting and the flag writers do not, so it keeps nobody out.            *)
(***************************************************************************)
EXTENDS APStates, Naturals, FiniteSets

CONSTANTS
  Writer,       \* concurrent callers of update_ap_item
  Op,           \* Writer -> the kinds of write it makes
  Target,       \* the states callers may ask for
  Flag,         \* entries of fraud_flags: every add_fraud_flag appends its own
  Code,         \* exception codes
  NoCode,       \* exception_code is empty
  CASAttempts   \* _FRAUD_FLAG_CAS_ATTEMPTS

OpKinds == {"move", "cas", "snooze", "unsnooze", "flag", "resolve", "raise",
            "clear"}

ASSUME StoreAssumption ==
  /\ Op \in [Writer -> SUBSET OpKinds]
  /\ Target \subseteq APState \ {"snoozed"}
  /\ NoCode \notin Code
  /\ CASAttempts \in Nat \ {0}

VARIABLES
  state,      \* ap_items.state
  preSnooze,  \* ap_items.metadata.pre_snooze_state, or "none"
  flags,      \* ap_items.fraud_flags: Flag -> none, open or resolved
  excCode,    \* ap_items.exception_code
  openExc,    \* unresolved rows of box_exceptions, by code
  outcome,    \* the one row of box_outcomes, or "none"
  audited,    \* the newest state_transition row: its new_state, and whether its
              \* prev_state is not where the row before it ended
  pc,         \* Writer -> where its write is
  op,         \* Writer -> what it writes: kind and argument
  read,       \* Writer -> fraud_flags, exception_code and prev_state it read
  fresh,      \* Writer -> updated_at has not moved since it read the row
  tries,      \* Writer -> CAS attempts of this write
  approved,   \* history: the approval that stands for the item
  late,       \* history: the item was overwritten since its latest decision
  overtaken,  \* history: Writer -> another moved the item since its caller's read
  lost        \* history: a compare-and-swap lost and left its audit row

L == INSTANCE APLifecycle WITH state <- state, preSnooze <- preSnooze,
                               approved <- approved, late <- late

row   == <<state, preSnooze, flags, excCode>>
side  == <<openExc, outcome>>
local == <<pc, op, read, fresh, tries>>
ghost == <<approved, late, overtaken, lost>>
vars  == <<row, side, audited, local, ghost>>

StateOps == {"move", "cas", "snooze", "unsnooze"}
CASOps   == {"cas", "flag", "resolve"}
Outcomes == {"posted_to_erp", "rejected", "reversed"}

Request(kind, arg) == [kind |-> kind, arg |-> arg]
Nothing == Request("none", "none")
NoRead  == [flags |-> [f \in Flag |-> "none"], exc |-> NoCode, prev |-> "received"]
Args    == Target \cup L!SNOOZEABLE_STATES \cup Flag \cup Code \cup {"none"}

\* The state a request asks for.
NewState(o) == IF o.kind = "snooze" THEN "snoozed"
               ELSE IF o.kind = "unsnooze" THEN L!RestoreState(o.arg)
               ELSE o.arg

Init ==
  /\ state = "received" /\ preSnooze = "none"
  /\ flags = [f \in Flag |-> "none"] /\ excCode = NoCode
  /\ openExc = {} /\ outcome = "none"
  /\ audited = [to |-> "received", gap |-> FALSE]
  /\ pc = [w \in Writer |-> "idle"]
  /\ op = [w \in Writer |-> Nothing]
  /\ read = [w \in Writer |-> NoRead]
  /\ fresh = [w \in Writer |-> FALSE]
  /\ tries = [w \in Writer |-> 0]
  /\ approved = FALSE /\ late = FALSE /\ lost = FALSE
  /\ overtaken = [w \in Writer |-> FALSE]

Goto(w, l) == pc' = [pc EXCEPT ![w] = l]

\* The write returns to its caller; the registers of a finished write are
\* cleared so that equal situations are equal states.
Finish(w) ==
  /\ Goto(w, "idle")
  /\ op' = [op EXCEPT ![w] = Nothing]
  /\ read' = [read EXCEPT ![w] = NoRead]
  /\ tries' = [tries EXCEPT ![w] = 0]

\* It returns without an UPDATE, or long after it.
Abandon(w) ==
  /\ Finish(w)
  /\ fresh' = [fresh EXCEPT ![w] = FALSE]
  /\ overtaken' = [overtaken EXCEPT ![w] = FALSE]

-----------------------------------------------------------------------------
(* The caller's read *)

\* What a caller that has just read the row may ask for.
Requests(w) ==
  {o \in [kind : Op[w], arg : Args] :
     CASE o.kind \in {"move", "cas"} ->
            o.arg \in Target /\ (state = "snoozed" => o.arg = "closed")
       [] o.kind = "snooze" -> o.arg = state /\ state \in L!SNOOZEABLE_STATES
       [] o.kind = "unsnooze" ->
            /\ o.arg = preSnooze /\ state = "snoozed"
            /\ ValidTransition("snoozed", L!RestoreState(preSnooze))
       [] o.kind = "flag" ->
            /\ o.arg \in Flag /\ flags[o.arg] = "none"
            /\ \A v \in Writer : op[v] # Request("flag", o.arg)
       [] o.kind = "resolve" -> o.arg \in Flag /\ flags[o.arg] = "open"
       [] o.kind = "raise" -> o.arg \in Code
       [] OTHER -> o.arg = "none"}

ReadRow(w) ==
  /\ read' = [read EXCEPT ![w].flags = flags]
  /\ fresh' = [fresh EXCEPT ![w] = TRUE]

Begin(w) ==
  /\ pc[w] = "idle"
  /\ \E o \in Requests(w) : op' = [op EXCEPT ![w] = o]
  /\ ReadRow(w)
  /\ Goto(w, "check")
  /\ UNCHANGED <<row, side, audited, tries, ghost>>

-----------------------------------------------------------------------------
(* update_ap_item *)

\* Mutant: the transition is not validated.
AllowedAlways(o) == TRUE

Allowed(o) == o.kind \in StateOps => ValidTransition(state, NewState(o))

\* The row is read again: a state is validated against it and remembered for
\* the audit row, and so is the exception code that may be replaced.
Check(w) ==
  /\ pc[w] = "check"
  /\ Allowed(op[w])
  /\ read' = [read EXCEPT ![w] =
                [flags |-> @.flags, exc |-> excCode, prev |-> state]]
  /\ Goto(w, "commit")
  /\ UNCHANGED <<row, side, audited, op, fresh, tries, ghost>>

\* A rejected transition raises.
Reject(w) ==
  /\ pc[w] = "check"
  /\ ~Allowed(op[w])
  /\ Abandon(w)
  /\ UNCHANGED <<row, side, audited, approved, late, lost>>

\* Every committed UPDATE moves updated_at.
Touch == fresh' = [v \in Writer |-> FALSE]

\* Mutant: the expected updated_at of a flag write is not checked.
MatchesAnyRow(w) == op[w].kind = "cas" => fresh[w]

\* Mutant: the expected updated_at of a state write is not checked.
MatchesAnyState(w) == op[w].kind \in {"flag", "resolve"} => fresh[w]

MatchesRow(w) == op[w].kind \in CASOps => fresh[w]

\* Mutant: the metadata of a snooze is built after the state was set.
PreSnoozeTooLate(o) ==
  CASE o.kind = "snooze"   -> "snoozed"
    [] o.kind = "unsnooze" -> "none"
    [] OTHER               -> preSnooze

\* The snooze handlers write the metadata they built from their own read.
PreSnoozeAfter(o) ==
  CASE o.kind = "snooze"   -> o.arg
    [] o.kind = "unsnooze" -> "none"
    [] OTHER               -> preSnooze

\* Mutant: the row's state is read again for the audit row.
AuditOfRow(w) == audited' = [to |-> NewState(op[w]), gap |-> state # audited.to]

\* The audit row tells the state that was validated and the new one.
Audit(w) ==
  audited' = [to |-> NewState(op[w]), gap |-> read[w].prev # audited.to]

\* Only an outcome has anything left to do after the commit.
AfterCommit(w) ==
  IF NewState(op[w]) \in Outcomes
  THEN Goto(w, "mirror") /\ UNCHANGED <<op, read, tries>>
  ELSE Finish(w)

\* UPDATE and audit INSERT of a state change, one transaction.
CommitState(w) ==
  LET o == op[w] IN
  /\ pc[w] = "commit" /\ o.kind \in StateOps /\ MatchesRow(w)
  /\ state' = NewState(o)
  /\ preSnooze' = PreSnoozeAfter(o)
  /\ Audit(w)
  /\ approved' = L!ApprovedAfter(approved, NewState(o))
  /\ late' = (overtaken[w] \/ L!LateAfter(late, NewState(o)))
  /\ overtaken' = [v \in Writer |-> v # w /\ pc[v] # "idle"]
  /\ Touch /\ AfterCommit(w)
  /\ UNCHANGED <<flags, excCode, side, lost>>

\* The UPDATE of a stale compare-and-swap matches no row, but the audit row
\* is inserted all the same, and its rowcount is what reports success.
CommitStateStale(w) ==
  /\ pc[w] = "commit" /\ op[w].kind \in StateOps /\ ~MatchesRow(w)
  /\ Audit(w)
  /\ lost' = TRUE /\ overtaken' = [overtaken EXCEPT ![w] = FALSE]
  /\ AfterCommit(w)
  /\ UNCHANGED <<row, side, fresh, approved, late>>

CommitFlags(w) ==
  LET o == op[w] IN
  /\ pc[w] = "commit" /\ o.kind \in {"flag", "resolve"} /\ MatchesRow(w)
  /\ flags' = [read[w].flags EXCEPT ![o.arg] =
                 IF o.kind = "flag" THEN "open" ELSE "resolved"]
  /\ Touch /\ Finish(w)
  /\ overtaken' = [overtaken EXCEPT ![w] = FALSE]
  /\ UNCHANGED <<state, preSnooze, excCode, side, audited, approved, late,
                 lost>>

\* A stale flag write is retried from a new read, CASAttempts times in all.
RetryFlags(w) ==
  /\ pc[w] = "commit" /\ op[w].kind \in {"flag", "resolve"} /\ ~MatchesRow(w)
  /\ IF tries[w] + 1 < CASAttempts
     THEN /\ tries' = [tries EXCEPT ![w] = @ + 1]
          /\ ReadRow(w)
          /\ UNCHANGED <<pc, op, overtaken>>
     ELSE Abandon(w)
  /\ UNCHANGED <<row, side, audited, approved, late, lost>>

CommitException(w) ==
  /\ pc[w] = "commit" /\ op[w].kind \in {"raise", "clear"}
  /\ excCode' = IF op[w].kind = "raise" THEN op[w].arg ELSE NoCode
  /\ Touch /\ Goto(w, "mirror")
  /\ overtaken' = [overtaken EXCEPT ![w] = FALSE]
  /\ UNCHANGED <<state, preSnooze, flags, side, audited, op, read, tries,
                 approved, late, lost>>

-----------------------------------------------------------------------------
(* The mirrors after the commit *)

\* record_box_outcome: the unique key of the box keeps its first outcome, for
\* callers that looked at once too, and the look before only saves the INSERT.
MirrorOutcome(w) ==
  /\ pc[w] = "mirror" /\ op[w].kind \in StateOps
  /\ outcome' = IF NewState(op[w]) \in Outcomes /\ outcome = "none"
                THEN NewState(op[w]) ELSE outcome
  /\ Abandon(w)
  /\ UNCHANGED <<row, openExc, audited, approved, late, lost>>

\* A code that differs from the one read opens a row; clearing a code closes
\* every open row.
MirrorException(w) ==
  /\ pc[w] = "mirror" /\ op[w].kind \in {"raise", "clear"}
  /\ openExc' =
       CASE op[w].kind = "raise" /\ op[w].arg # read[w].exc
              -> openExc \cup {op[w].arg}
         [] op[w].kind = "clear" /\ read[w].exc # NoCode -> {}
         [] OTHER -> openExc
  /\ Abandon(w)
  /\ UNCHANGED <<row, outcome, audited, approved, late, lost>>

\* The caller's process dies.
Crash(w) ==
  /\ pc[w] # "idle"
  /\ Abandon(w)
  /\ UNCHANGED <<row, side, audited, approved, late, lost>>

WriterStep(w) ==
  \/ Begin(w) \/ Check(w) \/ Reject(w)
  \/ CommitState(w) \/ CommitStateStale(w)
  \/ CommitFlags(w) \/ RetryFlags(w) \/ CommitException(w)
  \/ MirrorOutcome(w) \/ MirrorException(w) \/ Crash(w)

Next == \E w \in Writer : WriterStep(w)

Spec == Init /\ [][Next]_vars

-----------------------------------------------------------------------------
(* Properties *)

\* Every variable stays in its set.
FlagList == [Flag -> {"none", "open", "resolved"}]
TypeOK ==
  /\ L!LifecycleType
  /\ flags \in FlagList
  /\ excCode \in Code \cup {NoCode} /\ openExc \in SUBSET Code
  /\ outcome \in Outcomes \cup {"none"}
  /\ audited \in [to : APState, gap : BOOLEAN]
  /\ pc \in [Writer -> {"idle", "check", "commit", "mirror"}]
  /\ op \in [Writer -> [kind : OpKinds \cup {"none"}, arg : Args]]
  /\ read \in [Writer -> [flags : FlagList, exc : Code \cup {NoCode},
                          prev : APState]]
  /\ fresh \in [Writer -> BOOLEAN] /\ overtaken \in [Writer -> BOOLEAN]
  /\ tries \in [Writer -> 0 .. CASAttempts - 1]
  /\ lost \in BOOLEAN

\* Writer w writes a state without comparing, over another than it validated.
WritesOver(w) ==
  /\ pc[w] = "commit" /\ pc'[w] # "commit" /\ op[w].kind \notin CASOps
  /\ read[w].prev # state

\* The row leaves the transition graph only where a caller that does not
\* compare updated_at writes over a state committed since its validation: a
\* compare-and-swap never does, though it validates on another connection.
LegalStep ==
  [][state' # state /\ ~ValidTransition(state, state')
       => \E w \in Writer : WritesOver(w)]_vars

\* Callers without any lock implement the life of an AP item: a write that
\* nobody overtook since its caller's read is a move, a snooze or an unsnooze.
ImplementsLifecycle == L!Spec

\* An item reaches the ERP without a standing approval only through a write
\* that was overtaken, and not beyond its next decision: no sequence of
\* snoozes, reverts, refused moves and crashes gets it there.
ApprovedBeforePosting == L!ApprovedBeforePosting

\* The audit trail shows what happened.  Until a compare-and-swap has lost and
\* left its row, the newest row tells the state of the item, whatever was
\* refused and wherever a caller died, and a step off the graph shows as a row
\* that does not start where the one before it ended.
AuditShowsRaces ==
  [][~lost' =>
       /\ audited'.to = state'
       /\ state' # state /\ ~ValidTransition(state, state')
            => audited'.gap]_vars

\* No flag is erased, and none that was resolved is open again.
KeepFlags ==
  \A f \in Flag : /\ flags[f] # "none" => flags'[f] # "none"
                  /\ flags[f] = "resolved" => flags'[f] = "resolved"

\* A flag write erases no flag another caller has committed.
FlagsStick == [][KeepFlags]_vars
=============================================================================
