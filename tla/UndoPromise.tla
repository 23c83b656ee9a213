----------------------------- MODULE UndoPromise -----------------------------
(***************************************************************************)
(* What the override windows of a posting promise, however clicks, sweeps  *)
(* and late answers of the ERP interleave: a window is opened once and     *)
(* settled once, as reversed and on the item's record only when the bill   *)
(* is undone, and the expiry of an expired window is announced once.       *)
(* OverrideWindow implements it.                                           *)
(***************************************************************************)
EXTENDS Naturals

CONSTANT Window

VARIABLES
  window,     \* Window -> the window's state
  announced,  \* Window -> announcements of its expiry
  undone,     \* the bill is gone from the ERP
  noted       \* the item's record names the reversal

undo == <<window, announced, undone, noted>>

Settled == {"reversed", "failed", "expired"}

UndoInit == /\ window = [w \in Window |-> "none"]
            /\ announced = [w \in Window |-> 0]
            /\ undone = FALSE /\ noted = FALSE

OpenWindow(w) == /\ window[w] = "none"
                 /\ window' = [window EXCEPT ![w] = "pending"]
                 /\ UNCHANGED <<announced, undone, noted>>

Settle(w) == /\ window[w] = "pending"
             /\ \E s \in Settled : /\ s = "reversed" => undone
                                   /\ window' = [window EXCEPT ![w] = s]
             /\ UNCHANGED <<announced, undone, noted>>

AnnounceExpiry(w) == /\ window[w] = "expired" /\ announced[w] = 0
                     /\ announced' = [announced EXCEPT ![w] = 1]
                     /\ UNCHANGED <<window, undone, noted>>

Undo == /\ ~undone /\ undone' = TRUE
        /\ UNCHANGED <<window, announced, noted>>

Note == /\ undone /\ ~noted /\ noted' = TRUE
        /\ UNCHANGED <<window, announced, undone>>

UndoNext ==
  \/ \E w \in Window : OpenWindow(w) \/ Settle(w) \/ AnnounceExpiry(w)
  \/ Undo \/ Note

UndoSpec == UndoInit /\ [][UndoNext]_undo

\* What a reader of the windows may rely on.
WindowsAgree ==
  /\ (\E w \in Window : window[w] = "reversed") \/ noted => undone
  /\ \A w \in Window : announced[w] > 0 => announced[w] = 1 /\ window[w] = "expired"
=============================================================================
