------------------------------ MODULE PostOnce ------------------------------
(***************************************************************************)
(* What posting an approved invoice promises to finance, whichever calls,  *)
(* jobs and plans race for it: one bill in the ERP unless a fault excuses  *)
(* a second one, an item that is on record as posted only with a bill      *)
(* behind it and for good, and a retry job that is tried MaxRetries times  *)
(* at most and says it is completed only when the posting is on record.    *)
(* InvoicePosting implements it, and so does Coordination.                 *)
(***************************************************************************)
EXTENDS Naturals

CONSTANTS Bill, MaxRetries

VARIABLES
  bills,     \* the bills of the invoice in the ERP
  recorded,  \* the item says that it was posted
  excused,   \* something happened after which bills are no longer counted
  job,       \* status of the retry job
  attempts   \* how often it was claimed

once == <<bills, recorded, excused, job, attempts>>

OnceInit == /\ bills = {} /\ recorded = FALSE /\ excused \in BOOLEAN
            /\ job = "none" /\ attempts = 0

MakeBill == /\ bills = {} \/ excused
            /\ \E b \in Bill \ bills : bills' = bills \cup {b}
            /\ UNCHANGED <<recorded, excused, job, attempts>>

Record   == /\ bills # {} /\ ~recorded
            /\ recorded' = TRUE
            /\ UNCHANGED <<bills, excused, job, attempts>>

Excuse   == /\ ~excused /\ excused' = TRUE
            /\ UNCHANGED <<bills, recorded, job, attempts>>

Enqueue  == /\ job = "none" /\ job' = "pending"
            /\ UNCHANGED <<bills, recorded, excused, attempts>>

Claim    == /\ job = "pending" /\ attempts < MaxRetries
            /\ job' = "running" /\ attempts' = attempts + 1
            /\ UNCHANGED <<bills, recorded, excused>>

Settle   == /\ job = "running"
            /\ \/ job' = "completed" /\ recorded
               \/ job' = "pending" /\ attempts < MaxRetries
               \/ job' = "dead_letter"
            /\ UNCHANGED <<bills, recorded, excused, attempts>>

OnceNext == MakeBill \/ Record \/ Excuse \/ Enqueue \/ Claim \/ Settle

OnceSpec == OnceInit /\ [][OnceNext]_once

\* Finance's books: without an excuse there is one bill, what is on record was
\* posted, and a job that says it is completed has a bill to show for it.
BooksAgree ==
  /\ ~excused => \A a, b \in bills : a = b
  /\ recorded => bills # {}
  /\ job = "completed" => recorded
  /\ attempts <= MaxRetries
=============================================================================
