----------------------------- MODULE Receivables -----------------------------
(***************************************************************************)
(* What aging and dunning share: the receivables they read from billing,   *)
(* and the tables that turn days past due into a bucket and into a level.  *)
(*                                                                         *)
(* Dates are day numbers.  Billing is external: it changes what is         *)
(* outstanding on an invoice whenever it likes, so that any two calls of   *)
(* outstanding_for may read anything; a reading gives an invoice that the  *)
(* port does not return the amount 0.  The direction ("receive", "pay") is *)
(* one more part of the key of everything below and is fixed.              *)
(***************************************************************************)
EXTENDS Integers

CONSTANTS
    Invoices,
    DueDate,          \* the due date of each invoice, or NoDate
    NoDate,
    MaxOutstanding    \* bound: the largest amount outstanding

ASSUME DueDateAssumption == DueDate \in [Invoices -> Int \cup {NoDate}]
ASSUME OutstandingAssumption == MaxOutstanding \in Nat

Readings == [Invoices -> 0..MaxOutstanding]

\* The rows the port returns.
Outstanding(reading) == {i \in Invoices : reading[i] > 0}

\* An invoice without a due date is taken to be due on the day of the run.
DaysPastDue(i, asOf) == IF DueDate[i] = NoDate THEN 0 ELSE asOf - DueDate[i]

-------------------------------------------------------------------------------
Buckets == {"current", "bucket_1_30", "bucket_31_60", "bucket_61_90",
            "bucket_90p"}

\* The columns of AgingTotals, in the order of the totals array.
Column == [k \in 0..4 |->
    CASE k = 0 -> "current"
      [] k = 1 -> "bucket_1_30"
      [] k = 2 -> "bucket_31_60"
      [] k = 3 -> "bucket_61_90"
      [] k = 4 -> "bucket_90p"]

\* Fault: the second bucket opens a day early.
BucketIndexEarly(dpd) ==
    CASE dpd <= 0        -> 0
      [] dpd \in 1..29   -> 1
      [] dpd \in 30..60  -> 2
      [] dpd \in 61..90  -> 3
      [] dpd > 90        -> 4

BucketIndex(dpd) ==
    CASE dpd <= 0        -> 0
      [] dpd \in 1..30   -> 1
      [] dpd \in 31..60  -> 2
      [] dpd \in 61..90  -> 3
      [] dpd > 90        -> 4

\* Fault: the first bucket is given a name the column's type does not know.
BucketNameUnknown(dpd) ==
    CASE dpd <= 0        -> "current"
      [] dpd \in 1..30   -> "bucket_0_30"
      [] dpd \in 31..60  -> "bucket_31_60"
      [] dpd \in 61..90  -> "bucket_61_90"
      [] dpd > 90        -> "bucket_90p"

BucketName(dpd) ==
    CASE dpd <= 0        -> "current"
      [] dpd \in 1..30   -> "bucket_1_30"
      [] dpd \in 31..60  -> "bucket_31_60"
      [] dpd \in 61..90  -> "bucket_61_90"
      [] dpd > 90        -> "bucket_90p"

\* The escalation ladder; dunning asks only for invoices past their due date.
Levels == <<"reminder", "overdue", "final_notice", "collection", "written_off">>

\* Fault: the first level is given a name the column's type does not know.
DunningLevelUnknown(dpd) ==
    CASE dpd \in 1..7    -> "friendly_reminder"
      [] dpd \in 8..30   -> "overdue"
      [] dpd \in 31..60  -> "final_notice"
      [] dpd \in 61..90  -> "collection"
      [] OTHER           -> "written_off"

DunningLevel(dpd) ==
    CASE dpd \in 1..7    -> "reminder"
      [] dpd \in 8..30   -> "overdue"
      [] dpd \in 31..60  -> "final_notice"
      [] dpd \in 61..90  -> "collection"
      [] OTHER           -> "written_off"
===============================================================================
