---------------------------- MODULE AgingSnapshots ----------------------------
(***************************************************************************)
(* run_aging_snapshot: read what is outstanding, then, in one transaction, *)
(* find or create the snapshot of the day, insert one bucket row per       *)
(* invoice, and overwrite the snapshot's totals.                           *)
(*                                                                         *)
(* Each element of Runs is one call.  The reading is taken before the      *)
(* transaction begins.  There is no unique index on the snapshot: the day  *)
(* is arbitrated by a SELECT, which sees committed rows only, followed by  *)
(* an UPDATE of the row found, which takes its lock and keeps it to the    *)
(* end of the transaction, or by an INSERT.  What a transaction writes     *)
(* becomes visible when it commits, so the model writes it there.  A run   *)
(* that stops at an await (port or database error, crash) is rolled back.  *)
(*                                                                         *)
(* Rows have fresh random ids in the code; here a snapshot is named by the *)
(* run that inserted it, and a bucket row by its run and its invoice.      *)
(***************************************************************************)
EXTENDS Receivables, Sums

CONSTANTS
    Runs,           \* calls of run_aging_snapshot
    Days,           \* the dates they are called for
    Serial          \* TRUE: the scheduler never overlaps two calls

\* A reading is a Vec of rows.
ASSUME InvoicesAssumption == IsFiniteSet(Invoices)
ASSUME DaysAssumption == Days \subseteq Int /\ Days # {} /\ Serial \in BOOLEAN

VARIABLES
    snapshots,      \* committed aging_snapshots rows, by id
    bucketRows,     \* committed aging_buckets rows
    run             \* what each call is doing

agingVars == <<snapshots, bucketRows, run>>

Totals == [Buckets -> Nat]
Snapshots == [day : Days, total_outstanding : Nat, totals : Totals]
BucketRows == [run : Runs, snapshot : Runs, invoice : Invoices,
               bucket : Buckets, amount : Nat]

\* Calls: not made yet, at one of the awaits, or over one way or the other.
RunSteps == {"arbitrate", "touch", "write"}
Ended == {"committed", "rolled_back"}
RunStates == [at : {"new"} \cup RunSteps \cup Ended, day : Days,
              reading : Readings, snapshot : Runs]
Unread == [i \in Invoices |-> 0]
New(r) == [at |-> "new", day |-> CHOOSE day \in Days : TRUE,
           reading |-> Unread, snapshot |-> r]

Init ==
    /\ snapshots = <<>>
    /\ bucketRows = {}
    /\ run = [r \in Runs |-> New(r)]

At(r, step) == run[r].at = step
End(r, how) == run' = [run EXCEPT ![r].at = how, ![r].reading = Unread]
OfDay(day) == {s \in DOMAIN snapshots : snapshots[s].day = day}

-------------------------------------------------------------------------------
\* Fault: the lock is the session's and outlives the transaction.
LockKeptOnRollback(r, s) ==
    run[r].at \in {"write", "rolled_back"} /\ run[r].snapshot = s

\* A transaction that wrote the snapshot's row holds the row lock.
Locks(r, s) == At(r, "write") /\ run[r].snapshot = s

\* The port call, before the transaction.
ReadOutstanding(r) ==
    /\ At(r, "new")
    /\ Serial => \A q \in Runs : run[q].at \notin RunSteps
    /\ \E day \in Days, reading \in Readings :
          run' = [run EXCEPT ![r].at = "arbitrate", ![r].day = day,
                             ![r].reading = reading]
    /\ UNCHANGED <<snapshots, bucketRows>>

\* Fault: every run opens a snapshot of its own.
AlwaysInsert(r) == {r}

\* Fault: the arbitration does not compare the date.
AnySnapshot(r) == IF DOMAIN snapshots = {} THEN {r} ELSE DOMAIN snapshots

\* upsert_snapshot's SELECT: any committed snapshot of the day, else a new id.
Candidates(r) ==
    IF OfDay(run[r].day) = {} THEN {r} ELSE OfDay(run[r].day)

Arbitrate(r) ==
    /\ At(r, "arbitrate")
    /\ \E s \in Candidates(r) :
          run' = [run EXCEPT ![r].at = "touch", ![r].snapshot = s]
    /\ UNCHANGED <<snapshots, bucketRows>>

\* upsert_snapshot's UPDATE, which waits for the row, or INSERT.
Touch(r) ==
    /\ At(r, "touch")
    /\ \A q \in Runs \ {r} : ~Locks(q, run[r].snapshot)
    /\ run' = [run EXCEPT ![r].at = "write"]
    /\ UNCHANGED <<snapshots, bucketRows>>

TotalsOf(reading, day) ==
    [b \in Buckets |->
        SumOn(reading, {i \in Invoices :
                           Column[BucketIndex(DaysPastDue(i, day))] = b})]

RowsOf(r) ==
    LET reading == run[r].reading IN
    {[run |-> r, snapshot |-> run[r].snapshot, invoice |-> i,
      bucket |-> BucketName(DaysPastDue(i, run[r].day)),
      amount |-> reading[i]] : i \in Outstanding(reading)}

\* insert_bucket for each row, update_totals, commit.
Write(r) ==
    LET s == run[r].snapshot
        reading == run[r].reading
        row == [day |-> run[r].day,
                total_outstanding |-> SumOn(reading, Invoices),
                totals |-> TotalsOf(reading, run[r].day)]
    IN
    /\ At(r, "write")
    /\ snapshots' = [t \in DOMAIN snapshots \cup {s} |->
                        IF t = s THEN row ELSE snapshots[t]]
    /\ bucketRows' = bucketRows \cup RowsOf(r)
    /\ End(r, "committed")

RollBack(r) ==
    /\ run[r].at \in RunSteps
    /\ End(r, "rolled_back")
    /\ UNCHANGED <<snapshots, bucketRows>>

RunNext(r) == ReadOutstanding(r) \/ Arbitrate(r) \/ Touch(r) \/ Write(r)

Next == \E r \in Runs : RunNext(r) \/ RollBack(r)

\* A call that has started is driven by its executor, and the database serves
\* it: weak fairness on the steps after the first.  Nobody has to make a call,
\* and nothing has to fail.
Progress(r) == Arbitrate(r) \/ Touch(r) \/ Write(r)
Spec == Init /\ [][Next]_agingVars
FairSpec == Spec /\ \A r \in Runs : WF_agingVars(Progress(r))
-------------------------------------------------------------------------------
TypeOK ==
    /\ DOMAIN snapshots \subseteq Runs
    /\ \A s \in DOMAIN snapshots : snapshots[s] \in Snapshots
    /\ bucketRows \subseteq BucketRows
    /\ run \in [Runs -> RunStates]

\* The snapshot's five totals and its grand total are those of one single run,
\* whole: they come through bucket_index and the totals array, the run's rows
\* through bucket_name, in another statement, and runs that share the snapshot
\* overwrite each other.  No total is left over from another run or from one
\* that rolled back.
TotalsAreOneRuns ==
    \A s \in DOMAIN snapshots :
        \E r \in Runs :
            LET rows == {row \in bucketRows : row.run = r}
                amount(rs) == SumOn([row \in rs |-> row.amount], rs)
            IN  /\ At(r, "committed") /\ run[r].snapshot = s
                /\ snapshots[s].total_outstanding = amount(rows)
                /\ \A b \in Buckets :
                      snapshots[s].totals[b] =
                          amount({row \in rows : row.bucket = b})

\* A bucket row stands under a committed snapshot of the day its run was
\* called for: the day that its days past due were counted from.
RowsUnderTheirDay ==
    \A row \in bucketRows :
        /\ row.snapshot \in DOMAIN snapshots
        /\ snapshots[row.snapshot].day = run[row.run].day

\* Runs that are about to add a snapshot of the day.
Openers(day) ==
    {r \in Runs : /\ run[r].day = day
                  /\ run[r].at \in {"touch", "write"}
                  /\ run[r].snapshot = r}

\* Once the day has a snapshot no further run sets out to open another: only
\* runs that had arbitrated before it was committed still can.
NoLateTwin ==
    [][\A day \in Days :
          OfDay(day) # {} => Openers(day)' \subseteq Openers(day)]_agingVars

\* The calls that were made all end, whoever waits for whom and whoever fails:
\* the row lock of the shared snapshot is always given up.  (No further call
\* is made once every element of Runs has been used.)
RunsEnd == []<>(\A r \in Runs : run[r].at \notin RunSteps)

-------------------------------------------------------------------------------
\* ADR-006: "at-least-once cron delivery cannot duplicate".  The snapshot a
\* re-run shares lists each invoice once.
InvoiceOncePerSnapshot ==
    \A a, b \in bucketRows :
        a.snapshot = b.snapshot /\ a.invoice = b.invoice => a = b
===============================================================================
