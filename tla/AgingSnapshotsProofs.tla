------------------------- MODULE AgingSnapshotsProofs -------------------------
(***************************************************************************)
(* What AgingSnapshots guarantees for every set of invoices, calls and     *)
(* days: what is stored is typed, rows stand under a snapshot of their own *)
(* day, a day that has a snapshot is given no other by a run that looks    *)
(* for one afterwards, and the totals of a snapshot are those of the rows  *)
(* of one run.                                                             *)
(***************************************************************************)
EXTENDS AgingSnapshots, ReceivablesProofs, SumsProofs

-------------------------------------------------------------------------------
\* The rows a run inserts, and the snapshot it writes, for what it read.
RowsFor(r, s, day, reading) ==
    {[run |-> r, snapshot |-> s, invoice |-> i,
      bucket |-> BucketName(DaysPastDue(i, day)), amount |-> reading[i]] :
        i \in Outstanding(reading)}
Totalled(day, reading) ==
    [day |-> day, total_outstanding |-> SumOn(reading, Invoices),
     totals |-> TotalsOf(reading, day)]

AmountOf(rows) == SumOn([row \in rows |-> row.amount], rows)
InBucket(rows, b) == {row \in rows : row.bucket = b}

\* The invoices whose delay on the day falls into a column.
Columned(b, day) == {i \in Invoices : Column[BucketIndex(DaysPastDue(i, day))] = b}

\* Delays are numbers, and fall into the bucket and the column of one name.
LEMMA Delays ==
    ASSUME NEW i \in Invoices, NEW day \in Days
    PROVE  /\ DaysPastDue(i, day) \in Int
           /\ BucketName(DaysPastDue(i, day)) =
                Column[BucketIndex(DaysPastDue(i, day))]
           /\ BucketName(DaysPastDue(i, day)) \in Buckets
<1> DEFINE d == DaysPastDue(i, day)
<1>1. d \in Int
  BY DueDateAssumption, DaysAssumption DEF DaysPastDue
<1> HIDE DEF d
<1>2. BucketName(d) = Column[BucketIndex(d)]
  BY <1>1, BucketsAgree
<1>3. BucketName(d) \in Buckets
  BY <1>1 DEF BucketName, Buckets
<1> QED
  BY <1>1, <1>2, <1>3 DEF d

\* What was read adds up to typed totals.
LEMMA TotalsTyped ==
    ASSUME NEW reading \in Readings, NEW day \in Days
    PROVE  Totalled(day, reading) \in Snapshots
<1>1. \A i \in Invoices : reading[i] \in Nat
  BY OutstandingAssumption DEF Readings
<1>2. ASSUME NEW Q \in SUBSET Invoices PROVE SumOn(reading, Q) \in Nat
  <2>1. IsFiniteSet(Q)
    BY InvoicesAssumption, FS_Subset
  <2> QED
    BY <1>1, <2>1, SumNat
<1>3. TotalsOf(reading, day) \in Totals
  <2>1. TotalsOf(reading, day) = [b \in Buckets |-> SumOn(reading, Columned(b, day))]
    BY DEF TotalsOf, Columned
  <2>2. \A b : Columned(b, day) \in SUBSET Invoices
    BY DEF Columned
  <2> QED
    BY <1>2, <2>1, <2>2 DEF Totals
<1>4. SumOn(reading, Invoices) \in Nat
  BY <1>2
<1> QED
  BY <1>3, <1>4 DEF Totalled, Snapshots

\* The rows for some of the invoices add up to what was read of them: there is
\* one row for each that has something outstanding.
LEMMA RowsAddUp ==
    ASSUME NEW r, NEW s, NEW day \in Days, NEW reading \in Readings,
           NEW Q \in SUBSET Invoices
    PROVE  SumOn(reading, Q) =
           AmountOf({row \in RowsFor(r, s, day, reading) : row.invoice \in Q})
<1> DEFINE rows == {row \in RowsFor(r, s, day, reading) : row.invoice \in Q}
           f == [row \in rows |-> row.amount]
           h == [row \in rows |-> row.invoice]
<1>1. \A i \in Invoices : reading[i] \in Nat
  BY OutstandingAssumption DEF Readings
<1>2. IsFiniteSet(Q)
  BY InvoicesAssumption, FS_Subset
<1>3. \A row \in rows :
         f[row] \in Int /\ h[row] \in Q /\ reading[h[row]] = f[row]
  BY <1>1 DEF RowsFor, Outstanding
<1>4. \A p, q \in rows : h[p] = h[q] => p = q
  BY DEF RowsFor
<1>5. ASSUME NEW i \in Q, \A row \in rows : h[row] # i PROVE reading[i] = 0
  <2> SUFFICES ASSUME reading[i] > 0 PROVE FALSE
    BY <1>1
  <2> DEFINE row == [run |-> r, snapshot |-> s, invoice |-> i,
                     bucket |-> BucketName(DaysPastDue(i, day)),
                     amount |-> reading[i]]
  <2>1. row \in rows /\ h[row] = i
    BY DEF RowsFor, Outstanding
  <2> QED
    BY <1>5, <2>1
<1>6. h \in Injection(rows, Q)
  BY <1>3, <1>4 DEF Injection, IsInjective
<1>7. IsFiniteSet(rows)
  <2> HIDE DEF rows, h
  <2> QED
    BY <1>2, <1>6, FS_Injection
<1> HIDE DEF rows, f, h
<1>8. SumOn(reading, Q) = SumOn(f, rows)
  BY <1>2, <1>3, <1>4, <1>5, <1>7, SumRenamed
<1> QED
  BY <1>8 DEF AmountOf, rows, f

\* The totals of a reading are those of its rows, whole and by bucket.
LEMMA TotalsOfRows ==
    ASSUME NEW r, NEW s, NEW day \in Days, NEW reading \in Readings
    PROVE  LET rows == RowsFor(r, s, day, reading)
               snapshot == Totalled(day, reading)
           IN  /\ snapshot.total_outstanding = AmountOf(rows)
               /\ \A b \in Buckets :
                     snapshot.totals[b] = AmountOf(InBucket(rows, b))
<1> DEFINE rows == RowsFor(r, s, day, reading)
<1>1. rows = {row \in rows : row.invoice \in Invoices}
  BY DEF RowsFor, Outstanding
<1>2. SumOn(reading, Invoices) = AmountOf(rows)
  BY <1>1, RowsAddUp
<1>3. ASSUME NEW b \in Buckets
      PROVE  TotalsOf(reading, day)[b] = AmountOf(InBucket(rows, b))
  <2> DEFINE Q == Columned(b, day)
  <2>1. {row \in rows : row.invoice \in Q} = InBucket(rows, b)
    <3>1. \A row \in rows : row.invoice \in Invoices /\
                              row.bucket = BucketName(DaysPastDue(row.invoice, day))
      BY DEF RowsFor, Outstanding
    <3>2. \A i \in Invoices : i \in Q <=> BucketName(DaysPastDue(i, day)) = b
      BY Delays DEF Columned
    <3> HIDE DEF rows, Q
    <3> QED
      BY <3>1, <3>2 DEF InBucket
  <2>2. Q \in SUBSET Invoices
    BY DEF Columned
  <2>3. SumOn(reading, Q) = AmountOf({row \in rows : row.invoice \in Q})
    BY <2>2, RowsAddUp
  <2>4. TotalsOf(reading, day)[b] = SumOn(reading, Q)
    BY DEF TotalsOf, Columned
  <2> QED
    BY <2>1, <2>3, <2>4
<1> QED
  BY <1>2, <1>3 DEF Totalled

-------------------------------------------------------------------------------
Calls == run \in [Runs -> RunStates]

\* A snapshot was opened by a run that is over, and is of that run's day.
OpenedByItsRun ==
    \A s \in DOMAIN snapshots :
        /\ s \in Runs
        /\ At(s, "committed")
        /\ snapshots[s].day = run[s].day

\* A run that has arbitrated will open a snapshot, or shares one of its day.
Arbitration(r) ==
    run[r].at \in {"touch", "write"} =>
        \/ run[r].snapshot = r
        \/ /\ run[r].snapshot \in DOMAIN snapshots
           /\ snapshots[run[r].snapshot].day = run[r].day

Arbitrated == \A r \in Runs : Arbitration(r)

\* A bucket row is of a run that is over.
RowsAreFinal ==
    \A row \in bucketRows : row.run \in Runs /\ At(row.run, "committed")

\* What is stored is typed.
Stored ==
    /\ \A s \in DOMAIN snapshots : snapshots[s] \in Snapshots
    /\ bucketRows \subseteq BucketRows

RowsBy(r) == {row \in bucketRows : row.run = r}

\* A snapshot has the totals, and r's rows are the rows, of one reading that r
\* took.
WrittenBy(s, r) ==
    /\ At(r, "committed")
    /\ run[r].snapshot = s
    /\ \E reading \in Readings :
          /\ snapshots[s] = Totalled(run[r].day, reading)
          /\ RowsBy(r) = RowsFor(r, s, run[r].day, reading)

WrittenWhole == \A s \in DOMAIN snapshots : \E r \in Runs : WrittenBy(s, r)

Inv ==
    /\ Calls
    /\ Stored
    /\ WrittenWhole
    /\ OpenedByItsRun
    /\ Arbitrated
    /\ RowsAreFinal
    /\ RowsUnderTheirDay

-------------------------------------------------------------------------------
\* The calls that have not been made are well formed, and nothing is stored.
LEMMA InvInit == Init => Inv
<1> SUFFICES ASSUME Init PROVE Inv
  OBVIOUS
<1>1. Calls
  <2>1. (CHOOSE day \in Days : TRUE) \in Days
    BY DaysAssumption
  <2>2. Unread \in Readings
    BY OutstandingAssumption DEF Unread, Readings
  <2> QED
    BY <2>1, <2>2 DEF Init, Calls, New, RunStates
<1>2. DOMAIN snapshots = {} /\ bucketRows = {}
  BY DEF Init
<1>3. Arbitrated
  BY DEF Init, Arbitrated, Arbitration, New
<1> QED
  BY <1>1, <1>2, <1>3 DEF Inv, OpenedByItsRun, RowsAreFinal, RowsUnderTheirDay,
     Stored, WrittenWhole

\* Every step keeps the calls well formed.
LEMMA CallsStep == Inv /\ [Next]_agingVars => Calls'
<1> SUFFICES ASSUME Inv, [Next]_agingVars PROVE Calls'
  OBVIOUS
<1> Calls /\ OpenedByItsRun
  BY DEF Inv
<1>1. Unread \in Readings
  BY OutstandingAssumption DEF Unread, Readings
<1>2. ASSUME NEW r \in Runs, ReadOutstanding(r) PROVE Calls'
  <2>1. PICK day \in Days, reading \in Readings :
           run' = [run EXCEPT ![r].at = "arbitrate", ![r].day = day,
                              ![r].reading = reading]
    BY <1>2 DEF ReadOutstanding
  <2>2. run[r] \in RunStates
    BY DEF Calls
  <2>3. [run[r] EXCEPT !.at = "arbitrate", !.day = day, !.reading = reading]
           \in RunStates
    BY <2>2 DEF RunStates, RunSteps
  <2> QED
    BY <2>1, <2>3 DEF Calls
<1>3. ASSUME NEW r \in Runs, Arbitrate(r) PROVE Calls'
  <2>1. Candidates(r) \subseteq Runs
    BY DEF Candidates, OfDay, OpenedByItsRun
  <2>2. PICK s \in Runs : run' = [run EXCEPT ![r].at = "touch", ![r].snapshot = s]
    BY <1>3, <2>1 DEF Arbitrate
  <2>3. run[r] \in RunStates
    BY DEF Calls
  <2>4. [run[r] EXCEPT !.at = "touch", !.snapshot = s] \in RunStates
    BY <2>3 DEF RunStates, RunSteps
  <2> QED
    BY <2>2, <2>4 DEF Calls
<1>4. ASSUME NEW r \in Runs, Touch(r) PROVE Calls'
  BY <1>4 DEF Touch, Calls, RunStates, RunSteps
<1>5. ASSUME NEW r \in Runs, Write(r) \/ RollBack(r) PROVE Calls'
  BY <1>1, <1>5 DEF Write, RollBack, End, Calls, RunStates, Ended
<1>6. CASE UNCHANGED agingVars
  BY <1>6 DEF agingVars, Calls
<1> QED
  BY <1>2, <1>3, <1>4, <1>5, <1>6 DEF Next, RunNext

\* Reading, arbitrating and taking the lock, or rolling back, store nothing and
\* touch no run that is over.
LEMMA QuietStep ==
    ASSUME Inv, Calls', NEW r \in Runs,
           ReadOutstanding(r) \/ Arbitrate(r) \/ Touch(r) \/ RollBack(r)
    PROVE  Inv'
<1> Calls /\ run[r] \in RunStates
  BY DEF Inv, Calls
<1>1. /\ UNCHANGED <<snapshots, bucketRows>>
      /\ \A q \in Runs : q # r => run'[q] = run[q]
      /\ ~At(r, "committed")
  BY DEF ReadOutstanding, Arbitrate, Touch, RollBack, End, Calls, At, RunSteps
<1>2. OpenedByItsRun'
  BY <1>1 DEF Inv, OpenedByItsRun, At
<1>3. RowsAreFinal'
  BY <1>1 DEF Inv, RowsAreFinal, At
<1>4. RowsUnderTheirDay'
  BY <1>1 DEF Inv, RowsUnderTheirDay, RowsAreFinal
<1>5. Arbitration(r)'
  <2>1. CASE ReadOutstanding(r)
    <3>1. PICK day, reading :
             run' = [run EXCEPT ![r].at = "arbitrate", ![r].day = day,
                                ![r].reading = reading]
      BY <2>1 DEF ReadOutstanding
    <3>2. run'[r].at = "arbitrate"
      BY <3>1 DEF Calls, RunStates
    <3> QED
      BY <3>2 DEF Arbitration
  <2>2. CASE Arbitrate(r)
    <3>1. PICK s \in Candidates(r) :
             run' = [run EXCEPT ![r].at = "touch", ![r].snapshot = s]
      BY <2>2 DEF Arbitrate
    <3>2. run'[r].snapshot = s /\ run'[r].day = run[r].day
      BY <3>1 DEF Calls, RunStates
    <3>3. s = r \/ (s \in DOMAIN snapshots /\ snapshots[s].day = run[r].day)
      BY DEF Candidates, OfDay
    <3> QED
      BY <1>1, <3>2, <3>3 DEF Arbitration
  <2>3. CASE Touch(r)
    <3>1. /\ run'[r].snapshot = run[r].snapshot
          /\ run'[r].day = run[r].day
          /\ run[r].at = "touch"
      BY <2>3 DEF Touch, At, Calls, RunStates
    <3> QED
      BY <1>1, <3>1 DEF Inv, Arbitrated, Arbitration
  <2>4. CASE RollBack(r)
    <3>1. run'[r].at = "rolled_back"
      BY <2>4 DEF RollBack, End, Calls, RunStates
    <3> QED
      BY <3>1 DEF Arbitration
  <2> QED
    BY <2>1, <2>2, <2>3, <2>4
<1>6. \A q \in Runs : q # r => Arbitration(q)'
  BY <1>1 DEF Inv, Arbitrated, Arbitration
<1>7. Arbitrated'
  BY <1>5, <1>6 DEF Arbitrated
<1>8. Stored'
  BY <1>1 DEF Inv, Stored
<1>9. WrittenWhole'
  <2> SUFFICES ASSUME NEW s \in DOMAIN snapshots'
               PROVE  \E q \in Runs : WrittenBy(s, q)'
    BY DEF WrittenWhole
  <2>1. PICK q \in Runs : WrittenBy(s, q)
    BY <1>1 DEF Inv, WrittenWhole
  <2>2. q # r
    BY <1>1, <2>1 DEF WrittenBy
  <2>3. run'[q] = run[q] /\ UNCHANGED <<snapshots, bucketRows>>
    BY <1>1, <2>2
  <2>4. RowsBy(q)' = RowsBy(q)
    BY <2>3 DEF RowsBy
  <2>5. WrittenBy(s, q)'
    BY <2>1, <2>3, <2>4 DEF WrittenBy, At
  <2> QED
    BY <2>5
<1> QED
  BY <1>2, <1>3, <1>4, <1>7, <1>8, <1>9 DEF Inv

\* Writing fills a snapshot of the run's day, its own or the one it shares.
LEMMA WriteStep ==
    ASSUME Inv, Calls', NEW r \in Runs, Write(r)
    PROVE  Inv'
<1> DEFINE s == run[r].snapshot
<1> Calls /\ run[r] \in RunStates /\ s \in Runs
  BY DEF Inv, Calls, RunStates
<1>1. /\ \A q \in Runs : q # r => run'[q] = run[q]
      /\ run'[r].day = run[r].day
      /\ run'[r].at = "committed"
      /\ At(r, "write")
      /\ DOMAIN snapshots' = DOMAIN snapshots \cup {s}
      /\ snapshots'[s].day = run[r].day
      /\ \A t \in DOMAIN snapshots : t # s => snapshots'[t] = snapshots[t]
      /\ bucketRows' = bucketRows \cup RowsOf(r)
  BY DEF Write, End, Calls
<1>2. s = r \/ (s \in DOMAIN snapshots /\ snapshots[s].day = run[r].day)
  BY <1>1 DEF Inv, Arbitrated, Arbitration, At
<1>3. \A q \in Runs : run'[q].day = run[q].day /\ (At(q, "committed") => At(q, "committed")')
  BY <1>1 DEF At
<1>4. \A t \in DOMAIN snapshots : snapshots'[t].day = snapshots[t].day
  BY <1>1, <1>2 DEF Inv, OpenedByItsRun, At
<1>5. OpenedByItsRun'
  <2> SUFFICES ASSUME NEW t \in DOMAIN snapshots'
               PROVE  t \in Runs /\ At(t, "committed")' /\ snapshots'[t].day = run'[t].day
    BY DEF OpenedByItsRun
  <2>1. CASE t \in DOMAIN snapshots
    BY <1>3, <1>4, <2>1 DEF Inv, OpenedByItsRun
  <2>2. CASE t \notin DOMAIN snapshots
    BY <1>1, <1>2, <1>3, <2>2 DEF At
  <2> QED
    BY <2>1, <2>2
<1>6. ~(run'[r].at \in {"touch", "write"})
  BY <1>1
<1>7. Arbitrated'
  <2>1. \A q \in Runs : q # r => Arbitration(q)'
    BY <1>1, <1>4 DEF Inv, Arbitrated, Arbitration
  <2> QED
    BY <1>6, <2>1 DEF Arbitrated, Arbitration
<1>8. \A row \in RowsOf(r) : row.run = r /\ row.snapshot = s
  BY DEF RowsOf
<1>9. RowsAreFinal'
  BY <1>1, <1>3, <1>8 DEF Inv, RowsAreFinal, At
<1>10. RowsUnderTheirDay'
  <2> SUFFICES ASSUME NEW row \in bucketRows'
               PROVE  /\ row.snapshot \in DOMAIN snapshots'
                      /\ snapshots'[row.snapshot].day = run'[row.run].day
    BY DEF RowsUnderTheirDay
  <2>1. CASE row \in bucketRows
    BY <1>1, <1>3, <1>4, <2>1 DEF Inv, RowsUnderTheirDay, RowsAreFinal
  <2>2. CASE row \in RowsOf(r)
    BY <1>1, <1>8, <2>2
  <2> QED
    BY <1>1, <2>1, <2>2
<1> DEFINE reading == run[r].reading
           day == run[r].day
<1>11. /\ reading \in Readings /\ day \in Days
       /\ RowsOf(r) = RowsFor(r, s, day, reading)
       /\ snapshots'[s] = Totalled(day, reading)
       /\ run'[r].snapshot = s
  BY DEF RunStates, RowsOf, RowsFor, Write, Totalled, End, Calls
<1>12. Stored'
  <2>1. Totalled(day, reading) \in Snapshots
    <3> HIDE DEF day, reading
    <3> QED
      BY <1>11, TotalsTyped
  <2>2. \A t \in DOMAIN snapshots' : snapshots'[t] \in Snapshots
    <3> HIDE DEF day, reading, s
    <3> QED
      BY <1>1, <1>11, <2>1 DEF Inv, Stored
  <2>3. RowsFor(r, s, day, reading) \subseteq BucketRows
    <3> SUFFICES ASSUME NEW i \in Outstanding(reading)
                 PROVE  [run |-> r, snapshot |-> s, invoice |-> i,
                         bucket |-> BucketName(DaysPastDue(i, day)),
                         amount |-> reading[i]] \in BucketRows
      BY DEF RowsFor
    <3>1. i \in Invoices
      BY DEF Outstanding
    <3>2. reading[i] \in Nat
      BY <1>11, <3>1, OutstandingAssumption DEF Readings
    <3>3. BucketName(DaysPastDue(i, day)) \in Buckets
      BY <1>11, <3>1, Delays
    <3> HIDE DEF reading, day, s
    <3> QED
      BY <3>1, <3>2, <3>3 DEF BucketRows, s
  <2> QED
    BY <1>1, <1>11, <2>2, <2>3 DEF Inv, Stored
<1>13. WrittenWhole'
  <2> SUFFICES ASSUME NEW t \in DOMAIN snapshots'
               PROVE  \E q \in Runs : WrittenBy(t, q)'
    BY DEF WrittenWhole
  <2>1. CASE t = s
    <3>1. RowsBy(r)' = RowsFor(r, s, day, reading)
      <4>1. RowsBy(r) = {}
        BY <1>1 DEF Inv, RowsAreFinal, RowsBy, At
      <4>2. RowsBy(r)' = RowsOf(r)
        BY <1>1, <1>8, <4>1 DEF RowsBy
      <4> QED
        BY <1>11, <4>2
    <3>2. WrittenBy(t, r)'
      BY <1>1, <1>11, <2>1, <3>1 DEF WrittenBy, At
    <3> QED
      BY <3>2
  <2>2. CASE t # s
    <3>1. t \in DOMAIN snapshots /\ snapshots'[t] = snapshots[t]
      BY <1>1, <2>2
    <3>2. PICK q \in Runs : WrittenBy(t, q)
      BY <3>1 DEF Inv, WrittenWhole
    <3>3. q # r
      BY <1>1, <3>2 DEF WrittenBy, At
    <3>4. run'[q] = run[q]
      BY <1>1, <3>3
    <3>5. RowsBy(q)' = RowsBy(q)
      BY <1>1, <1>8, <3>3 DEF RowsBy
    <3>6. WrittenBy(t, q)'
      BY <3>1, <3>2, <3>4, <3>5 DEF WrittenBy, At
    <3> QED
      BY <3>6
  <2> QED
    BY <2>1, <2>2
<1> QED
  BY <1>5, <1>7, <1>9, <1>10, <1>12, <1>13 DEF Inv

\* Every step keeps the invariant.
LEMMA InvStep == Inv /\ [Next]_agingVars => Inv'
<1> SUFFICES ASSUME Inv, [Next]_agingVars PROVE Inv'
  OBVIOUS
<1>1. Calls'
  BY CallsStep
<1>2. ASSUME NEW r \in Runs, RunNext(r) \/ RollBack(r) PROVE Inv'
  BY <1>1, <1>2, QuietStep, WriteStep DEF RunNext
<1>3. CASE UNCHANGED agingVars
  BY <1>1, <1>3 DEF agingVars, Inv, OpenedByItsRun, Arbitrated, Arbitration,
     RowsAreFinal, RowsUnderTheirDay, At, Stored, WrittenWhole, WrittenBy, RowsBy
<1> QED
  BY <1>2, <1>3 DEF Next

-------------------------------------------------------------------------------
\* The inductive invariant holds.
THEOREM InvHolds == Spec => []Inv
BY InvInit, InvStep, PTL DEF Spec

\* What the runs store is typed, in whatever order they arbitrate and commit.
THEOREM TypeCorrect == Spec => []TypeOK
<1>1. Inv => TypeOK
  BY DEF Inv, Calls, Stored, OpenedByItsRun, TypeOK
<1> QED
  BY <1>1, InvHolds, PTL

\* The totals of a snapshot are the sums of the rows of one committed run that
\* wrote it, although the two are computed in different loops.
THEOREM TotalsAreWhole == Spec => []TotalsAreOneRuns
<1>1. Inv => TotalsAreOneRuns
  <2> SUFFICES ASSUME Inv, NEW s \in DOMAIN snapshots
               PROVE  \E r \in Runs :
                        /\ At(r, "committed") /\ run[r].snapshot = s
                        /\ snapshots[s].total_outstanding = AmountOf(RowsBy(r))
                        /\ \A b \in Buckets :
                              snapshots[s].totals[b] =
                                AmountOf(InBucket(RowsBy(r), b))
    BY DEF TotalsAreOneRuns, AmountOf, RowsBy, InBucket
  <2>1. PICK r \in Runs : WrittenBy(s, r)
    BY DEF Inv, WrittenWhole
  <2>2. PICK reading \in Readings :
           /\ snapshots[s] = Totalled(run[r].day, reading)
           /\ RowsBy(r) = RowsFor(r, s, run[r].day, reading)
    BY <2>1 DEF WrittenBy
  <2>3. run[r].day \in Days
    BY DEF Inv, Calls, RunStates
  <2>4. /\ snapshots[s].total_outstanding = AmountOf(RowsBy(r))
        /\ \A b \in Buckets :
              snapshots[s].totals[b] =
                AmountOf(InBucket(RowsBy(r), b))
    <3> DEFINE day == run[r].day
               rows == RowsFor(r, s, day, reading)
    <3>1. day \in Days
      BY <2>3
    <3> HIDE DEF day
    <3>2. /\ Totalled(day, reading).total_outstanding = AmountOf(rows)
          /\ \A b \in Buckets : Totalled(day, reading).totals[b] =
                                     AmountOf(InBucket(rows, b))
      BY <3>1, TotalsOfRows
    <3>3. snapshots[s] = Totalled(day, reading) /\ RowsBy(r) = rows
      BY <2>2 DEF day
    <3> HIDE DEF rows
    <3> QED
      BY <3>2, <3>3
  <2> QED
    BY <2>1, <2>4 DEF WrittenBy
<1> QED
  BY <1>1, InvHolds, PTL

\* A bucket row of run_aging_snapshot stands under a committed snapshot of the
\* day its days past due were counted from, whoever shares the snapshot.
THEOREM RowsKeepTheirDay == Spec => []RowsUnderTheirDay
<1>1. Inv => RowsUnderTheirDay
  BY DEF Inv
<1> QED
  BY <1>1, InvHolds, PTL

\* Only a run that looked for a snapshot before the day had one still opens
\* another: the arbitration holds without a unique index from then on.
THEOREM NoTwinOnceThere == Spec => NoLateTwin
<1>1. ASSUME Inv, [Next]_agingVars
      PROVE  [\A day \in Days :
                OfDay(day) # {} => Openers(day)' \subseteq Openers(day)]_agingVars
  <2> Calls /\ OpenedByItsRun
    BY <1>1 DEF Inv
  <2> SUFFICES ASSUME NEW day \in Days, OfDay(day) # {},
                      NEW q \in Openers(day)', ~(UNCHANGED agingVars)
               PROVE  q \in Openers(day)
    OBVIOUS
  <2>1. PICK r \in Runs : RunNext(r) \/ RollBack(r)
    BY <1>1 DEF Next
  <2>2. /\ q \in Runs /\ run'[q].day = day
        /\ run'[q].at \in {"touch", "write"}
        /\ run'[q].snapshot = q
    BY DEF Openers
  <2>3. CASE q # r
    <3>1. run'[q] = run[q]
      BY <2>1, <2>2, <2>3
         DEF RunNext, ReadOutstanding, Arbitrate, Touch, Write, RollBack, End, Calls
    <3> QED
      BY <2>2, <3>1 DEF Openers
  <2>4. CASE q = r
    <3>1. CASE Arbitrate(r)
      <4>1. PICK s \in Candidates(r) :
               run' = [run EXCEPT ![r].at = "touch", ![r].snapshot = s]
        BY <3>1 DEF Arbitrate
      <4>2. s = r /\ run[r].day = day
        BY <2>2, <2>4, <4>1 DEF Calls, RunStates
      <4>3. r \in OfDay(day)
        BY <4>1, <4>2 DEF Candidates
      <4>4. At(r, "committed")
        BY <4>3 DEF OfDay, OpenedByItsRun
      <4> QED
        BY <3>1, <4>4 DEF Arbitrate, At
    <3>2. CASE Touch(r)
      <4>1. /\ run[r].at = "touch"
            /\ run'[r].day = run[r].day
            /\ run'[r].snapshot = run[r].snapshot
        BY <3>2 DEF Touch, At, Calls, RunStates
      <4> QED
        BY <2>2, <2>4, <4>1 DEF Openers
    <3>3. CASE ReadOutstanding(r)
      <4>1. run'[r].at = "arbitrate"
        BY <3>3 DEF ReadOutstanding, Calls, RunStates
      <4> QED
        BY <2>2, <2>4, <4>1
    <3>4. CASE Write(r) \/ RollBack(r)
      <4>1. run'[r].at \in {"committed", "rolled_back"}
        BY <3>4 DEF Write, RollBack, End, Calls, RunStates
      <4> QED
        BY <2>2, <2>4, <4>1
    <3> QED
      BY <2>1, <3>1, <3>2, <3>3, <3>4 DEF RunNext
  <2> QED
    BY <2>3, <2>4
<1> QED
  BY <1>1, InvHolds, PTL DEF Spec, NoLateTwin
===============================================================================
