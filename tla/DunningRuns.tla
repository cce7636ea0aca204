------------------------------ MODULE DunningRuns ------------------------------
(***************************************************************************)
(* run_dunning: read what is outstanding, then, in one transaction, insert *)
(* the run, upsert one action for each invoice past its due date at the    *)
(* level its delay calls for, count the rows really inserted, and commit.  *)
(*                                                                         *)
(* Each element of Runs is one call.  The unique index on (invoice, level) *)
(* is the database's: ON CONFLICT DO NOTHING reports no row for a key that *)
(* is committed, and for a key that another open transaction has inserted  *)
(* it waits until that transaction is over.  The port returns its rows in  *)
(* any order, so that two runs can wait for each other: the database then  *)
(* fails one of them.  A run that fails, or stops at an await, rolls back. *)
(***************************************************************************)
EXTENDS Receivables, FiniteSets, SequencesExt

CONSTANTS
    Runs,           \* calls of run_dunning
    Days            \* the dates they are called for

\* A reading is a Vec of rows.
ASSUME InvoicesAssumption == IsFiniteSet(Invoices)
ASSUME DunningDaysAssumption == Days \subseteq Int /\ Days # {}

VARIABLES
    actions,        \* committed dunning_actions rows
    emitted,        \* actions_emitted of the committed dunning_runs rows
    run             \* what each call is doing

dunningVars == <<actions, emitted, run>>

LevelNames == Range(Levels)
Fences == Invoices \X LevelNames
Actions == [run : Runs, fence : Fences]

\* A call: the rows it read and the next one to handle, the keys its
\* transaction has inserted, and its counter.
Ended == {"committed", "rolled_back"}
RunStates == [at : {"new", "open"} \cup Ended, day : Days, rows : Seq(Invoices),
              next : Nat, inserted : SUBSET Fences, count : Nat]
New == [at |-> "new", day |-> CHOOSE day \in Days : TRUE, rows |-> <<>>,
        next |-> 1, inserted |-> {}, count |-> 0]

Init ==
    /\ actions = {}
    /\ emitted = <<>>
    /\ run = [r \in Runs |-> New]

-------------------------------------------------------------------------------
At(r, step) == run[r].at = step

\* A row is left to handle.
Handling(r) == At(r, "open") /\ run[r].next \in DOMAIN run[r].rows
Current(r) == run[r].rows[run[r].next]
Delay(r) == DaysPastDue(Current(r), run[r].day)
Fence(r) == <<Current(r), DunningLevel(Delay(r))>>

\* Fault: an invoice one day late is not yet taken to be overdue.
OverdueFromTheSecondDay(delay) == delay > 1

Overdue(delay) == delay > 0

\* Fault: the keys of a transaction that rolled back stay taken.
HeldAfterRollback(r, fence) ==
    run[r].at \in {"open", "rolled_back"} /\ fence \in run[r].inserted

Holds(r, fence) == At(r, "open") /\ fence \in run[r].inserted

\* The upsert waits for another transaction that has inserted its key.
WaitsFor(r, q) ==
    /\ Handling(r) /\ Overdue(Delay(r))
    /\ q # r /\ Holds(q, Fence(r))

\* Fault: there is no unique index to conflict with.
NoIndex(r, fence) == FALSE

Conflicts(r, fence) ==
    fence \in run[r].inserted \/ \E a \in actions : a.fence = fence

\* Fault: the counter does not look at the rows affected.
CountEveryUpsert(affected) == 1

Counted(affected) == IF affected > 0 THEN 1 ELSE 0

-------------------------------------------------------------------------------
\* The port call; then the transaction begins and inserts its run.
Begin(r) ==
    /\ At(r, "new")
    /\ \E day \in Days, read \in SUBSET Invoices :
       \E rows \in SetToSeqs(read) :
          run' = [run EXCEPT ![r].at = "open", ![r].day = day,
                             ![r].rows = rows]
    /\ UNCHANGED <<actions, emitted>>

\* Not past its due date: passed over.
Skip(r) ==
    /\ Handling(r)
    /\ ~Overdue(Delay(r))
    /\ run' = [run EXCEPT ![r].next = @ + 1]
    /\ UNCHANGED <<actions, emitted>>

Upsert(r) ==
    LET affected == IF Conflicts(r, Fence(r)) THEN 0 ELSE 1 IN
    /\ Handling(r)
    /\ Overdue(Delay(r))
    /\ \A q \in Runs : ~WaitsFor(r, q)
    /\ run' = [run EXCEPT
          ![r].next = @ + 1,
          ![r].count = @ + Counted(affected),
          ![r].inserted = IF affected = 1 THEN @ \cup {Fence(r)} ELSE @]
    /\ UNCHANGED <<actions, emitted>>

\* set_actions_emitted and the commit.
Commit(r) ==
    /\ At(r, "open")
    /\ ~Handling(r)
    /\ actions' = actions \cup {[run |-> r, fence |-> f] : f \in run[r].inserted}
    /\ emitted' = [q \in DOMAIN emitted \cup {r} |->
                      IF q = r THEN run[r].count ELSE emitted[q]]
    /\ run' = [run EXCEPT ![r].at = "committed"]

RollBack(r) ==
    /\ At(r, "open")
    /\ run' = [run EXCEPT ![r].at = "rolled_back"]
    /\ UNCHANGED <<actions, emitted>>

\* A circle of transactions that wait for each other.
Circle(rs) ==
    \A r \in rs : (\E q \in rs : WaitsFor(r, q)) /\ (\E q \in rs : WaitsFor(q, r))

\* The database fails a transaction of the circle, and `?` ends its call.
Victim(r) ==
    /\ \E rs \in SUBSET Runs : r \in rs /\ Circle(rs)
    /\ RollBack(r)

RunNext(r) == Begin(r) \/ Skip(r) \/ Upsert(r) \/ Commit(r) \/ RollBack(r)

Next == \E r \in Runs : RunNext(r)

\* A call that has begun is driven by its executor, and the database answers
\* its statements and breaks circles: weak fairness on those steps.  Nobody has
\* to make a call, and no call has to fail otherwise.
Progress(r) == Skip(r) \/ Upsert(r) \/ Commit(r) \/ Victim(r)
Spec == Init /\ [][Next]_dunningVars
FairSpec == Spec /\ \A r \in Runs : WF_dunningVars(Progress(r))
-------------------------------------------------------------------------------
TypeOK ==
    /\ actions \subseteq Actions
    /\ DOMAIN emitted \subseteq Runs
    /\ \A r \in DOMAIN emitted : emitted[r] \in Nat
    /\ run \in [Runs -> RunStates]

\* An invoice gets each escalation once, over all runs that overlap, repeat or
\* roll back: the index is not consulted by the code but by the insert, which
\* has to see the keys of open transactions as well as the committed ones.
OneActionPerLevel ==
    \A a, b \in actions : a.fence = b.fence => a = b

\* A committed run reports exactly the actions it owns, though others may have
\* taken some of its keys before it, or while it waited for them.
EmittedCountsItsActions ==
    /\ \A r \in DOMAIN emitted :
          emitted[r] = Cardinality({a \in actions : a.run = r})
    /\ \A a \in actions : a.run \in DOMAIN emitted

\* No overdue invoice that a committed run has read is left without its action
\* because the run gave way to another that then rolled back.
EveryOverdueInvoiceIsChased ==
    \A r \in DOMAIN emitted : \A i \in Range(run[r].rows) :
        LET day == run[r].day IN
        DueDate[i] # NoDate /\ DueDate[i] < day =>
            \E a \in actions :
                a.fence = <<i, DunningLevel(day - DueDate[i])>>

\* The calls that were made all end, even when they take each other's keys in
\* opposite orders.  (No further call is made once every element of Runs has
\* been used.)
RunsEnd == []<>(\A r \in Runs : ~At(r, "open"))
===============================================================================
