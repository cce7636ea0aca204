--------------------------- MODULE DunningRunsProofs ---------------------------
(***************************************************************************)
(* What DunningRuns guarantees for every set of invoices, calls and days:  *)
(* its type invariant, and that an escalation is issued once, counted by   *)
(* the run that owns it, and never lost.                                   *)
(***************************************************************************)
EXTENDS DunningRuns, FiniteSetTheorems, SequenceTheorems, TLAPS

-------------------------------------------------------------------------------
(***************************************************************************)
(* The inductive invariant.                                                *)
(***************************************************************************)
Issued(fence) == \E a \in actions : a.fence = fence

\* What a call counts is what its transaction has inserted.
Counts(r) ==
    /\ IsFiniteSet(run[r].inserted)
    /\ run[r].count = Cardinality(run[r].inserted)

\* The keys of an open transaction are nobody else's, committed or open.
OwnKeys(r) ==
    At(r, "open") =>
        \A f \in run[r].inserted :
            /\ ~Issued(f)
            /\ \A q \in Runs : q # r => ~Holds(q, f)

\* A run owns rows when it is committed, and they are the keys it inserted.
OwnRows(r) ==
    /\ r \in DOMAIN emitted <=> At(r, "committed")
    /\ \A f \in Fences : [run |-> r, fence |-> f] \in actions
                  <=> At(r, "committed") /\ f \in run[r].inserted

\* Each overdue row that was handled has its key: committed, or in this run.
Key(r, k) ==
    <<run[r].rows[k], DunningLevel(DaysPastDue(run[r].rows[k], run[r].day))>>

Handled(r) ==
    At(r, "open") \/ At(r, "committed") =>
        \A k \in DOMAIN run[r].rows :
            /\ k < run[r].next
            /\ Overdue(DaysPastDue(run[r].rows[k], run[r].day))
            => Key(r, k) \in run[r].inserted \/ Issued(Key(r, k))

\* A call that is over, or has not begun, has nothing left to do.
Shape(r) ==
    /\ At(r, "new") => run[r] = New
    /\ At(r, "committed") => run[r].next \notin DOMAIN run[r].rows
    /\ run[r].next >= 1

CallInv(r) == Counts(r) /\ OwnKeys(r) /\ OwnRows(r) /\ Handled(r) /\ Shape(r)

Inv ==
    /\ TypeOK
    /\ OneActionPerLevel
    /\ \A r \in Runs : CallInv(r)
    /\ \A r \in DOMAIN emitted : emitted[r] = run[r].count

-------------------------------------------------------------------------------
(***************************************************************************)
(* Types.                                                                  *)
(***************************************************************************)

\* Whatever the delay, the level is one of the ladder.
LEMMA LevelType == \A delay : DunningLevel(delay) \in LevelNames
<1>1. DOMAIN Levels = 1..5
  BY DEF Levels
<1>2. \A k \in 1..5 : Levels[k] \in LevelNames
  BY <1>1 DEF LevelNames, Range
<1>3. {"reminder", "overdue", "final_notice", "collection", "written_off"}
        \subseteq LevelNames
  BY <1>2 DEF Levels
<1> QED
  BY <1>3 DEF DunningLevel

\* The port's rows, in any order, are a sequence of invoices.
LEMMA RowsType ==
    ASSUME NEW read \in SUBSET Invoices, NEW rows \in SetToSeqs(read)
    PROVE  rows \in Seq(Invoices)
<1>1. Cardinality(read) \in Nat
  BY InvoicesAssumption, FS_Subset, FS_CardinalityType
<1>2. rows \in [1..Cardinality(read) -> Invoices]
  BY DEF SetToSeqs
<1> QED
  BY <1>1, <1>2, SeqDef

\* The call that has not begun is well formed.
LEMMA NewType == New \in RunStates
<1>1. (CHOOSE day \in Days : TRUE) \in Days
  BY DunningDaysAssumption
<1>2. <<>> \in Seq(Invoices)
  BY EmptySeq
<1> QED
  BY <1>1, <1>2 DEF New, RunStates, Ended

\* The row being handled is an invoice, and its key one of the table's.
LEMMA FenceType ==
    ASSUME TypeOK, NEW r \in Runs, Handling(r)
    PROVE  Current(r) \in Invoices /\ Fence(r) \in Fences
<1>1. run[r].rows \in Seq(Invoices)
  BY DEF TypeOK, RunStates
<1>2. Current(r) \in Invoices
  BY <1>1, ElementOfSeq DEF Handling, Current
<1> QED
  BY <1>2, LevelType DEF Fence, Fences

\* A step of one call leaves the others as they were.
LEMMA Others ==
    ASSUME TypeOK, NEW r \in Runs, RunNext(r), NEW q \in Runs, q # r
    PROVE  run'[q] = run[q]
BY DEF TypeOK, RunNext, Begin, Skip, Upsert, Commit, RollBack

\* The initial states are well formed.
LEMMA InitType == Init => TypeOK
BY NewType DEF Init, TypeOK

\* Every step keeps the types.
LEMMA StepType == TypeOK /\ [Next]_dunningVars => TypeOK'
<1> SUFFICES ASSUME TypeOK, [Next]_dunningVars PROVE TypeOK'
  OBVIOUS
<1>1. CASE UNCHANGED dunningVars
  BY <1>1 DEF dunningVars, TypeOK
<1>2. ASSUME NEW r \in Runs, RunNext(r) PROVE TypeOK'
  <2> run[r] \in RunStates
    BY DEF TypeOK
  <2>1. CASE Begin(r)
    <3>1. PICK day \in Days, read \in SUBSET Invoices :
             \E rows \in SetToSeqs(read) :
                run' = [run EXCEPT ![r].at = "open", ![r].day = day,
                                   ![r].rows = rows]
      BY <2>1 DEF Begin
    <3>2. PICK rows \in Seq(Invoices) :
             run' = [run EXCEPT ![r].at = "open", ![r].day = day,
                                ![r].rows = rows]
      BY <3>1, RowsType
    <3>3. [run[r] EXCEPT !.at = "open", !.day = day, !.rows = rows] \in RunStates
      BY DEF RunStates
    <3> QED
      BY <2>1, <3>2, <3>3 DEF Begin, TypeOK
  <2>2. CASE Skip(r)
    <3>1. [run[r] EXCEPT !.next = @ + 1] \in RunStates
      BY DEF RunStates
    <3> QED
      BY <2>2, <3>1 DEF Skip, TypeOK
  <2>3. CASE Upsert(r)
    <3> DEFINE affected == IF Conflicts(r, Fence(r)) THEN 0 ELSE 1
               next == run[r].next + 1
               count == run[r].count + Counted(affected)
               ins == IF affected = 1 THEN run[r].inserted \cup {Fence(r)}
                                      ELSE run[r].inserted
               new == [run[r] EXCEPT !.next = next, !.count = count,
                                     !.inserted = ins]
    <3>1. Fence(r) \in Fences
      BY <2>3, FenceType DEF Upsert
    <3>2. next \in Nat /\ count \in Nat
      BY DEF Counted, RunStates
    <3>3. ins \in SUBSET Fences
      BY <3>1 DEF RunStates
    <3>4. run' = [run EXCEPT ![r] = new]
      BY <2>3 DEF Upsert, TypeOK
    <3> HIDE DEF affected, next, count, ins
    <3>5. new \in RunStates
      BY <3>2, <3>3 DEF RunStates
    <3> QED
      BY <2>3, <3>4, <3>5 DEF Upsert, TypeOK
  <2>4. CASE Commit(r)
    <3>1. [run[r] EXCEPT !.at = "committed"] \in RunStates
      BY DEF RunStates, Ended
    <3>2. run' \in [Runs -> RunStates]
      BY <2>4, <3>1 DEF Commit, TypeOK
    <3>3. actions' \subseteq Actions
      BY <2>4 DEF Commit, TypeOK, Actions, RunStates
    <3>4. DOMAIN emitted' \subseteq Runs /\ \A q \in DOMAIN emitted' : emitted'[q] \in Nat
      BY <2>4 DEF Commit, TypeOK, RunStates
    <3> QED
      BY <3>2, <3>3, <3>4 DEF TypeOK
  <2>5. CASE RollBack(r)
    <3>1. [run[r] EXCEPT !.at = "rolled_back"] \in RunStates
      BY DEF RunStates, Ended
    <3> QED
      BY <2>5, <3>1 DEF RollBack, TypeOK
  <2> QED
    BY <1>2, <2>1, <2>2, <2>3, <2>4, <2>5 DEF RunNext
<1> QED
  BY <1>1, <1>2 DEF Next

-------------------------------------------------------------------------------
(***************************************************************************)
(* What a step does to the call that takes it.                             *)
(***************************************************************************)

\* A key that is taken is passed over, another is inserted and counted.
LEMMA UpsertEffect ==
    ASSUME TypeOK, NEW r \in Runs, Upsert(r)
    PROVE  /\ Fence(r) \in Fences
           /\ \A q \in Runs : q # r => ~Holds(q, Fence(r))
           /\ run'[r].at = "open"
           /\ run'[r].day = run[r].day
           /\ run'[r].rows = run[r].rows
           /\ run'[r].next = run[r].next + 1
           /\ Conflicts(r, Fence(r)) =>
                 /\ run'[r].inserted = run[r].inserted
                 /\ run'[r].count = run[r].count
           /\ ~Conflicts(r, Fence(r)) =>
                 /\ run'[r].inserted = run[r].inserted \cup {Fence(r)}
                 /\ run'[r].count = run[r].count + 1
<1> run[r] \in RunStates
  BY DEF TypeOK
<1>1. Fence(r) \in Fences
  BY FenceType DEF Upsert
<1>2. \A q \in Runs : q # r => ~Holds(q, Fence(r))
  BY DEF Upsert, WaitsFor
<1>3. /\ run'[r].at = run[r].at
      /\ run'[r].day = run[r].day
      /\ run'[r].rows = run[r].rows
      /\ run'[r].next = run[r].next + 1
  BY DEF Upsert, TypeOK, RunStates
<1>4. run[r].at = "open"
  BY DEF Upsert, Handling, At
<1>5. Conflicts(r, Fence(r)) =>
         /\ run'[r].inserted = run[r].inserted
         /\ run'[r].count = run[r].count
  BY DEF Upsert, TypeOK, RunStates, Counted
<1>6. ~Conflicts(r, Fence(r)) =>
         /\ run'[r].inserted = run[r].inserted \cup {Fence(r)}
         /\ run'[r].count = run[r].count + 1
  BY DEF Upsert, TypeOK, RunStates, Counted
<1> QED
  BY <1>1, <1>2, <1>3, <1>4, <1>5, <1>6

\* A call begins with nothing handled, inserted or counted.
LEMMA BeginEffect ==
    ASSUME TypeOK, NEW r \in Runs, Shape(r), Begin(r)
    PROVE  /\ run'[r].at = "open"
           /\ run'[r].next = 1
           /\ run'[r].inserted = {}
           /\ run'[r].count = 0
<1>1. run[r] = New
  BY DEF Shape, Begin
<1>2. PICK day, rows :
         run' = [run EXCEPT ![r].at = "open", ![r].day = day, ![r].rows = rows]
  BY DEF Begin
<1>3. run'[r] = [New EXCEPT !.at = "open", !.day = day, !.rows = rows]
  BY <1>1, <1>2 DEF TypeOK
<1> QED
  BY <1>3 DEF New

\* The other steps move the call on and leave its transaction as it is.
LEMMA MoveEffect ==
    ASSUME TypeOK, NEW r \in Runs, Skip(r) \/ Commit(r) \/ RollBack(r)
    PROVE  /\ At(r, "open")
           /\ run'[r].day = run[r].day
           /\ run'[r].rows = run[r].rows
           /\ run'[r].inserted = run[r].inserted
           /\ run'[r].count = run[r].count
           /\ Skip(r) => run'[r].at = "open" /\ run'[r].next = run[r].next + 1
           /\ Commit(r) => run'[r].at = "committed" /\ run'[r].next = run[r].next
           /\ RollBack(r) => run'[r].at = "rolled_back" /\ run'[r].next = run[r].next
<1> run[r] \in RunStates
  BY DEF TypeOK
<1>1. CASE Skip(r)
  BY <1>1 DEF Skip, Commit, RollBack, Handling, At, TypeOK, RunStates
<1>2. CASE Commit(r)
  BY <1>2 DEF Skip, Commit, RollBack, Handling, At, TypeOK, RunStates
<1>3. CASE RollBack(r)
  BY <1>3 DEF Skip, Commit, RollBack, Handling, At, TypeOK, RunStates
<1> QED
  BY <1>1, <1>2, <1>3

\* No action is ever taken back.
LEMMA ActionsStay ==
    ASSUME NEW r \in Runs, RunNext(r), NEW f, Issued(f)
    PROVE  Issued(f)'
BY DEF RunNext, Begin, Skip, Upsert, Commit, RollBack, Issued
-------------------------------------------------------------------------------
(***************************************************************************)
(* The invariant is inductive: the other calls, the call that moves, and   *)
(* the tables.                                                             *)
(***************************************************************************)

\* The step of one call leaves what is said of another one true.
LEMMA OtherCall ==
    ASSUME Inv, NEW r \in Runs, RunNext(r), NEW q \in Runs, q # r
    PROVE  CallInv(q)'
<1> TypeOK /\ CallInv(q) /\ CallInv(r)
  BY DEF Inv
<1>1. run'[q] = run[q]
  BY Others
<1>2. Counts(q)' /\ Shape(q)'
  BY <1>1 DEF CallInv, Counts, Shape, At, New
<1>3. Handled(q)'
  <2>1. \A f : Issued(f) => Issued(f)'
    BY ActionsStay
  <2>2. \A k : Key(q, k)' = Key(q, k)
    BY <1>1 DEF Key
  <2> QED
    BY <1>1, <2>1, <2>2 DEF CallInv, Handled, At
<1>4. OwnRows(q)'
  <2>1. CASE Commit(r)
    <3>1. q \in DOMAIN emitted' <=> q \in DOMAIN emitted
      BY <2>1 DEF Commit
    <3>2. \A f : [run |-> q, fence |-> f] \in actions'
                    <=> [run |-> q, fence |-> f] \in actions
      BY <2>1 DEF Commit
    <3> QED
      BY <1>1, <3>1, <3>2 DEF CallInv, OwnRows, At
  <2>2. CASE ~Commit(r)
    <3>1. UNCHANGED <<actions, emitted>>
      BY <2>2 DEF RunNext, Begin, Skip, Upsert, RollBack
    <3> QED
      BY <1>1, <3>1 DEF CallInv, OwnRows, At
  <2> QED
    BY <2>1, <2>2
<1>5. OwnKeys(q)'
  <2> SUFFICES ASSUME At(q, "open"), NEW f \in run[q].inserted
               PROVE  /\ ~Issued(f)'
                      /\ \A o \in Runs : o # q => ~Holds(o, f)'
    BY <1>1 DEF OwnKeys, At
  <2>1. /\ ~Issued(f)
        /\ \A o \in Runs : o # q => ~Holds(o, f)
    BY DEF CallInv, OwnKeys
  <2>2. ~Issued(f)'
    <3>1. CASE Commit(r)
      <4>1. f \notin run[r].inserted
        BY <2>1, <3>1 DEF Commit, Holds
      <4> QED
        BY <2>1, <3>1, <4>1 DEF Commit, Issued
    <3>2. CASE ~Commit(r)
      BY <2>1, <3>2 DEF RunNext, Begin, Skip, Upsert, RollBack, Issued
    <3> QED
      BY <3>1, <3>2
  <2>3. ~Holds(r, f)'
    <3>1. CASE Begin(r)
      BY <3>1, BeginEffect DEF CallInv, Holds
    <3>2. CASE Upsert(r)
      <4>1. f # Fence(r)
        BY <3>2, UpsertEffect DEF Holds
      <4>2. f \notin run[r].inserted
        BY <2>1, <3>2 DEF Upsert, Handling, Holds
      <4> QED
        BY <3>2, <4>1, <4>2, UpsertEffect DEF Holds
    <3>3. CASE Skip(r) \/ Commit(r) \/ RollBack(r)
      BY <2>1, <3>3, MoveEffect DEF Holds
    <3> QED
      BY <3>1, <3>2, <3>3 DEF RunNext
  <2>4. \A o \in Runs : o # q /\ o # r => ~Holds(o, f)'
    BY <2>1, Others DEF Holds, At
  <2> QED
    BY <2>2, <2>3, <2>4
<1> QED
  BY <1>2, <1>3, <1>4, <1>5 DEF CallInv

\* Beginning: nothing is handled yet.
LEMMA BeginOwn ==
    ASSUME Inv, NEW r \in Runs, Begin(r)
    PROVE  CallInv(r)'
<1> TypeOK /\ TypeOK' /\ CallInv(r)
  BY StepType DEF Inv, Next, RunNext
<1>1. /\ run'[r].at = "open"
      /\ run'[r].next = 1
      /\ run'[r].inserted = {}
      /\ run'[r].count = 0
  BY BeginEffect DEF CallInv
<1>2. UNCHANGED <<actions, emitted>>
  BY DEF Begin
<1>3. Counts(r)'
  BY <1>1, FS_EmptySet DEF Counts
<1>4. OwnKeys(r)' /\ Shape(r)'
  BY <1>1 DEF OwnKeys, Shape, At
<1>5. OwnRows(r)'
  BY <1>1, <1>2 DEF CallInv, OwnRows, At, Begin
<1>6. Handled(r)'
  <2>1. run'[r].rows \in Seq(Invoices)
    BY DEF TypeOK, RunStates
  <2>2. \A k \in DOMAIN run'[r].rows : k \in Nat /\ k >= 1
    BY <2>1
  <2>3. \A k \in DOMAIN run'[r].rows : ~(k < run'[r].next)
    BY <1>1, <2>2
  <2> QED
    BY <2>3 DEF Handled
<1> QED
  BY <1>3, <1>4, <1>5, <1>6 DEF CallInv

\* Handling a row: its key is taken, or becomes one of this transaction's.
LEMMA UpsertOwn ==
    ASSUME Inv, NEW r \in Runs, Upsert(r)
    PROVE  CallInv(r)'
<1> TypeOK /\ CallInv(r) /\ run[r] \in RunStates /\ At(r, "open")
  BY DEF Inv, TypeOK, Upsert, Handling
<1>1. UNCHANGED <<actions, emitted>>
  BY DEF Upsert
<1>2. Counts(r)'
  <2>1. CASE Conflicts(r, Fence(r))
    BY <2>1, UpsertEffect DEF CallInv, Counts
  <2>2. CASE ~Conflicts(r, Fence(r))
    <3>1. Fence(r) \notin run[r].inserted
      BY <2>2 DEF Conflicts
    <3>2. /\ IsFiniteSet(run[r].inserted)
          /\ run[r].count = Cardinality(run[r].inserted)
      BY DEF CallInv, Counts
    <3>3. /\ IsFiniteSet(run[r].inserted \cup {Fence(r)})
          /\ Cardinality(run[r].inserted \cup {Fence(r)})
                = Cardinality(run[r].inserted) + 1
      BY <3>1, <3>2, FS_AddElement
    <3>4. /\ run'[r].inserted = run[r].inserted \cup {Fence(r)}
          /\ run'[r].count = run[r].count + 1
      BY <2>2, UpsertEffect
    <3> QED
      BY <3>2, <3>3, <3>4 DEF Counts
  <2> QED
    BY <2>1, <2>2
<1>3. OwnKeys(r)'
  <2> SUFFICES ASSUME NEW f \in run'[r].inserted
               PROVE  /\ ~Issued(f)'
                      /\ \A q \in Runs : q # r => ~Holds(q, f)'
    BY DEF OwnKeys
  <2>1. \A q \in Runs : q # r => (Holds(q, f)' <=> Holds(q, f))
    BY Others DEF RunNext, Holds, At
  <2>2. Issued(f)' <=> Issued(f)
    BY <1>1 DEF Issued
  <2>3. CASE f \in run[r].inserted
    BY <2>1, <2>2, <2>3 DEF CallInv, OwnKeys
  <2>4. CASE f \notin run[r].inserted
    <3>1. f = Fence(r) /\ ~Conflicts(r, Fence(r))
      BY <2>4, UpsertEffect
    <3> QED
      BY <2>1, <2>2, <3>1, UpsertEffect DEF Conflicts, Issued
  <2> QED
    BY <2>3, <2>4
<1>4. OwnRows(r)'
  BY <1>1, UpsertEffect DEF CallInv, OwnRows, At
<1>5. Handled(r)'
  <2> SUFFICES ASSUME NEW k \in DOMAIN run[r].rows, k < run[r].next + 1,
                      Overdue(DaysPastDue(run[r].rows[k], run[r].day))
               PROVE  Key(r, k) \in run'[r].inserted \/ Issued(Key(r, k))
    BY <1>1, UpsertEffect DEF Handled, Key, Issued
  <2>1. k < run[r].next \/ k = run[r].next
    BY DEF RunStates
  <2>2. CASE k < run[r].next
    BY <2>2, UpsertEffect DEF CallInv, Handled
  <2>3. CASE k = run[r].next
    <3>1. Key(r, k) = Fence(r)
      BY <2>3 DEF Key, Fence, Current, Delay
    <3> QED
      BY <3>1, UpsertEffect DEF Conflicts, Issued
  <2> QED
    BY <2>1, <2>2, <2>3
<1>6. Shape(r)'
  BY UpsertEffect DEF CallInv, Shape, At, RunStates
<1> QED
  BY <1>2, <1>3, <1>4, <1>5, <1>6 DEF CallInv
\* Passing a row over, committing and rolling back: the keys stay, and a
\* commit turns them into rows of the run.
LEMMA MoveOwn ==
    ASSUME Inv, NEW r \in Runs, Skip(r) \/ Commit(r) \/ RollBack(r)
    PROVE  CallInv(r)'
<1> TypeOK /\ CallInv(r) /\ run[r] \in RunStates /\ At(r, "open")
  BY MoveEffect DEF Inv, TypeOK
<1> RunNext(r)
  BY DEF RunNext
<1>1. Counts(r)'
  BY MoveEffect DEF CallInv, Counts
<1>2. OwnKeys(r)'
  <2>1. CASE Skip(r)
    <3>1. \A f : \A q \in Runs : q # r => (Holds(q, f)' <=> Holds(q, f))
      BY Others DEF Holds, At
    <3>2. \A f : Issued(f)' <=> Issued(f)
      BY <2>1 DEF Skip, Issued
    <3> QED
      BY <3>1, <3>2, MoveEffect DEF CallInv, OwnKeys
  <2>2. CASE Commit(r) \/ RollBack(r)
    BY <2>2, MoveEffect DEF OwnKeys, At
  <2> QED
    BY <2>1, <2>2
<1>3. OwnRows(r)'
  <2>1. CASE Skip(r) \/ RollBack(r)
    <3>1. UNCHANGED <<actions, emitted>>
      BY <2>1 DEF Skip, RollBack
    <3>2. ~At(r, "committed") /\ ~At(r, "committed")'
      BY <2>1, MoveEffect DEF At
    <3> QED
      BY <3>1, <3>2 DEF CallInv, OwnRows
  <2>2. CASE Commit(r)
    <3>1. At(r, "committed")' /\ r \in DOMAIN emitted'
      BY <2>2, MoveEffect DEF Commit, At
    <3>2. \A f \in Fences : [run |-> r, fence |-> f] \notin actions
      BY DEF CallInv, OwnRows, At
    <3>3. \A f \in Fences : [run |-> r, fence |-> f] \in actions'
                                <=> f \in run[r].inserted
      BY <2>2, <3>2 DEF Commit
    <3> QED
      BY <3>1, <3>3, MoveEffect DEF OwnRows
  <2> QED
    BY <2>1, <2>2
<1>4. Handled(r)'
  <2>1. \A k : Key(r, k)' = Key(r, k)
    BY MoveEffect DEF Key
  <2>2. \A f : Issued(f) => Issued(f)'
    BY ActionsStay
  <2> SUFFICES ASSUME NEW k \in DOMAIN run[r].rows, k < run'[r].next,
                      Overdue(DaysPastDue(run[r].rows[k], run[r].day))
               PROVE  Key(r, k) \in run[r].inserted \/ Issued(Key(r, k))
    BY <2>1, <2>2, MoveEffect DEF Handled
  <2>3. CASE Skip(r)
    <3>1. ~Overdue(DaysPastDue(run[r].rows[run[r].next], run[r].day))
      BY <2>3 DEF Skip, Delay, Current
    <3>2. k < run[r].next
      BY <2>3, <3>1, MoveEffect DEF RunStates
    <3> QED
      BY <3>2 DEF CallInv, Handled
  <2>4. CASE Commit(r) \/ RollBack(r)
    BY <2>4, MoveEffect DEF CallInv, Handled
  <2> QED
    BY <2>3, <2>4
<1>5. Shape(r)'
  <2>1. CASE Skip(r)
    BY <2>1, MoveEffect DEF CallInv, Shape, At, RunStates
  <2>2. CASE Commit(r)
    BY <2>2, MoveEffect DEF CallInv, Shape, At, Commit, Handling
  <2>3. CASE RollBack(r)
    BY <2>3, MoveEffect DEF CallInv, Shape, At
  <2> QED
    BY <2>1, <2>2, <2>3
<1> QED
  BY <1>1, <1>2, <1>3, <1>4, <1>5 DEF CallInv

\* The committing run adds keys that no action has.
LEMMA ActionsDiffer ==
    ASSUME Inv, NEW r \in Runs, RunNext(r)
    PROVE  OneActionPerLevel'
<1>1. CASE Commit(r)
  <2>1. At(r, "open") /\ OwnKeys(r)
    BY <1>1, MoveEffect DEF Inv, CallInv
  <2>2. \A f \in run[r].inserted : \A a \in actions : a.fence # f
    BY <2>1 DEF OwnKeys, Issued
  <2>3. actions' = actions \cup {[run |-> r, fence |-> f] : f \in run[r].inserted}
    BY <1>1 DEF Commit
  <2> QED
    BY <2>2, <2>3 DEF Inv, OneActionPerLevel
<1>2. CASE ~Commit(r)
  BY <1>2 DEF Inv, OneActionPerLevel, RunNext, Begin, Skip, Upsert, RollBack
<1> QED
  BY <1>1, <1>2

\* What a committed run reports does not change, and is what it counted.
LEMMA ReportsStay ==
    ASSUME Inv, NEW r \in Runs, RunNext(r)
    PROVE  \A q \in DOMAIN emitted' : emitted'[q] = run'[q].count
<1> TypeOK /\ CallInv(r) /\ \A q \in DOMAIN emitted : emitted[q] = run[q].count
  BY DEF Inv
<1>1. r \notin DOMAIN emitted
  <2>1. ~At(r, "committed")
    BY DEF RunNext, Begin, Skip, Upsert, Commit, RollBack, Handling, At
  <2> QED
    BY <2>1 DEF CallInv, OwnRows
<1>2. \A q \in DOMAIN emitted : q \in Runs /\ q # r /\ run'[q] = run[q]
  BY <1>1, Others DEF TypeOK
<1>3. CASE Commit(r)
  <2>1. DOMAIN emitted' = DOMAIN emitted \cup {r}
    BY <1>3 DEF Commit
  <2>2. emitted'[r] = run'[r].count
    BY <1>3, MoveEffect DEF Commit
  <2>3. \A q \in DOMAIN emitted : emitted'[q] = emitted[q]
    BY <1>1, <1>3 DEF Commit
  <2> QED
    BY <1>2, <2>1, <2>2, <2>3
<1>4. CASE ~Commit(r)
  <2>1. UNCHANGED emitted
    BY <1>4 DEF RunNext, Begin, Skip, Upsert, RollBack
  <2> QED
    BY <1>2, <2>1
<1> QED
  BY <1>3, <1>4

\* No call, no row, no report.
LEMMA InvInit == Init => Inv
<1> SUFFICES ASSUME Init PROVE Inv
  OBVIOUS
<1>1. TypeOK
  BY InitType
<1>2. OneActionPerLevel /\ DOMAIN emitted = {}
  BY DEF Init, OneActionPerLevel
<1>3. ASSUME NEW r \in Runs PROVE CallInv(r)
  <2>1. run[r] = New
    BY DEF Init
  <2>2. Counts(r)
    BY <2>1, FS_EmptySet DEF Counts, New
  <2>3. OwnKeys(r) /\ Handled(r) /\ Shape(r)
    BY <2>1 DEF OwnKeys, Handled, Shape, At, New
  <2>4. OwnRows(r)
    BY <1>2, <2>1 DEF Init, OwnRows, At, New
  <2> QED
    BY <2>2, <2>3, <2>4 DEF CallInv
<1> QED
  BY <1>1, <1>2, <1>3 DEF Inv

\* Every step keeps the invariant.
LEMMA InvStep == Inv /\ [Next]_dunningVars => Inv'
<1> SUFFICES ASSUME Inv, [Next]_dunningVars PROVE Inv'
  OBVIOUS
<1>1. TypeOK'
  BY StepType DEF Inv
<1>2. ASSUME NEW r \in Runs, RunNext(r) PROVE Inv'
  <2>1. CallInv(r)'
    BY <1>2, BeginOwn, UpsertOwn, MoveOwn DEF RunNext
  <2>2. \A q \in Runs : CallInv(q)'
    BY <1>2, <2>1, OtherCall
  <2> QED
    BY <1>1, <1>2, <2>2, ActionsDiffer, ReportsStay DEF Inv
<1>3. CASE UNCHANGED dunningVars
  BY <1>1, <1>3 DEF dunningVars, Inv, OneActionPerLevel, CallInv, Counts, OwnKeys,
     OwnRows, Handled, Shape, Key, Issued, Holds, At
<1> QED
  BY <1>2, <1>3 DEF Next
-------------------------------------------------------------------------------
(***************************************************************************)
(* The theorems.                                                           *)
(***************************************************************************)

\* The inductive invariant holds.
THEOREM InvHolds == Spec => []Inv
BY InvInit, InvStep, PTL DEF Spec

\* Every variable keeps its type.
THEOREM TypeCorrect == Spec => []TypeOK
<1>1. Inv => TypeOK
  BY DEF Inv
<1> QED
  BY <1>1, InvHolds, PTL

\* run_dunning issues an escalation of an invoice once, however many calls
\* overlap, repeat or roll back.
THEOREM EscalatedOnce == Spec => []OneActionPerLevel
<1>1. Inv => OneActionPerLevel
  BY DEF Inv
<1> QED
  BY <1>1, InvHolds, PTL

\* The rows of a committed run are as many as the keys it inserted.
LEMMA RowsOfRun ==
    ASSUME Inv, NEW r \in Runs, At(r, "committed")
    PROVE  Cardinality({a \in actions : a.run = r}) = Cardinality(run[r].inserted)
<1> DEFINE rows == {a \in actions : a.run = r}
           row == [f \in run[r].inserted |-> [run |-> r, fence |-> f]]
<1> TypeOK /\ CallInv(r) /\ run[r].inserted \subseteq Fences
  BY DEF Inv, TypeOK, RunStates
<1>1. \A f \in run[r].inserted : row[f] \in rows
  BY DEF CallInv, OwnRows
<1>2. \A a \in rows : a.fence \in run[r].inserted /\ row[a.fence] = a
  <2> SUFFICES ASSUME NEW a \in rows
               PROVE  a.fence \in run[r].inserted /\ row[a.fence] = a
    OBVIOUS
  <2>1. a.fence \in Fences /\ a = [run |-> r, fence |-> a.fence]
    BY DEF TypeOK, Actions
  <2>2. a.fence \in run[r].inserted
    BY <2>1 DEF CallInv, OwnRows
  <2> QED
    BY <2>1, <2>2
<1>3. \A f, g \in run[r].inserted : row[f] = row[g] => f = g
  OBVIOUS
<1>4. row \in Bijection(run[r].inserted, rows)
  BY <1>1, <1>2, <1>3 DEF Bijection, Injection, Surjection, IsInjective
<1> QED
  BY <1>4, FS_Bijection DEF CallInv, Counts, ExistsBijection

\* A committed run reports exactly the actions it owns, and every action has a
\* committed run.
THEOREM ReportsAreExact == Spec => []EmittedCountsItsActions
<1>1. ASSUME Inv PROVE EmittedCountsItsActions
  <2> TypeOK /\ \A r \in Runs : CallInv(r)
    BY <1>1 DEF Inv
  <2>1. ASSUME NEW r \in DOMAIN emitted
        PROVE  emitted[r] = Cardinality({a \in actions : a.run = r})
    <3>1. r \in Runs /\ At(r, "committed")
      BY DEF TypeOK, CallInv, OwnRows
    <3>2. emitted[r] = Cardinality(run[r].inserted)
      BY <1>1, <3>1 DEF Inv, CallInv, Counts
    <3> QED
      BY <1>1, <3>1, <3>2, RowsOfRun
  <2>2. ASSUME NEW a \in actions PROVE a.run \in DOMAIN emitted
    <3>1. a.run \in Runs /\ a.fence \in Fences /\ a = [run |-> a.run, fence |-> a.fence]
      BY DEF TypeOK, Actions
    <3> QED
      BY <3>1 DEF CallInv, OwnRows
  <2> QED
    BY <2>1, <2>2 DEF EmittedCountsItsActions
<1> QED
  BY <1>1, InvHolds, PTL

\* No overdue invoice read by a committed run is without its action, though
\* the run may have given way to runs that rolled back.
THEOREM NobodyIsForgotten == Spec => []EveryOverdueInvoiceIsChased
<1>1. ASSUME Inv PROVE EveryOverdueInvoiceIsChased
  <2> TypeOK /\ \A r \in Runs : CallInv(r)
    BY <1>1 DEF Inv
  <2> SUFFICES ASSUME NEW r \in DOMAIN emitted, NEW i \in Range(run[r].rows),
                      DueDate[i] # NoDate, DueDate[i] < run[r].day
               PROVE  \E a \in actions :
                         a.fence = <<i, DunningLevel(run[r].day - DueDate[i])>>
    BY DEF EveryOverdueInvoiceIsChased
  <2>1. r \in Runs /\ At(r, "committed")
    BY DEF TypeOK, CallInv, OwnRows
  <2>2. run[r] \in RunStates
    BY <2>1 DEF TypeOK
  <2>3. PICK k \in DOMAIN run[r].rows : run[r].rows[k] = i
    BY DEF Range
  <2>4. k < run[r].next
    <3>1. run[r].rows \in Seq(Invoices) /\ run[r].next \in Nat /\ run[r].next >= 1
      BY <2>1, <2>2 DEF RunStates, CallInv, Shape
    <3>2. run[r].next \notin DOMAIN run[r].rows
      BY <2>1 DEF CallInv, Shape
    <3> QED
      BY <2>3, <3>1, <3>2
  <2>5. DueDate[i] \in Int /\ run[r].day \in Int
    <3>1. i \in Invoices
      BY <2>2, <2>3, ElementOfSeq DEF RunStates
    <3> QED
      BY <2>2, <3>1, DueDateAssumption, DunningDaysAssumption DEF RunStates
  <2>6. /\ DaysPastDue(i, run[r].day) = run[r].day - DueDate[i]
        /\ Overdue(run[r].day - DueDate[i])
    BY <2>5 DEF DaysPastDue, Overdue
  <2>7. \/ Key(r, k) \in run[r].inserted
        \/ Issued(Key(r, k))
    BY <2>1, <2>3, <2>4, <2>6 DEF CallInv, Handled
  <2>8. Issued(Key(r, k))
    <3>1. \A f \in run[r].inserted : f \in Fences /\ [run |-> r, fence |-> f] \in actions
      BY <2>1, <2>2 DEF CallInv, OwnRows, RunStates
    <3> QED
      BY <2>7, <3>1 DEF Issued
  <2> QED
    BY <2>3, <2>6, <2>8 DEF Issued, Key
<1> QED
  BY <1>1, InvHolds, PTL
===============================================================================
