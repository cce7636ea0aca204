------------------------- MODULE CrudSurfaceProofs -------------------------
(***************************************************************************)
(* CrudSurface for any rows, watched columns, families of tables, and any  *)
(* number of clients.                                                      *)
(***************************************************************************)
EXTENDS CrudSurface, TLAPS

----------------------------------------------------------------------------
(***************************************************************************)
(* Rows.                                                                   *)
(***************************************************************************)

\* A row is a function on the table's columns that keeps to their kinds.
LEMMA RowShape ==
    ASSUME NEW t \in DOMAIN Schema, NEW f
    PROVE  f \in RowsOf[t] <=>
             /\ f = [c \in Columns(t) |-> f[c]]
             /\ \A c \in Columns(t) : f[c] \in Schema[t][c]
<1> DEFINE All == UNION {Schema[t][c] : c \in Columns(t)}
           Body == {row \in [Columns(t) -> All] :
                      \A c \in Columns(t) : row[c] \in Schema[t][c]}
<1>1. RowsOf[t] = Body
  BY DEF RowsOf
<1>2. ASSUME f = [c \in Columns(t) |-> f[c]],
             \A c \in Columns(t) : f[c] \in Schema[t][c]
      PROVE  f \in [Columns(t) -> All]
  <2>1. \A c \in Columns(t) : f[c] \in All
    BY <1>2
  <2> HIDE DEF All
  <2>2. QED BY <1>2, <2>1
<1>3. QED BY <1>1, <1>2

\* What is put together column by column from two rows is a row.
LEMMA RowMix ==
    ASSUME NEW t \in DOMAIN Schema, NEW a \in RowsOf[t], NEW b \in RowsOf[t],
           NEW S
    PROVE  [c \in Columns(t) |-> IF c \in S THEN a[c] ELSE b[c]] \in RowsOf[t]
<1> DEFINE f == [c \in Columns(t) |-> IF c \in S THEN a[c] ELSE b[c]]
<1>1. \A c \in Columns(t) : a[c] \in Schema[t][c] /\ b[c] \in Schema[t][c]
  BY RowShape
<1>2. f = [c \in Columns(t) |-> f[c]] /\ \A c \in Columns(t) : f[c] \in Schema[t][c]
  BY <1>1
<1> HIDE DEF f
<1>3. f \in RowsOf[t]
  BY <1>2, RowShape
<1>4. QED BY <1>3 DEF f

\* FromCreate sets every column of its table.
LEMMA CreatesSetAll == \A t \in DOMAIN Schema : Created[t] = DOMAIN Schema[t]
BY DEF Schema, Created,
       PaymentEntryFromCreate, CreatePaymentEntryDto,
       PaymentAllocationFromCreate, CreatePaymentAllocationDto,
       AgingSnapshotFromCreate, CreateAgingSnapshotDto,
       AgingBucketFromCreate, CreateAgingBucketDto,
       DunningRunFromCreate, CreateDunningRunDto,
       DunningActionFromCreate, CreateDunningActionDto,
       ModeOfPaymentFromCreate, CreateModeOfPaymentDto

LEMMA InsertedIsRow ==
    ASSUME NEW t \in DOMAIN Schema, NEW body \in RowsOf[t]
    PROVE  Inserted(t, body) \in RowsOf[t]
<1>1. Columns(t) \subseteq Created[t]
  BY CreatesSetAll DEF Columns
<1>2. Inserted(t, body) = [c \in Columns(t) |-> body[c]]
  BY <1>1 DEF Inserted
<1>3. QED BY <1>2, RowShape

LEMMA AppliedIsRow ==
    ASSUME NEW t \in DOMAIN Schema, NEW row \in RowsOf[t],
           NEW body \in RowsOf[t]
    PROVE  Applied(t, row, body) \in RowsOf[t]
BY RowMix DEF Applied

LEMMA PatchedIsRow ==
    ASSUME NEW t \in DOMAIN Schema, NEW row \in RowsOf[t],
           NEW fields \in PatchesOf[t]
    PROVE  Patched(t, row, fields) \in RowsOf[t]
<1> DEFINE f == Patched(t, row, fields)
<1>1. \A c \in Columns(t) : row[c] \in Schema[t][c]
  BY RowShape
<1>2. \A c \in Columns(t) : fields[c] \in Schema[t][c] \cup {"malformed"}
  BY DEF PatchesOf
<1>3. /\ f = [c \in Columns(t) |-> f[c]]
      /\ \A c \in Columns(t) : f[c] \in Schema[t][c]
  BY <1>1, <1>2 DEF Patched
<1> HIDE DEF f
<1>4. f \in RowsOf[t]
  BY <1>3, RowShape
<1>5. QED BY <1>4 DEF f

\* The verbs leave the columns of keys and references alone.
LEMMA VerbsLeaveKeys ==
    /\ \A t \in DOMAIN Schema : UniqueKey[t] \cap VerbColumns[t] = {}
    /\ \A ref \in References : ref[2] \notin VerbColumns[ref[1]]
BY DEF Schema, UniqueKey, VerbColumns, References

\* No mount but "all" serves a generic write.
LEMMA WritesNeedAll ==
    ASSUME NEW m \in DOMAIN Mounts, m # "all", NEW p,
           NEW op \in WriteOps
    PROVE  <<p, op>> \notin Mounts[m]
<1>1. op \notin ReadOps
       /\ op \notin {"create_payment", "submit_payment", "reject_payment"}
  BY DEF ReadOps, WriteOps, CreateOps, UpdateOps
<1>2. <<p, op>> \notin VerbRoutes
  BY <1>1 DEF VerbRoutes
<1>3. \A path : <<p, op>> \notin RoutersAt(path).read
  BY <1>1 DEF RoutersAt
<1>4. <<p, op>> \notin GuardedRoutes
  BY <1>2, <1>3 DEF GuardedRoutes, ModeOfPaymentRoutes, PaymentEntryRoutes
<1>5. <<p, op>> \notin ReadonlyRoutes
  BY <1>3 DEF ReadonlyRoutes, AgingSnapshotRoutes, AgingBucketRoutes,
       DunningRunRoutes, DunningActionRoutes, ModeOfPaymentRoutes,
       PaymentEntryRoutes, PaymentAllocationRoutes
<1>6. m = "readonly" \/ m = "guarded"
  BY DEF Mounts
<1>7. QED BY <1>4, <1>5, <1>6 DEF Mounts

\* The seeds that have no row yet, and what is known of them.
LEMMA SeedsAreRows ==
    ASSUME SeederInserts
    PROVE  \E new \in SUBSET (DOMAIN SeedRows \ DOMAIN rows) :
              InsertSeeds(new) /\ new \subseteq Cells
                /\ \A x \in new : SeedRows[x] \in RowsOf[x[1]]
BY SeedsAssumption DEF SeederInserts, Mine

LEMMA CellTables == \A x \in Cells : x[1] \in DOMAIN Schema
BY CellsAssumption

----------------------------------------------------------------------------
(***************************************************************************)
(* Types.                                                                  *)
(***************************************************************************)
LEMMA InitType == Init => TypeOK
<1> SUFFICES ASSUME Init PROVE TypeOK
  OBVIOUS
<1>1. PICK old \in SUBSET (Legacy \cap Mine) :
         rows \in {f \in [old -> UNION {RowsOf[x[1]] : x \in old}] :
                     \A x \in old : f[x] \in RowsOf[x[1]]}
  BY DEF Init
<1>2. DOMAIN rows \subseteq Cells /\ \A x \in DOMAIN rows : rows[x] \in RowsOf[x[1]]
  BY <1>1 DEF Mine
<1>3. \A u \in unruled : u[1] \in DOMAIN rows /\ u[2] \in Columns(u[1][1])
  BY DEF Init, Around
<1>4. DOMAIN request = {}
  BY DEF Init
<1>5. QED BY <1>2, <1>3, <1>4 DEF Init, TypeOK

\* An update under way is typed when its new row is.
LEMMA BeginType ==
    ASSUME TypeOK, NEW cl \in Clients, NEW x \in Live,
           NEW after \in RowsOf[x[1]], Begin(cl, x, after)
    PROVE  TypeOK'
<1> DEFINE new == [cell |-> x, after |-> after,
                   changed |-> {c \in Columns(x[1]) : after[c] # rows[x][c]}]
<1>1. /\ DOMAIN request' = DOMAIN request \cup {cl}
      /\ \A k \in DOMAIN request' : request'[k] = IF k = cl THEN new ELSE request[k]
  BY DEF Begin
<1>2. /\ DOMAIN new = {"cell", "after", "changed"}
      /\ new.cell = x /\ new.after = after
      /\ new.changed \subseteq Columns(x[1])
  OBVIOUS
<1>3. x \in born
  BY DEF Live, TypeOK
<1> HIDE DEF new
<1>4. \A k \in DOMAIN request' :
         /\ DOMAIN request'[k] = {"cell", "after", "changed"}
         /\ request'[k].cell \in born
         /\ request'[k].after \in RowsOf[request'[k].cell[1]]
         /\ request'[k].changed \subseteq Columns(request'[k].cell[1])
  BY <1>1, <1>2, <1>3 DEF TypeOK
<1>5. QED BY <1>1, <1>4 DEF TypeOK, Begin

LEMMA StepType == TypeOK /\ [Next]_vars => TypeOK'
<1> SUFFICES ASSUME TypeOK, [Next]_vars PROVE TypeOK'
  OBVIOUS
<1>1. ASSUME NEW x \in Cells, Create(x) PROVE TypeOK'
  <2>1. PICK body \in RowsOf[x[1]] : rows' = With(x, Inserted(x[1], body))
    BY <1>1 DEF Create
  <2>2. Inserted(x[1], body) \in RowsOf[x[1]]
    BY CellTables, InsertedIsRow
  <2>3. QED BY <1>1, <2>1, <2>2 DEF Create, With, TypeOK
<1>2. ASSUME NEW x \in Cells, Delete(x) PROVE TypeOK'
  BY <1>2 DEF Delete, Live, TypeOK
<1>3. ASSUME NEW x \in Cells, Restore(x) PROVE TypeOK'
  BY <1>3 DEF Restore, TypeOK
<1>4. ASSUME NEW gone, Remove(gone) PROVE TypeOK'
  BY <1>4 DEF Remove, Without, TypeOK
<1>5. ASSUME NEW x \in Cells, CreatePayment(x) PROVE TypeOK'
  <2> PICK new \in SUBSET {y \in Mine \ born : y[1] = "payment_allocations"} :
          \E entry \in RowsOf[x[1]],
             lines \in [new -> RowsOf["payment_allocations"]] :
                InsertTogether(x, entry, lines)
    BY <1>5 DEF CreatePayment
  <2>1. PICK entry \in RowsOf[x[1]],
             lines \in [new -> RowsOf["payment_allocations"]] :
                InsertTogether(x, entry, lines)
    OBVIOUS
  <2>2. DOMAIN lines = new
    OBVIOUS
  <2>3. new \subseteq Cells /\ \A y \in new : y[1] = "payment_allocations"
    BY DEF Mine
  <2>4. \A y \in DOMAIN rows' : rows'[y] \in RowsOf[y[1]]
    BY <2>1, <2>2, <2>3 DEF InsertTogether, TypeOK
  <2>5. \A u \in unruled' : u[1] \in born' /\ u[2] \in Columns(u[1][1])
    BY <2>1, <2>2 DEF InsertTogether, Around, TypeOK
  <2>6. QED
    BY <1>5, <2>1, <2>2, <2>3, <2>4, <2>5 DEF CreatePayment, InsertTogether,
       TypeOK
<1>6. ASSUME NEW x \in Cells, SchedulerInsert(x) PROVE TypeOK'
  BY <1>6 DEF SchedulerInsert, With, Around, TypeOK
<1>7. ASSUME NEW x \in Cells, VerbWrite(x) PROVE TypeOK'
  BY <1>7 DEF VerbWrite, With, Around, TypeOK
<1>8. ASSUME NEW cl \in Clients, NEW x \in Cells, Update(cl, x) PROVE TypeOK'
  <2>1. PICK body \in RowsOf[x[1]] : Begin(cl, x, Applied(x[1], rows[x], body))
    BY <1>8 DEF Update
  <2>2. x \in Live /\ rows[x] \in RowsOf[x[1]]
    BY <1>8 DEF Update, Live, TypeOK
  <2>3. Applied(x[1], rows[x], body) \in RowsOf[x[1]]
    BY <2>2, CellTables, AppliedIsRow
  <2>4. QED BY <2>1, <2>2, <2>3, BeginType
<1>9. ASSUME NEW cl \in Clients, NEW x \in Cells, Patch(cl, x) PROVE TypeOK'
  <2>1. PICK fields \in PatchesOf[x[1]] :
           Begin(cl, x, Patched(x[1], rows[x], fields))
    BY <1>9 DEF Patch
  <2>2. x \in Live /\ rows[x] \in RowsOf[x[1]]
    BY <1>9 DEF Patch, Live, TypeOK
  <2>3. Patched(x[1], rows[x], fields) \in RowsOf[x[1]]
    BY <2>2, CellTables, PatchedIsRow
  <2>4. QED BY <2>1, <2>2, <2>3, BeginType
<1>10. ASSUME NEW cl \in Clients, Store(cl) PROVE TypeOK'
  <2> DEFINE x == request[cl].cell
             after == request[cl].after
  <2>1. cl \in DOMAIN request /\ x \in DOMAIN rows
    BY <1>10 DEF Store
  <2>2. /\ x \in Cells /\ rows[x] \in RowsOf[x[1]]
        /\ after \in RowsOf[x[1]]
    BY <2>1 DEF TypeOK
  <2>3. PICK columns \in {request[cl].changed, Columns(x[1])} :
           /\ rows' = With(x, Merge(x, after, columns))
           /\ \/ trashed' = trashed
              \/ trashed' = trashed \ {x}
    BY <1>10 DEF Store
  <2>4. Merge(x, after, columns) \in RowsOf[x[1]]
    BY <2>2, CellTables, RowMix DEF Merge
  <2>5. /\ DOMAIN request' = DOMAIN request \ {cl}
        /\ \A k \in DOMAIN request' : request'[k] = request[k]
        /\ UNCHANGED <<surface, checked, seeding, born, unruled>>
    BY <1>10 DEF Store, Finish
  <2> HIDE DEF x, after
  <2>6. /\ DOMAIN rows' = DOMAIN rows
        /\ \A y \in DOMAIN rows' : rows'[y] \in RowsOf[y[1]]
    BY <2>1, <2>3, <2>4 DEF With, TypeOK
  <2>7. QED BY <2>3, <2>5, <2>6 DEF TypeOK
<1>11. ASSUME NEW cl \in Clients, Drop(cl) PROVE TypeOK'
  BY <1>11 DEF Drop, Finish, TypeOK
<1>12. CASE UNCHANGED vars
  BY <1>12 DEF vars, TypeOK
<1>13. ASSUME SeederInserts PROVE TypeOK'
  <2>1. PICK new \in SUBSET (DOMAIN SeedRows \ DOMAIN rows) :
           InsertSeeds(new) /\ new \subseteq Cells
             /\ \A x \in new : SeedRows[x] \in RowsOf[x[1]]
    BY <1>13, SeedsAreRows
  <2>2. /\ DOMAIN rows' = DOMAIN rows \cup new
        /\ \A y \in DOMAIN rows' : rows'[y] \in RowsOf[y[1]]
    BY <2>1 DEF InsertSeeds, TypeOK
  <2>3. \A u \in unruled' : u[1] \in born' /\ u[2] \in Columns(u[1][1])
    BY <2>1 DEF InsertSeeds, Around, TypeOK
  <2>4. born' = born \cup new
    BY <2>1 DEF InsertSeeds
  <2>5. UNCHANGED <<surface, checked, trashed, request>> /\ seeding' = FALSE
    BY <1>13 DEF SeederInserts
  <2>6. QED BY <2>1, <2>2, <2>3, <2>4, <2>5 DEF TypeOK
<1>14. ASSUME SeederLooks \/ SeederStops PROVE TypeOK'
  BY <1>14 DEF SeederLooks, SeederStops, TypeOK
<1>15. QED
  BY <1>1, <1>2, <1>3, <1>4, <1>5, <1>6, <1>7, <1>8, <1>9, <1>10, <1>11,
     <1>12, <1>13, <1>14 DEF Next, Purge, EmptyTrash

----------------------------------------------------------------------------
(***************************************************************************)
(* What one statement does to the rows.                                    *)
(***************************************************************************)

\* The late write of an update hits a row that is still stored, past checks and
\* references; a row that is live after it went past the index too.
LEMMA StoreWrites ==
    ASSUME NEW cl \in Clients, Store(cl)
    PROVE  LET x == request[cl].cell
               after == request[cl].after
           IN /\ cl \in DOMAIN request /\ x \in DOMAIN rows
              /\ \E columns \in {request[cl].changed, Columns(x[1])} :
                   LET row == Merge(x, after, columns) IN
                   /\ ChecksTake(x[1], row) /\ KeysTake(x[1], row)
                   /\ rows' = With(x, row)
                   /\ \/ x \in trashed /\ trashed' = trashed
                      \/ IndexTakes(x, row) /\ trashed' = trashed \ {x}
BY DEF Store, Live

----------------------------------------------------------------------------
(***************************************************************************)
(* References.                                                             *)
(***************************************************************************)

\* A statement that writes one row, all of whose parents are there, and takes
\* none away, orphans nothing.
LEMMA WriteKeepsParents ==
    ASSUME ChildrenHaveParents, NEW x, NEW row, KeysTake(x[1], row),
           rows' = With(x, row)
    PROVE  ChildrenHaveParents'
<1>1. DOMAIN rows' = DOMAIN rows \cup {x}
  BY DEF With
<1>2. \A y \in DOMAIN rows' :
         rows'[y] = IF y = x THEN row ELSE rows[y]
  BY DEF With
<1>3. \A y \in DOMAIN rows' : Parents(y[1], rows'[y]) \subseteq DOMAIN rows
  BY <1>1, <1>2 DEF ChildrenHaveParents, KeysTake
<1>4. QED BY <1>1, <1>3 DEF ChildrenHaveParents, Parents

LEMMA StepParents ==
    TypeOK /\ ChildrenHaveParents /\ [Next]_vars => ChildrenHaveParents'
<1> SUFFICES ASSUME TypeOK, ChildrenHaveParents, [Next]_vars
             PROVE  ChildrenHaveParents'
  OBVIOUS
<1>1. ASSUME rows' = rows PROVE ChildrenHaveParents'
  BY <1>1 DEF ChildrenHaveParents, Parents
<1>2. ASSUME NEW x \in Cells, Create(x) PROVE ChildrenHaveParents'
  BY <1>2, WriteKeepsParents DEF Create, Takes
<1>3. ASSUME NEW x \in Cells, SchedulerInsert(x) PROVE ChildrenHaveParents'
  BY <1>3, WriteKeepsParents DEF SchedulerInsert, Takes
<1>4. ASSUME NEW x \in Cells, VerbWrite(x) PROVE ChildrenHaveParents'
  <2>1. PICK row \in RowsOf[x[1]] :
           /\ \A c \in Columns(x[1]) \ VerbColumns[x[1]] : row[c] = rows[x][c]
           /\ rows' = With(x, row)
    BY <1>4 DEF VerbWrite
  <2>2. \A ref \in References :
           ref[1] = x[1] /\ ref[2] \in Columns(x[1]) => row[ref[2]] = rows[x][ref[2]]
    BY <2>1, VerbsLeaveKeys
  <2>3. Parents(x[1], row) = Parents(x[1], rows[x])
    BY <2>2 DEF Parents
  <2>4. KeysTake(x[1], row)
    BY <1>4, <2>3 DEF VerbWrite, KeysTake, ChildrenHaveParents
  <2>5. QED BY <2>1, <2>4, WriteKeepsParents
<1>5. ASSUME NEW cl \in Clients, Store(cl) PROVE ChildrenHaveParents'
  <2> DEFINE x == request[cl].cell
  <2>1. PICK row : KeysTake(x[1], row) /\ rows' = With(x, row)
    BY <1>5, StoreWrites
  <2>2. QED BY <2>1, WriteKeepsParents
<1>6. ASSUME NEW x \in Cells, CreatePayment(x) PROVE ChildrenHaveParents'
  <2>1. PICK entry, lines : InsertTogether(x, entry, lines)
    BY <1>6 DEF CreatePayment
  <2>2. DOMAIN rows' = DOMAIN rows \cup {x} \cup DOMAIN lines
    BY <2>1 DEF InsertTogether
  <2>3. \A y \in DOMAIN rows' : Parents(y[1], rows'[y]) \subseteq DOMAIN rows'
    BY <2>1, <2>2 DEF InsertTogether, LineTakes, Takes, KeysTake,
                          ChildrenHaveParents
  <2>4. QED BY <2>3 DEF ChildrenHaveParents, Parents
<1>7. ASSUME NEW gone, Remove(gone) PROVE ChildrenHaveParents'
  <2>1. DOMAIN rows' = DOMAIN rows \ gone
        /\ \A y \in DOMAIN rows' : rows'[y] = rows[y]
    BY <1>7 DEF Remove, Without
  <2>2. \A y \in DOMAIN rows' : Parents(y[1], rows'[y]) \subseteq DOMAIN rows'
    BY <1>7, <2>1 DEF Remove, Unreferenced, ChildrenHaveParents
  <2>3. QED BY <2>2 DEF ChildrenHaveParents, Parents
<1>8. CASE UNCHANGED rows
  BY <1>1, <1>8
<1>11. ASSUME SeederInserts PROVE ChildrenHaveParents'
  <2>1. PICK new : InsertSeeds(new)
    BY <1>11, SeedsAreRows
  <2>2. DOMAIN rows' = DOMAIN rows \cup new
    BY <2>1 DEF InsertSeeds
  <2>3. \A y \in DOMAIN rows' : Parents(y[1], rows'[y]) \subseteq DOMAIN rows'
    BY <2>1, <2>2 DEF InsertSeeds, Takes, KeysTake, ChildrenHaveParents
  <2>4. QED BY <2>3 DEF ChildrenHaveParents, Parents
<1>9. \/ UNCHANGED rows \/ SeederInserts
      \/ \E x \in Cells : Create(x) \/ SchedulerInsert(x) \/ VerbWrite(x)
                          \/ CreatePayment(x)
      \/ \E gone : Remove(gone)
      \/ \E cl \in Clients : Store(cl)
  BY DEF Next, vars, Delete, Restore, Purge, EmptyTrash, Update, Patch, Begin,
         Drop, SeederLooks, SeederStops
<1>10. QED BY <1>2, <1>3, <1>4, <1>5, <1>6, <1>7, <1>8, <1>9, <1>11

----------------------------------------------------------------------------
(***************************************************************************)
(* Rules.  Beside the rows, the updates under way: what they would store   *)
(* breaks no rule that was not broken around the rules before.             *)
(***************************************************************************)
RequestsAreRuled ==
    \A cl \in DOMAIN request :
        LET x == request[cl].cell
            after == request[cl].after
        IN  \A c \in Columns(x[1]) :
                Broken(x[1], c, after[c]) # {} => <<x, c, after[c]>> \in unruled

\* A written row may break a rule only by what is known to be unruled.
Excused(x, row, known) ==
    \A c \in Columns(x[1]) :
        Broken(x[1], c, row[c]) # {} => <<x, c, row[c]>> \in known

LEMMA WriteKeepsRules ==
    ASSUME RuleBreaksAreInherited, NEW x, NEW row, ChecksTake(x[1], row),
           rows' = With(x, row), checked' = checked,
           unruled \subseteq unruled', Excused(x, row, unruled')
    PROVE  RuleBreaksAreInherited'
<1>1. /\ DOMAIN rows' = DOMAIN rows \cup {x}
      /\ \A y \in DOMAIN rows' : rows'[y] = IF y = x THEN row ELSE rows[y]
  BY DEF With
<1>2. ASSUME NEW y \in DOMAIN rows', NEW c \in Columns(y[1]),
             Broken(y[1], c, rows'[y][c]) # {}
      PROVE  /\ <<y, c, rows'[y][c]>> \in unruled'
             /\ Broken(y[1], c, rows'[y][c]) \cap checked' = {}
  BY <1>1, <1>2 DEF ChecksTake, Excused, RuleBreaksAreInherited
<1>3. QED BY <1>2 DEF RuleBreaksAreInherited

\* What is noted as coming in around the rules excuses the row.
LEMMA AroundExcuses ==
    ASSUME NEW x, NEW row
    PROVE  \A c \in Columns(x[1]) :
              Broken(x[1], c, row[c]) # {}
                 => <<x, c, row[c]>> \in Around(x, row, Columns(x[1]))
BY DEF Around

LEMMA InitRules == Init => RuleBreaksAreInherited /\ RequestsAreRuled
<1> SUFFICES ASSUME Init PROVE RuleBreaksAreInherited /\ RequestsAreRuled
  OBVIOUS
<1>1. ASSUME NEW x \in DOMAIN rows, NEW c \in Columns(x[1]),
             Broken(x[1], c, rows[x][c]) # {}
      PROVE  /\ <<x, c, rows[x][c]>> \in unruled
             /\ Broken(x[1], c, rows[x][c]) \cap checked = {}
  <2>1. <<x, c, rows[x][c]>> \in Around(x, rows[x], Columns(x[1]))
    BY <1>1, AroundExcuses
  <2>2. <<x, c, rows[x][c]>> \in unruled
    BY <2>1 DEF Init
  <2>3. \A u \in unruled : Broken(u[1][1], u[2], u[3]) \cap checked = {}
    BY DEF Init
  <2>4. QED BY <2>2, <2>3
<1>2. DOMAIN request = {}
  BY DEF Init
<1>3. QED BY <1>1, <1>2 DEF RuleBreaksAreInherited, RequestsAreRuled

\* An update that the guard lets through stores nothing new that breaks a rule.
LEMMA BeginRules ==
    ASSUME TypeOK, RuleBreaksAreInherited, RequestsAreRuled,
           NEW cl, NEW x \in DOMAIN rows, NEW after, Begin(cl, x, after)
    PROVE  RequestsAreRuled'
<1>1. Excused(x, after, unruled)
  <2>1. ASSUME NEW c \in Columns(x[1]), Broken(x[1], c, after[c]) # {}
        PROVE  after[c] = rows[x][c]
    BY <2>1 DEF Begin, RefusesUpdate
  <2>2. QED BY <2>1 DEF Excused, RuleBreaksAreInherited
<1>2. /\ DOMAIN request' = DOMAIN request \cup {cl}
      /\ request'[cl].cell = x /\ request'[cl].after = after
      /\ \A k \in DOMAIN request \ {cl} : request'[k] = request[k]
      /\ unruled' = unruled
  BY DEF Begin
<1>3. QED BY <1>1, <1>2 DEF RequestsAreRuled, Excused

LEMMA StepRequests ==
    TypeOK /\ RuleBreaksAreInherited /\ RequestsAreRuled /\ [Next]_vars
        => RequestsAreRuled'
<1> SUFFICES ASSUME TypeOK, RuleBreaksAreInherited, RequestsAreRuled, [Next]_vars
             PROVE  RequestsAreRuled'
  OBVIOUS
<1>1. ASSUME request' = request, unruled \subseteq unruled'
      PROVE  RequestsAreRuled'
  BY <1>1 DEF RequestsAreRuled
<1>2. ASSUME NEW cl \in Clients, NEW x \in Cells, Update(cl, x)
      PROVE  RequestsAreRuled'
  BY <1>2, BeginRules DEF Update, Live
<1>3. ASSUME NEW cl \in Clients, NEW x \in Cells, Patch(cl, x)
      PROVE  RequestsAreRuled'
  BY <1>3, BeginRules DEF Patch, Live
<1>4. ASSUME NEW cl, Finish(cl), unruled' = unruled PROVE RequestsAreRuled'
  <2>1. /\ DOMAIN request' = DOMAIN request \ {cl}
        /\ \A k \in DOMAIN request' : request'[k] = request[k]
    BY <1>4 DEF Finish
  <2>2. QED BY <1>4, <2>1 DEF RequestsAreRuled
<1>5. \/ request' = request /\ unruled \subseteq unruled'
      \/ \E cl \in Clients, x \in Cells : Update(cl, x) \/ Patch(cl, x)
      \/ \E cl : Finish(cl) /\ unruled' = unruled
  BY DEF Next, vars, Create, Delete, Restore, Purge, EmptyTrash, Remove,
         CreatePayment, InsertTogether, SchedulerInsert, VerbWrite, Store, Drop,
         SeederLooks, SeederInserts, InsertSeeds, SeederStops
<1>6. QED BY <1>1, <1>2, <1>3, <1>4, <1>5

LEMMA StepRules ==
    TypeOK /\ RuleBreaksAreInherited /\ RequestsAreRuled /\ [Next]_vars
        => RuleBreaksAreInherited'
<1> SUFFICES ASSUME TypeOK, RuleBreaksAreInherited, RequestsAreRuled, [Next]_vars
             PROVE  RuleBreaksAreInherited'
  OBVIOUS
<1>1. ASSUME UNCHANGED <<rows, checked, unruled>> PROVE RuleBreaksAreInherited'
  BY <1>1 DEF RuleBreaksAreInherited
<1>2. ASSUME NEW x \in Cells, Create(x) PROVE RuleBreaksAreInherited'
  <2>1. PICK row : /\ ~RefusesCreate(x[1], row)
                   /\ ChecksTake(x[1], row)
                   /\ rows' = With(x, row)
    BY <1>2 DEF Create, Takes
  <2>2. Excused(x, row, unruled')
    BY <2>1 DEF RefusesCreate, Excused
  <2>3. QED BY <1>2, <2>1, <2>2, WriteKeepsRules DEF Create
<1>3. ASSUME NEW x \in Cells, SchedulerInsert(x) PROVE RuleBreaksAreInherited'
  <2>1. PICK row : /\ ChecksTake(x[1], row)
                   /\ rows' = With(x, row)
                   /\ unruled' = unruled \cup Around(x, row, Columns(x[1]))
    BY <1>3 DEF SchedulerInsert, Takes
  <2>2. Excused(x, row, unruled')
    BY <2>1, AroundExcuses DEF Excused
  <2>3. QED BY <1>3, <2>1, <2>2, WriteKeepsRules DEF SchedulerInsert
<1>4. ASSUME NEW x \in Cells, VerbWrite(x) PROVE RuleBreaksAreInherited'
  <2>1. PICK row :
           /\ \A c \in Columns(x[1]) \ VerbColumns[x[1]] : row[c] = rows[x][c]
           /\ ChecksTake(x[1], row)
           /\ rows' = With(x, row)
           /\ unruled' = unruled \cup
                Around(x, row, Columns(x[1]) \cap VerbColumns[x[1]])
    BY <1>4 DEF VerbWrite
  <2>2. ASSUME NEW c \in Columns(x[1]), Broken(x[1], c, row[c]) # {}
        PROVE  <<x, c, row[c]>> \in unruled'
    <3>1. CASE c \in VerbColumns[x[1]]
      BY <2>1, <2>2, <3>1 DEF Around
    <3>2. CASE c \notin VerbColumns[x[1]]
      BY <1>4, <2>1, <2>2, <3>2 DEF VerbWrite, RuleBreaksAreInherited
    <3>3. QED BY <3>1, <3>2
  <2>3. Excused(x, row, unruled')
    BY <2>2 DEF Excused
  <2>4. QED BY <1>4, <2>1, <2>3, WriteKeepsRules DEF VerbWrite
<1>5. ASSUME NEW x \in Cells, CreatePayment(x) PROVE RuleBreaksAreInherited'
  <2>1. PICK entry, lines : InsertTogether(x, entry, lines)
    BY <1>5 DEF CreatePayment
  <2>2. ASSUME NEW y \in DOMAIN rows', NEW c \in Columns(y[1]),
               Broken(y[1], c, rows'[y][c]) # {}
        PROVE  /\ <<y, c, rows'[y][c]>> \in unruled'
               /\ Broken(y[1], c, rows'[y][c]) \cap checked' = {}
    <3>0. checked' = checked
      BY <1>5 DEF CreatePayment
    <3>1. CASE y = x
      <4>1. rows'[y] = entry /\ ChecksTake(x[1], entry)
            /\ Around(x, entry, Columns(x[1])) \subseteq unruled'
        BY <2>1, <3>1 DEF InsertTogether, Takes
      <4>2. QED BY <2>2, <3>0, <3>1, <4>1, AroundExcuses DEF ChecksTake
    <3>2. CASE y # x /\ y \in DOMAIN lines
      <4>1. rows'[y] = lines[y] /\ ChecksTake(y[1], lines[y])
            /\ Around(y, lines[y], Columns(y[1])) \subseteq unruled'
        BY <2>1, <3>2 DEF InsertTogether, LineTakes
      <4>2. QED BY <2>2, <3>0, <4>1, AroundExcuses DEF ChecksTake
    <3>3. CASE y # x /\ y \notin DOMAIN lines
      <4>1. y \in DOMAIN rows /\ rows'[y] = rows[y] /\ unruled \subseteq unruled'
        BY <2>1, <3>3 DEF InsertTogether
      <4>2. QED BY <2>2, <3>0, <4>1 DEF RuleBreaksAreInherited
    <3>4. QED BY <3>1, <3>2, <3>3
  <2>3. QED BY <2>2 DEF RuleBreaksAreInherited
<1>6. ASSUME NEW gone, Remove(gone) PROVE RuleBreaksAreInherited'
  BY <1>6 DEF Remove, Without, RuleBreaksAreInherited
<1>7. ASSUME NEW cl \in Clients, Store(cl) PROVE RuleBreaksAreInherited'
  <2> DEFINE x == request[cl].cell
             after == request[cl].after
  <2>1. PICK columns : /\ ChecksTake(x[1], Merge(x, after, columns))
                       /\ rows' = With(x, Merge(x, after, columns))
    BY <1>7, StoreWrites
  <2>2. cl \in DOMAIN request /\ x \in DOMAIN rows
    BY <1>7, StoreWrites
  <2>3. UNCHANGED <<checked, unruled>>
    BY <1>7 DEF Store
  <2>4. ASSUME NEW c \in Columns(x[1]),
               Broken(x[1], c, Merge(x, after, columns)[c]) # {}
        PROVE  <<x, c, Merge(x, after, columns)[c]>> \in unruled
    <3>1. Merge(x, after, columns)[c] = IF c \in columns THEN after[c] ELSE rows[x][c]
      BY DEF Merge
    <3>2. Broken(x[1], c, after[c]) # {} => <<x, c, after[c]>> \in unruled
      BY <2>2 DEF RequestsAreRuled
    <3>3. Broken(x[1], c, rows[x][c]) # {} => <<x, c, rows[x][c]>> \in unruled
      BY <2>2 DEF RuleBreaksAreInherited
    <3>4. QED BY <2>4, <3>1, <3>2, <3>3
  <2> HIDE DEF x, after
  <2>5. Excused(x, Merge(x, after, columns), unruled')
    BY <2>3, <2>4 DEF Excused
  <2>6. QED BY <2>1, <2>3, <2>5, WriteKeepsRules
<1>8. ASSUME SeederInserts PROVE RuleBreaksAreInherited'
  <2>1. PICK new : InsertSeeds(new)
    BY <1>8, SeedsAreRows
  <2>2. ASSUME NEW y \in DOMAIN rows', NEW c \in Columns(y[1]),
               Broken(y[1], c, rows'[y][c]) # {}
        PROVE  /\ <<y, c, rows'[y][c]>> \in unruled'
               /\ Broken(y[1], c, rows'[y][c]) \cap checked' = {}
    <3>1. checked' = checked
      BY <1>8 DEF SeederInserts
    <3>2. CASE y \in new
      <4>1. rows'[y] = SeedRows[y] /\ ChecksTake(y[1], SeedRows[y])
            /\ Around(y, SeedRows[y], Columns(y[1])) \subseteq unruled'
        BY <2>1, <3>2 DEF InsertSeeds, Takes
      <4>2. QED BY <2>2, <3>1, <4>1, AroundExcuses DEF ChecksTake
    <3>3. CASE y \notin new
      <4>1. y \in DOMAIN rows /\ rows'[y] = rows[y] /\ unruled \subseteq unruled'
        BY <2>1, <3>3 DEF InsertSeeds
      <4>2. QED BY <2>2, <3>1, <4>1 DEF RuleBreaksAreInherited
    <3>4. QED BY <3>2, <3>3
  <2>3. QED BY <2>2 DEF RuleBreaksAreInherited
<1>9. \/ UNCHANGED <<rows, checked, unruled>> \/ SeederInserts
      \/ \E x \in Cells : Create(x) \/ SchedulerInsert(x) \/ VerbWrite(x)
                          \/ CreatePayment(x)
      \/ \E gone : Remove(gone)
      \/ \E cl \in Clients : Store(cl)
  BY DEF Next, vars, Delete, Restore, Purge, EmptyTrash, Update, Patch, Begin,
         Drop, SeederLooks, SeederStops
<1>10. QED BY <1>1, <1>2, <1>3, <1>4, <1>5, <1>6, <1>7, <1>8, <1>9

----------------------------------------------------------------------------
(***************************************************************************)
(* Keys.                                                                   *)
(***************************************************************************)
LEMMA SameKeySymmetric ==
    ASSUME NEW t, NEW a, NEW b, SameKey(t, a, b) PROVE SameKey(t, b, a)
BY DEF SameKey

\* A statement that writes or revives one row past the index, and makes no
\* other row live, keeps the keys apart.
LEMMA IndexedWriteKeepsKeys ==
    ASSUME LiveKeysAreUnique, NEW x, NEW row, IndexTakes(x, row),
           rows' = With(x, row), Live' \subseteq Live \cup {x}
    PROVE  LiveKeysAreUnique'
<1>1. \A y \in DOMAIN rows' : rows'[y] = IF y = x THEN row ELSE rows[y]
  BY DEF With
<1>2. Live' \subseteq DOMAIN rows'
  BY DEF Live
<1>3. ASSUME NEW y \in Live', NEW z \in Live', y # z, y[1] = z[1],
             SameKey(y[1], rows'[y], rows'[z])
      PROVE  FALSE
  <2>1. CASE y = x
    BY <1>1, <1>2, <1>3, <2>1 DEF IndexTakes
  <2>2. CASE z = x
    <3>1. SameKey(x[1], row, rows[y])
      BY <1>1, <1>2, <1>3, <2>2, SameKeySymmetric
    <3>2. QED BY <1>3, <2>2, <3>1 DEF IndexTakes
  <2>3. CASE y # x /\ z # x
    BY <1>1, <1>2, <1>3, <2>3 DEF LiveKeysAreUnique
  <2>4. QED BY <2>1, <2>2, <2>3
<1>4. QED BY <1>3 DEF LiveKeysAreUnique

\* So does one that leaves the keys of the live rows alone.
LEMMA KeylessWriteKeepsKeys ==
    ASSUME LiveKeysAreUnique, Live' \subseteq Live,
           \A y \in Live' : \A c \in UniqueKey[y[1]] \cap Columns(y[1]) :
               rows'[y][c] = rows[y][c]
    PROVE  LiveKeysAreUnique'
<1>1. ASSUME NEW y \in Live', NEW z \in Live', y # z, y[1] = z[1],
             SameKey(y[1], rows'[y], rows'[z])
      PROVE  SameKey(y[1], rows[y], rows[z])
  BY <1>1 DEF SameKey
<1>2. QED BY <1>1 DEF LiveKeysAreUnique

LEMMA StepKeys ==
    TypeOK /\ LiveKeysAreUnique /\ [Next]_vars => LiveKeysAreUnique'
<1> SUFFICES ASSUME TypeOK, LiveKeysAreUnique, [Next]_vars
             PROVE  LiveKeysAreUnique'
  OBVIOUS
<1>1. ASSUME rows' = rows, trashed \subseteq trashed' PROVE LiveKeysAreUnique'
  BY <1>1 DEF LiveKeysAreUnique, Live
<1>2. ASSUME NEW x \in Cells, Create(x) PROVE LiveKeysAreUnique'
  <2>1. PICK row : IndexTakes(x, row) /\ rows' = With(x, row)
    BY <1>2 DEF Create, Takes
  <2>2. Live' \subseteq Live \cup {x}
    BY <1>2, <2>1 DEF Create, With, Live
  <2>3. QED BY <2>1, <2>2, IndexedWriteKeepsKeys
<1>3. ASSUME NEW x \in Cells, SchedulerInsert(x) PROVE LiveKeysAreUnique'
  <2>1. PICK row : IndexTakes(x, row) /\ rows' = With(x, row)
    BY <1>3 DEF SchedulerInsert, Takes
  <2>2. Live' \subseteq Live \cup {x}
    BY <1>3, <2>1 DEF SchedulerInsert, With, Live
  <2>3. QED BY <2>1, <2>2, IndexedWriteKeepsKeys
<1>4. ASSUME NEW x \in Cells, VerbWrite(x) PROVE LiveKeysAreUnique'
  <2>1. PICK row :
           /\ \A c \in Columns(x[1]) \ VerbColumns[x[1]] : row[c] = rows[x][c]
           /\ rows' = With(x, row)
    BY <1>4 DEF VerbWrite
  <2>2. Live' = Live
    BY <1>4, <2>1 DEF VerbWrite, With, Live
  <2>3. UniqueKey[x[1]] \cap VerbColumns[x[1]] = {}
    BY CellTables, VerbsLeaveKeys
  <2>4. \A y \in Live' : \A c \in UniqueKey[y[1]] \cap Columns(y[1]) :
            rows'[y][c] = rows[y][c]
    BY <2>1, <2>2, <2>3 DEF With, Live
  <2>5. QED BY <2>2, <2>4, KeylessWriteKeepsKeys
<1>5. ASSUME NEW x \in Cells, CreatePayment(x) PROVE LiveKeysAreUnique'
  <2> PICK new \in SUBSET {y \in Mine \ born : y[1] = "payment_allocations"} :
          \E entry \in RowsOf[x[1]],
             lines \in [new -> RowsOf["payment_allocations"]] :
                InsertTogether(x, entry, lines)
    BY <1>5 DEF CreatePayment
  <2>1. PICK entry \in RowsOf[x[1]],
             lines \in [new -> RowsOf["payment_allocations"]] :
                InsertTogether(x, entry, lines)
    OBVIOUS
  <2>2. /\ DOMAIN rows' = DOMAIN rows \cup {x} \cup new
        /\ rows'[x] = entry /\ IndexTakes(x, entry)
        /\ \A y \in DOMAIN rows \ ({x} \cup new) : rows'[y] = rows[y]
    BY <2>1 DEF InsertTogether, Takes
  <2>3. /\ \A y \in new : y[1] = "payment_allocations"
        /\ \A a, b : ~SameKey("payment_allocations", a, b)
    BY DEF SameKey, UniqueKey
  <2>4. Live' \subseteq Live \cup {x} \cup new /\ Live' \subseteq DOMAIN rows'
    BY <1>5, <2>2 DEF CreatePayment, Live
  <2>5. ASSUME NEW y \in Live', NEW z \in Live', y # z, y[1] = z[1],
               SameKey(y[1], rows'[y], rows'[z])
        PROVE  FALSE
    <3>1. y \notin new /\ z \notin new
      BY <2>3, <2>5
    <3>2. CASE y = x
      BY <2>2, <2>4, <2>5, <3>1, <3>2 DEF IndexTakes, Live
    <3>3. CASE z = x
      <4>1. SameKey(z[1], rows'[z], rows'[y])
        BY <2>5, SameKeySymmetric
      <4>2. QED BY <2>2, <2>4, <2>5, <3>1, <3>3, <4>1 DEF IndexTakes, Live
    <3>4. CASE y # x /\ z # x
      BY <2>2, <2>4, <2>5, <3>1, <3>4 DEF LiveKeysAreUnique, Live
    <3>5. QED BY <3>2, <3>3, <3>4
  <2>6. QED BY <2>5 DEF LiveKeysAreUnique
<1>6. ASSUME NEW gone, Remove(gone) PROVE LiveKeysAreUnique'
  <2>1. Live' \subseteq Live /\ \A y \in Live' : rows'[y] = rows[y]
    BY <1>6 DEF Remove, Without, Live
  <2>2. QED BY <2>1, KeylessWriteKeepsKeys
<1>7. ASSUME NEW cl \in Clients, Store(cl) PROVE LiveKeysAreUnique'
  <2> DEFINE x == request[cl].cell
  <2>1. PICK row : /\ rows' = With(x, row)
                   /\ \/ x \in trashed /\ trashed' = trashed
                      \/ IndexTakes(x, row) /\ trashed' = trashed \ {x}
    BY <1>7, StoreWrites
  <2>2. x \in DOMAIN rows
    BY <1>7, StoreWrites
  <2> HIDE DEF x
  <2>3. DOMAIN rows' = DOMAIN rows
        /\ \A y \in DOMAIN rows \ {x} : rows'[y] = rows[y]
    BY <2>1, <2>2 DEF With
  <2>4. CASE x \in trashed /\ trashed' = trashed
    <3>1. Live' = Live /\ \A y \in Live' : rows'[y] = rows[y]
      BY <2>3, <2>4 DEF Live
    <3>2. QED BY <3>1, KeylessWriteKeepsKeys
  <2>5. CASE IndexTakes(x, row) /\ trashed' = trashed \ {x}
    <3>1. Live' \subseteq Live \cup {x}
      BY <2>3, <2>5 DEF Live
    <3>2. QED BY <2>1, <2>5, <3>1, IndexedWriteKeepsKeys
  <2>6. QED BY <2>1, <2>4, <2>5
<1>8. ASSUME NEW x \in Cells, Restore(x) PROVE LiveKeysAreUnique'
  <2>1. x \in DOMAIN rows /\ IndexTakes(x, rows[x])
    BY <1>8 DEF Restore, TypeOK
  <2>2. /\ \A y \in DOMAIN rows' : rows'[y] = With(x, rows[x])[y]
        /\ Live' \subseteq Live \cup {x} /\ rows' = rows
    BY <1>8, <2>1 DEF Restore, With, Live
  <2>3. ASSUME NEW y \in Live', NEW z \in Live', y # z, y[1] = z[1],
               SameKey(y[1], rows[y], rows[z])
        PROVE  FALSE
    <3>1. CASE y = x
      BY <2>1, <2>2, <2>3, <3>1 DEF IndexTakes
    <3>2. CASE z = x
      <4>1. SameKey(x[1], rows[x], rows[y])
        BY <2>3, <3>2, SameKeySymmetric
      <4>2. QED BY <2>1, <2>2, <2>3, <3>2, <4>1 DEF IndexTakes
    <3>3. CASE y # x /\ z # x
      BY <2>2, <2>3, <3>3 DEF LiveKeysAreUnique
    <3>4. QED BY <3>1, <3>2, <3>3
  <2>4. QED BY <2>2, <2>3 DEF LiveKeysAreUnique
<1>11. ASSUME SeederInserts PROVE LiveKeysAreUnique'
  <2>1. PICK new \in SUBSET (DOMAIN SeedRows \ DOMAIN rows) : InsertSeeds(new)
    BY <1>11, SeedsAreRows
  <2>2. \A x \in new : /\ rows'[x] = SeedRows[x]
                       /\ IndexTakes(x, rows'[x])
                       /\ \A y \in new \ {x} : ~SameKey(x[1], rows'[x], rows'[y])
    BY <2>1 DEF InsertSeeds, Takes
  <2>3. Live' \ new \subseteq Live /\ \A y \in Live' \ new : rows'[y] = rows[y]
    BY <1>11, <2>1 DEF SeederInserts, InsertSeeds, Live
  <2>4. ASSUME NEW y \in Live', NEW z \in Live', y # z, y[1] = z[1],
               SameKey(y[1], rows'[y], rows'[z])
        PROVE  FALSE
    <3>1. SameKey(z[1], rows'[z], rows'[y])
      BY <2>4, SameKeySymmetric
    <3>2. CASE y \in new /\ z \in new
      BY <2>2, <2>4, <3>2
    <3>3. CASE y \in new /\ z \notin new
      BY <2>2, <2>3, <2>4, <3>3 DEF IndexTakes
    <3>4. CASE y \notin new /\ z \in new
      BY <2>2, <2>3, <2>4, <3>1, <3>4 DEF IndexTakes
    <3>5. CASE y \notin new /\ z \notin new
      BY <2>3, <2>4, <3>5 DEF LiveKeysAreUnique
    <3>6. QED BY <3>2, <3>3, <3>4, <3>5
  <2>5. QED BY <2>4 DEF LiveKeysAreUnique
<1>9. \/ rows' = rows /\ trashed \subseteq trashed'
      \/ SeederInserts
      \/ \E x \in Cells : Create(x) \/ SchedulerInsert(x) \/ VerbWrite(x)
                          \/ CreatePayment(x) \/ Restore(x)
      \/ \E gone : Remove(gone)
      \/ \E cl \in Clients : Store(cl)
  BY DEF Next, vars, Delete, Purge, EmptyTrash, Update, Patch, Begin, Drop,
         SeederLooks, SeederStops
<1>10. QED BY <1>1, <1>2, <1>3, <1>4, <1>5, <1>6, <1>7, <1>8, <1>9, <1>11

----------------------------------------------------------------------------
(***************************************************************************)
(* Mounts.                                                                 *)
(***************************************************************************)

\* Only the full mount lets an update begin.
UpdatesNeedAll == surface.mount # "all" => DOMAIN request = {}

LEMMA GenericWritesNeedAll ==
    ASSUME TypeOK, surface.mount # "all", NEW op \in WriteOps, NEW t
    PROVE  ~Serves(op, t)
<1>1. surface.mount \in DOMAIN Mounts
  BY DEF TypeOK
<1>2. QED BY <1>1, WritesNeedAll DEF Serves

LEMMA NoGenericWrite ==
    ASSUME TypeOK, surface.mount # "all", UpdatesNeedAll, [Next]_vars
    PROVE  \/ \E x \in Cells : CreatePayment(x) \/ SchedulerInsert(x)
                               \/ VerbWrite(x)
           \/ SeederLooks \/ SeederInserts \/ SeederStops
           \/ UNCHANGED vars
<1>1. \A op \in WriteOps : \A t : ~Serves(op, t)
  BY GenericWritesNeedAll
<1>2. /\ CreateOps \subseteq WriteOps /\ UpdateOps \subseteq WriteOps
      /\ {"patch", "delete", "restore", "empty", "purge"} \subseteq WriteOps
  BY DEF WriteOps
<1>3. \A x \in Cells : /\ ~Create(x) /\ ~Delete(x) /\ ~Restore(x) /\ ~Purge(x)
                       /\ \A cl \in Clients : ~Update(cl, x) /\ ~Patch(cl, x)
  BY <1>1, <1>2 DEF Create, Delete, Restore, Purge, Update, Patch
<1>4. \A t : ~EmptyTrash(t)
  BY <1>1, <1>2 DEF EmptyTrash
<1>5. \A cl \in Clients : ~Store(cl) /\ ~Drop(cl)
  BY DEF Store, Drop, UpdatesNeedAll
<1>6. QED BY <1>3, <1>4, <1>5 DEF Next

LEMMA StepMounts ==
    TypeOK /\ UpdatesNeedAll /\ [Next]_vars => UpdatesNeedAll'
<1> SUFFICES ASSUME TypeOK, UpdatesNeedAll, [Next]_vars,
                    surface'.mount # "all"
             PROVE  DOMAIN request' = {}
  BY DEF UpdatesNeedAll
<1>1. surface' = surface
  BY DEF Next, vars, Create, Delete, Restore, Purge, EmptyTrash, Remove,
         CreatePayment, SchedulerInsert, VerbWrite, Update, Patch, Begin,
         Store, Drop, SeederLooks, SeederInserts, SeederStops
<1>2. request' = request
  BY <1>1, NoGenericWrite DEF CreatePayment, SchedulerInsert, VerbWrite, vars,
     SeederLooks, SeederInserts, SeederStops
<1>3. QED BY <1>1, <1>2 DEF UpdatesNeedAll

----------------------------------------------------------------------------
(***************************************************************************)
(* The theorems.                                                           *)
(***************************************************************************)
Inv == /\ TypeOK
       /\ RuleBreaksAreInherited /\ RequestsAreRuled
       /\ LiveKeysAreUnique
       /\ ChildrenHaveParents
       /\ UpdatesNeedAll

LEMMA InitInv == Init => Inv
<1> SUFFICES ASSUME Init PROVE Inv
  OBVIOUS
<1>1. LiveKeysAreUnique
  BY DEF Init, LiveKeysAreUnique, IndexTakes, Live
<1>2. ChildrenHaveParents
  BY DEF Init, ChildrenHaveParents, KeysTake
<1>3. UpdatesNeedAll
  BY DEF Init, UpdatesNeedAll
<1>4. QED BY <1>1, <1>2, <1>3, InitType, InitRules DEF Inv

\* The inductive invariant holds: besides the four properties, what an update
\* under way may store, and that there is none unless the full mount is there.
THEOREM InvHolds == Spec => []Inv
<1>1. Inv /\ [Next]_vars => Inv'
  BY StepType, StepRules, StepRequests, StepKeys, StepParents, StepMounts
     DEF Inv
<1>2. QED BY InitInv, <1>1, PTL DEF Spec

\* Every variable keeps its type under any bodies and patches.
THEOREM TypeCorrect == Spec => []TypeOK
<1>1. Inv => TypeOK
  BY DEF Inv
<1>2. QED BY <1>1, InvHolds, PTL

\* A stored value that breaks a declared rule came in around the rules.
THEOREM RulesHold == Spec => []RuleBreaksAreInherited
<1>1. Inv => RuleBreaksAreInherited
  BY DEF Inv
<1>2. QED BY <1>1, InvHolds, PTL

\* No two live rows share a key.
THEOREM NumbersAreUnique == Spec => []LiveKeysAreUnique
<1>1. Inv => LiveKeysAreUnique
  BY DEF Inv
<1>2. QED BY <1>1, InvHolds, PTL

\* No stored row refers to one that is gone.
THEOREM NobodyIsOrphaned == Spec => []ChildrenHaveParents
<1>1. Inv => ChildrenHaveParents
  BY DEF Inv
<1>2. QED BY <1>1, InvHolds, PTL

\* A row that was purged stays purged, but for a seeder's own rows.
THEOREM PurgedForGood == Spec => PurgedStaysPurged
<1> DEFINE Back == \A x \in (born \ DOMAIN rows) \cap DOMAIN rows' :
                      seeding /\ x \in DOMAIN SeedRows /\ rows'[x] = SeedRows[x]
<1>1. TypeOK /\ [Next]_vars => [Back]_vars
  <2> SUFFICES ASSUME TypeOK, Next, NEW x \in born \ DOMAIN rows
               PROVE  x \in DOMAIN rows' =>
                        seeding /\ x \in DOMAIN SeedRows /\ rows'[x] = SeedRows[x]
    OBVIOUS
  <2>1. ASSUME NEW y, NEW row, rows' = With(y, row), y # x
        PROVE  x \notin DOMAIN rows'
    BY <2>1 DEF With
  <2>2. ASSUME NEW y \in Cells, Create(y) \/ SchedulerInsert(y) \/ VerbWrite(y)
        PROVE  x \notin DOMAIN rows'
    BY <2>1, <2>2 DEF Create, SchedulerInsert, VerbWrite
  <2>3. ASSUME NEW y \in Cells, CreatePayment(y) PROVE x \notin DOMAIN rows'
    <3>1. PICK new \in SUBSET {z \in Mine \ born : z[1] = "payment_allocations"} :
             \E entry \in RowsOf[y[1]],
                lines \in [new -> RowsOf["payment_allocations"]] :
                   InsertTogether(y, entry, lines)
      BY <2>3 DEF CreatePayment
    <3>2. DOMAIN rows' = DOMAIN rows \cup {y} \cup new
      BY <3>1 DEF InsertTogether
    <3>3. QED BY <2>3, <3>2 DEF CreatePayment
  <2>4. ASSUME NEW gone, Remove(gone) PROVE x \notin DOMAIN rows'
    BY <2>4 DEF Remove, Without
  <2>5. ASSUME NEW cl \in Clients, Store(cl) PROVE x \notin DOMAIN rows'
    BY <2>1, <2>5, StoreWrites
  <2>6. CASE UNCHANGED rows
    BY <2>6
  <2>7. ASSUME SeederInserts, x \in DOMAIN rows'
        PROVE  seeding /\ x \in DOMAIN SeedRows /\ rows'[x] = SeedRows[x]
    BY <2>7 DEF SeederInserts, InsertSeeds
  <2>8. QED BY <2>2, <2>3, <2>4, <2>5, <2>6, <2>7
           DEF Next, Delete, Restore, Purge, EmptyTrash, Update, Patch, Begin,
               Drop, SeederLooks, SeederStops
<1>2. QED BY <1>1, TypeCorrect, PTL DEF Spec, PurgedStaysPurged

\* Without the full mount no row is trashed, purged, or changed but in the
\* verbs' columns.
THEOREM GuardedMountsKeepRows == Spec => GuardedRowsStand
<1> DEFINE Stands ==
      surface.mount # "all" =>
         \A x \in DOMAIN rows :
            /\ x \in DOMAIN rows'
            /\ x \in trashed' <=> x \in trashed
            /\ \A c \in Columns(x[1]) \ VerbColumns[x[1]] :
                 rows'[x][c] = rows[x][c]
<1>1. Inv /\ [Next]_vars => [Stands]_vars
  <2> SUFFICES ASSUME Inv, [Next]_vars, surface.mount # "all",
                      NEW x \in DOMAIN rows
               PROVE  /\ x \in DOMAIN rows'
                      /\ x \in trashed' <=> x \in trashed
                      /\ \A c \in Columns(x[1]) \ VerbColumns[x[1]] :
                           rows'[x][c] = rows[x][c]
    OBVIOUS
  <2>1. x \in born
    BY DEF Inv, TypeOK
  <2>2. ASSUME NEW y \in Cells, CreatePayment(y)
        PROVE  trashed' = trashed /\ x \in DOMAIN rows' /\ rows'[x] = rows[x]
    <3>1. PICK new \in SUBSET {z \in Mine \ born : z[1] = "payment_allocations"} :
             \E entry \in RowsOf[y[1]],
                lines \in [new -> RowsOf["payment_allocations"]] :
                   InsertTogether(y, entry, lines)
      BY <2>2 DEF CreatePayment
    <3>2. QED BY <2>1, <2>2, <3>1 DEF CreatePayment, InsertTogether
  <2>3. ASSUME NEW y \in Cells, SchedulerInsert(y)
        PROVE  trashed' = trashed /\ x \in DOMAIN rows' /\ rows'[x] = rows[x]
    BY <2>1, <2>3 DEF SchedulerInsert, With
  <2>4. ASSUME NEW y \in Cells, VerbWrite(y)
        PROVE  /\ trashed' = trashed /\ x \in DOMAIN rows'
               /\ \A c \in Columns(x[1]) \ VerbColumns[x[1]] :
                    rows'[x][c] = rows[x][c]
    BY <2>4 DEF VerbWrite, With
  <2>5. CASE UNCHANGED vars
    BY <2>5 DEF vars
  <2>6. ASSUME SeederInserts
        PROVE  trashed' = trashed /\ x \in DOMAIN rows' /\ rows'[x] = rows[x]
    <3>1. PICK new \in SUBSET (DOMAIN SeedRows \ DOMAIN rows) : InsertSeeds(new)
      BY <2>6, SeedsAreRows
    <3>2. QED BY <2>6, <3>1 DEF SeederInserts, InsertSeeds
  <2>7. CASE SeederLooks \/ SeederStops
    BY <2>7 DEF SeederLooks, SeederStops
  <2>8. QED BY <2>2, <2>3, <2>4, <2>5, <2>6, <2>7, NoGenericWrite DEF Inv
<1>2. QED BY <1>1, InvHolds, PTL DEF Spec, GuardedRowsStand
=============================================================================
