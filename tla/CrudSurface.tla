---------------------------- MODULE CrudSurface ----------------------------
(***************************************************************************)
(* The stored rows under everything that writes them: the generic CRUD     *)
(* operations of the framework, as far as a mount serves them and with the *)
(* row rules attached to each service, the lifecycle and scheduler verbs   *)
(* with SQL of their own, the seeder, and the constraints of the database. *)
(* An update reads the row, computes the new one, checks the rules, and    *)
(* only then stores it: everything else may happen in between.             *)
(***************************************************************************)
EXTENDS Schemas, Routes

CONSTANTS Cells,     \* the rows there can ever be, each <<table, id>>
          Legacy,    \* those that may be older than the declared rules
          Watched,   \* the names of the columns that are modelled
          Families,  \* sets of tables that refer to each other
          Clients,   \* those with an update of their own under way
          SeedRows   \* the rows of the seed file, one for each of its ids

VARIABLES surface,   \* what the composing service mounts, and for which tables
          checked,   \* the rules that became CHECK constraints
          rows,      \* a row for each cell that is stored
          trashed,   \* the cells that are soft-deleted
          born,      \* the cells that were ever stored
          request,   \* what each client with an update under way will store
          seeding,   \* whether a seeder has decided to insert its rows
          unruled    \* the values that came in around the rules

vars == <<surface, checked, rows, trashed, born, request, seeding, unruled>>

----------------------------------------------------------------------------
Schema == [payment_entries     |-> PaymentEntry,
           payment_allocations |-> PaymentAllocation,
           aging_snapshots     |-> AgingSnapshot,
           aging_buckets       |-> AgingBucket,
           dunning_runs        |-> DunningRun,
           dunning_actions     |-> DunningAction,
           mode_of_payments    |-> ModeOfPayment]

Created == [payment_entries     |-> PaymentEntryFromCreate,
            payment_allocations |-> PaymentAllocationFromCreate,
            aging_snapshots     |-> AgingSnapshotFromCreate,
            aging_buckets       |-> AgingBucketFromCreate,
            dunning_runs        |-> DunningRunFromCreate,
            dunning_actions     |-> DunningActionFromCreate,
            mode_of_payments    |-> ModeOfPaymentFromCreate]

Updated == [payment_entries     |-> PaymentEntryApplyUpdate,
            payment_allocations |-> PaymentAllocationApplyUpdate,
            aging_snapshots     |-> AgingSnapshotApplyUpdate,
            aging_buckets       |-> AgingBucketApplyUpdate,
            dunning_runs        |-> DunningRunApplyUpdate,
            dunning_actions     |-> DunningActionApplyUpdate,
            mode_of_payments    |-> ModeOfPaymentApplyUpdate]

Patchable == [payment_entries     |-> PaymentEntryPatch,
              payment_allocations |-> PaymentAllocationPatch,
              aging_snapshots     |-> AgingSnapshotPatch,
              aging_buckets       |-> AgingBucketPatch,
              dunning_runs        |-> DunningRunPatch,
              dunning_actions     |-> DunningActionPatch,
              mode_of_payments    |-> ModeOfPaymentPatch]

RowRules == [payment_entries     |-> PaymentEntryRowRules,
             payment_allocations |-> PaymentAllocationRowRules,
             aging_snapshots     |-> AgingSnapshotRowRules,
             aging_buckets       |-> AgingBucketRowRules,
             dunning_runs        |-> DunningRunRowRules,
             dunning_actions     |-> DunningActionRowRules,
             mode_of_payments    |-> ModeOfPaymentRowRules]

\* The columns of each partial unique index.
UniqueKey == [payment_entries     |-> {"payment_number"},
              payment_allocations |-> {},
              aging_snapshots     |-> {},
              aging_buckets       |-> {},
              dunning_runs        |-> {},
              dunning_actions     |-> {"invoice_ref", "invoice_kind", "level"},
              mode_of_payments    |-> {"code"}]

\* The foreign keys, each <<table, column, table referred to>>.
References == {<<"payment_allocations", "payment_id", "payment_entries">>,
               <<"aging_buckets", "snapshot_id", "aging_snapshots">>,
               <<"dunning_actions", "run_id", "dunning_runs">>}

\* The columns that the verbs' UPDATE statements set.
VerbColumns == [payment_entries     |-> {"status", "posting_state", "journal_id",
                                         "accounting_post_id", "posted_at"},
                payment_allocations |-> {"discount_amount",
                                         "discount_account_id"},
                aging_snapshots     |-> {"status", "total_outstanding",
                                         "bucket_current", "bucket_1_30",
                                         "bucket_31_60", "bucket_61_90",
                                         "bucket_90p"},
                aging_buckets       |-> {},
                dunning_runs        |-> {"actions_emitted"},
                dunning_actions     |-> {},
                mode_of_payments    |-> {}]

\* The tables that the scheduler's verbs insert into.
SchedulerInserts == {"aging_snapshots", "aging_buckets", "dunning_runs",
                     "dunning_actions"}

\* Cells name rows of these tables, and a behaviour is about some of them.
ASSUME CellsAssumption == Cells \subseteq (DOMAIN Schema) \X Uuids

\* What an INSERT of create_payment leaves to its own text or to the table.
InsertDefaults ==
    [payment_entries |->
        [status |-> "draft", posting_state |-> "pending", journal_id |-> "null",
         accounting_post_id |-> "null", posted_at |-> "null",
         notes |-> "null"],
     payment_allocations |->
        [discount_amount |-> "amount", discount_account_id |-> "null"]]

Columns(t) == Watched \cap DOMAIN Schema[t]

RowsOf == [t \in DOMAIN Schema |->
    {row \in [Columns(t) -> UNION {Schema[t][c] : c \in Columns(t)}] :
        \A c \in Columns(t) : row[c] \in Schema[t][c]}]

\* Only the modes have seeds: the other six files hold no statement.
ASSUME SeedsAssumption ==
    \A x \in DOMAIN SeedRows : /\ x \in Cells /\ x[1] = "mode_of_payments"
                               /\ SeedRows[x] \in RowsOf[x[1]]

----------------------------------------------------------------------------
(***************************************************************************)
(* The declared rules.                                                     *)
(***************************************************************************)
Meets(rule, v) == CASE rule = "required"     -> v \notin {"null", "blank"}
                    [] rule = "max_length"   -> v # "long"
                    [] rule = "non_negative" -> v # "negative"

Declared == {d \in (DOMAIN Schema) \X Watched
                     \X {"required", "max_length", "non_negative"} :
               /\ d[2] \in DOMAIN RowRules[d[1]]
               /\ d[3] \in RowRules[d[1]][d[2]]}

Broken(t, c, v) == {d \in Declared : d[1] = t /\ d[2] = c /\ ~Meets(d[3], v)}

\* The guard refuses what a create or an update would store.
RefusesCreate(t, row) == \E c \in Columns(t) : Broken(t, c, row[c]) # {}

\* Fault: the rules are checked on create alone.
RefusesNoUpdate(t, before, after) == FALSE

RefusesUpdate(t, before, after) ==
    \E c \in Columns(t) : after[c] # before[c] /\ Broken(t, c, after[c]) # {}

----------------------------------------------------------------------------
(***************************************************************************)
(* The constraints of the database, as a statement meets them.             *)
(***************************************************************************)
Live == DOMAIN rows \ trashed

ChecksTake(t, row) ==
    \A c \in Columns(t) : Broken(t, c, row[c]) \cap checked = {}

Parents(t, row) ==
    {<<ref[3], row[ref[2]]>> :
        ref \in {r \in References : r[1] = t /\ r[2] \in Columns(t)}}

KeysTake(t, row) == Parents(t, row) \subseteq DOMAIN rows

SameKey(t, row, other) ==
    /\ UniqueKey[t] # {} /\ UniqueKey[t] \subseteq Columns(t)
    /\ \A c \in UniqueKey[t] : row[c] = other[c]

IndexTakes(x, row) ==
    \A y \in Live \ {x} : y[1] = x[1] => ~SameKey(x[1], row, rows[y])

Takes(x, row) ==
    ChecksTake(x[1], row) /\ KeysTake(x[1], row) /\ IndexTakes(x, row)

\* Fault: only live rows are asked, as a check in the service would.
UnreferencedByLive(gone) ==
    \A y \in Live \ gone : Parents(y[1], rows[y]) \cap gone = {}

Unreferenced(gone) ==
    \A y \in DOMAIN rows \ gone : Parents(y[1], rows[y]) \cap gone = {}

With(x, row) == [y \in DOMAIN rows \cup {x} |-> IF y = x THEN row ELSE rows[y]]
Without(gone) == [y \in DOMAIN rows \ gone |-> rows[y]]

Around(x, row, columns) ==
    {<<x, c, row[c]>> : c \in {d \in columns : Broken(x[1], d, row[d]) # {}}}

----------------------------------------------------------------------------
\* The rows of this behaviour's tables.
Mine == {x \in Cells : x[1] \in surface.tables}

\* The migration adds each CHECK that no stored row breaks; the amounts had
\* theirs from the start.
Init ==
    /\ surface \in [mount : DOMAIN Mounts, tables : Families]
    /\ \E old \in SUBSET (Legacy \cap Mine) :
         rows \in {f \in [old -> UNION {RowsOf[x[1]] : x \in old}] :
                     \A x \in old : f[x] \in RowsOf[x[1]]}
    /\ trashed \in SUBSET DOMAIN rows
    /\ unruled = UNION {Around(x, rows[x], Columns(x[1])) : x \in DOMAIN rows}
    /\ checked = Declared \ UNION {Broken(u[1][1], u[2], u[3]) : u \in unruled}
    /\ \A d \in Declared : d[3] = "non_negative" => d \in checked
    /\ \A x \in DOMAIN rows : KeysTake(x[1], rows[x])
    /\ \A x \in Live : IndexTakes(x, rows[x])
    /\ born = DOMAIN rows
    /\ request = <<>>
    /\ seeding = FALSE

Serves(op, t) == <<Path[t], op>> \in Mounts[surface.mount]

(***************************************************************************)
(* Create, each element of a bulk create, and an upsert that finds no row. *)
(***************************************************************************)
Inserted(t, body) == [c \in Columns(t) |->
                        IF c \in Created[t] THEN body[c] ELSE "null"]

Create(x) ==
    /\ \E op \in CreateOps : Serves(op, x[1])
    /\ x \in Mine \ born
    /\ \E body \in RowsOf[x[1]] :
         LET row == Inserted(x[1], body) IN
         /\ ~RefusesCreate(x[1], row)
         /\ Takes(x, row)
         /\ rows' = With(x, row)
    /\ born' = born \cup {x}
    /\ UNCHANGED <<surface, checked, seeding, trashed, request, unruled>>

(***************************************************************************)
(* An update replaces the columns of its body; a patch those it names with *)
(* a value of their kind, "malformed" being the others and those it leaves *)
(* out.  The rules are checked against the row that was read.              *)
(***************************************************************************)
Applied(t, row, body) == [c \in Columns(t) |->
                            IF c \in Updated[t] THEN body[c] ELSE row[c]]

PatchesOf == [t \in DOMAIN Schema |->
    {fields \in [Columns(t) ->
                    {"malformed"} \cup UNION {Schema[t][c] : c \in Columns(t)}] :
        \A c \in Columns(t) : fields[c] \in Schema[t][c] \cup {"malformed"}}]

\* Fault: a value that does not parse is taken for null.
PatchedToNull(t, row, fields) ==
    [c \in Columns(t) |-> IF c \notin Patchable[t] THEN row[c]
                          ELSE IF fields[c] = "malformed" THEN "null"
                          ELSE fields[c]]

Patched(t, row, fields) ==
    [c \in Columns(t) |-> IF c \in Patchable[t] /\ fields[c] # "malformed"
                          THEN fields[c] ELSE row[c]]

Begin(cl, x, after) ==
    /\ ~RefusesUpdate(x[1], rows[x], after)
    /\ request' = [k \in DOMAIN request \cup {cl} |->
                     IF k = cl
                     THEN [cell |-> x, after |-> after,
                           changed |-> {c \in Columns(x[1]) :
                                          after[c] # rows[x][c]}]
                     ELSE request[k]]
    /\ UNCHANGED <<surface, checked, seeding, rows, trashed, born, unruled>>

Update(cl, x) ==
    /\ \E op \in UpdateOps : Serves(op, x[1])
    /\ cl \notin DOMAIN request /\ x \in Live
    /\ \E body \in RowsOf[x[1]] : Begin(cl, x, Applied(x[1], rows[x], body))

Patch(cl, x) ==
    /\ Serves("patch", x[1])
    /\ cl \notin DOMAIN request /\ x \in Live
    /\ \E fields \in PatchesOf[x[1]] :
         Begin(cl, x, Patched(x[1], rows[x], fields))

Finish(cl) ==
    request' = [k \in DOMAIN request \ {cl} |-> request[k]]

\* Which columns the statement sets is the framework's: those that changed,
\* or all; with all of them the metadata too, and then the row read as live
\* is live again.
Merge(x, after, columns) ==
    [c \in Columns(x[1]) |-> IF c \in columns THEN after[c] ELSE rows[x][c]]

\* Fault: a save that inserts what it does not find.
StoreOrInsert(cl) ==
    LET x == request[cl].cell
        after == request[cl].after
    IN
    /\ cl \in DOMAIN request
    /\ Takes(x, after)
    /\ rows' = With(x, after)
    /\ Finish(cl)
    /\ UNCHANGED <<surface, checked, seeding, trashed, born, unruled>>

Store(cl) ==
    /\ cl \in DOMAIN request
    /\ LET x == request[cl].cell IN
       /\ x \in DOMAIN rows
       /\ \E columns \in {request[cl].changed, Columns(x[1])} :
            LET row == Merge(x, request[cl].after, columns) IN
            /\ ChecksTake(x[1], row) /\ KeysTake(x[1], row)
            /\ rows' = With(x, row)
            /\ \/ x \in Live /\ IndexTakes(x, row) /\ UNCHANGED trashed
               \/ x \in trashed /\ UNCHANGED trashed
               \/ /\ x \in trashed /\ columns = Columns(x[1])
                  /\ IndexTakes(x, row)
                  /\ trashed' = trashed \ {x}
    /\ Finish(cl)
    /\ UNCHANGED <<surface, checked, seeding, born, unruled>>

\* The call ends without a write: the row is out of the statement's reach,
\* the database refuses it, or the caller is gone.
Drop(cl) ==
    /\ cl \in DOMAIN request
    /\ Finish(cl)
    /\ UNCHANGED <<surface, checked, seeding, rows, trashed, born, unruled>>

(***************************************************************************)
(* The trash.  Emptying it is one statement: all of it goes, or nothing.   *)
(***************************************************************************)
Delete(x) ==
    /\ Serves("delete", x[1])
    /\ x \in Live
    /\ trashed' = trashed \cup {x}
    /\ UNCHANGED <<surface, checked, seeding, rows, born, request, unruled>>

\* Fault: the row comes back without a look at the live ones.
RestoreBlindly(x) ==
    /\ Serves("restore", x[1])
    /\ x \in trashed
    /\ trashed' = trashed \ {x}
    /\ UNCHANGED <<surface, checked, seeding, rows, born, request, unruled>>

Restore(x) ==
    /\ Serves("restore", x[1])
    /\ x \in trashed
    /\ IndexTakes(x, rows[x])
    /\ trashed' = trashed \ {x}
    /\ UNCHANGED <<surface, checked, seeding, rows, born, request, unruled>>

Remove(gone) ==
    /\ gone # {} /\ gone \subseteq trashed
    /\ Unreferenced(gone)
    /\ rows' = Without(gone)
    /\ trashed' = trashed \ gone
    /\ UNCHANGED <<surface, checked, seeding, born, request, unruled>>

Purge(x) == Serves("purge", x[1]) /\ Remove({x})

EmptyTrash(t) ==
    Serves("empty", t) /\ Remove({x \in trashed : x[1] = t})

(***************************************************************************)
(* The verbs' own SQL: no rules, and no look at the trash.  What they      *)
(* write, and when, is the question of the modules about them.             *)
(***************************************************************************)
IsNew(t, row) ==
    \A c \in Columns(t) \cap DOMAIN InsertDefaults[t] :
        row[c] = InsertDefaults[t][c]

\* An allocation is inserted with its payment and names it.
LineTakes(x, y, line) ==
    /\ IsNew(y[1], line) /\ ChecksTake(y[1], line)
    /\ Parents(y[1], line) \subseteq {x}

\* One transaction inserts an entry and the lines under it.
InsertTogether(x, entry, lines) ==
    /\ IsNew(x[1], entry) /\ Takes(x, entry)
    /\ \A y \in DOMAIN lines : LineTakes(x, y, lines[y])
    /\ rows' = [y \in DOMAIN rows \cup {x} \cup DOMAIN lines |->
                  IF y = x THEN entry
                  ELSE IF y \in DOMAIN lines THEN lines[y] ELSE rows[y]]
    /\ unruled' = unruled \cup Around(x, entry, Columns(x[1]))
         \cup UNION {Around(y, lines[y], Columns(y[1])) : y \in DOMAIN lines}
    /\ born' = born \cup {x} \cup DOMAIN lines

CreatePayment(x) ==
    /\ x \in Mine \ born /\ x[1] = "payment_entries"
    /\ \E new \in SUBSET {y \in Mine \ born : y[1] = "payment_allocations"} :
       \E entry \in RowsOf[x[1]], lines \in [new -> RowsOf["payment_allocations"]] :
         InsertTogether(x, entry, lines)
    /\ UNCHANGED <<surface, checked, seeding, trashed, request>>

SchedulerInsert(x) ==
    /\ x \in Mine \ born /\ x[1] \in SchedulerInserts
    /\ \E row \in RowsOf[x[1]] :
         /\ Takes(x, row)
         /\ rows' = With(x, row)
         /\ unruled' = unruled \cup Around(x, row, Columns(x[1]))
    /\ born' = born \cup {x}
    /\ UNCHANGED <<surface, checked, seeding, trashed, request>>

VerbWrite(x) ==
    /\ x \in DOMAIN rows
    /\ \E row \in RowsOf[x[1]] :
         /\ row # rows[x]
         /\ \A c \in Columns(x[1]) \ VerbColumns[x[1]] : row[c] = rows[x][c]
         /\ ChecksTake(x[1], row)
         /\ rows' = With(x, row)
         /\ unruled' = unruled \cup
              Around(x, row, Columns(x[1]) \cap VerbColumns[x[1]])
    /\ UNCHANGED <<surface, checked, seeding, trashed, born, request>>

(***************************************************************************)
(* The seeder: it looks whether the table is empty, trash included, unless *)
(* it is forced, and then inserts in one statement what has no row yet.    *)
(***************************************************************************)
ShouldRun == \A x \in DOMAIN rows : x[1] # "mode_of_payments"

SeederLooks ==
    /\ "mode_of_payments" \in surface.tables
    /\ ~seeding
    /\ \E force \in BOOLEAN : force \/ ShouldRun
    /\ seeding' = TRUE
    /\ UNCHANGED <<surface, checked, rows, trashed, born, request, unruled>>

InsertSeeds(new) ==
    /\ \A x \in new : /\ Takes(x, SeedRows[x])
                      /\ \A y \in new \ {x} :
                            ~SameKey(x[1], SeedRows[x], SeedRows[y])
    /\ rows' = [y \in DOMAIN rows \cup new |->
                  IF y \in new THEN SeedRows[y] ELSE rows[y]]
    /\ unruled' = unruled \cup
         UNION {Around(x, SeedRows[x], Columns(x[1])) : x \in new}
    /\ born' = born \cup new

SeederInserts ==
    /\ seeding
    /\ InsertSeeds((DOMAIN SeedRows \cap Mine) \ DOMAIN rows)
    /\ seeding' = FALSE
    /\ UNCHANGED <<surface, checked, trashed, request>>

\* A seed that meets a constraint ends the whole program, as a crash does.
SeederStops ==
    /\ seeding
    /\ seeding' = FALSE
    /\ UNCHANGED <<surface, checked, rows, trashed, born, request, unruled>>

Next ==
    \/ SeederLooks \/ SeederInserts \/ SeederStops
    \/ \E x \in Cells : \/ Create(x) \/ Delete(x) \/ Restore(x) \/ Purge(x)
                        \/ CreatePayment(x) \/ SchedulerInsert(x)
                        \/ VerbWrite(x)
    \/ \E t \in surface.tables : EmptyTrash(t)
    \/ \E cl \in Clients : \/ \E x \in Cells : Update(cl, x) \/ Patch(cl, x)
                           \/ Store(cl) \/ Drop(cl)

Spec == Init /\ [][Next]_vars

----------------------------------------------------------------------------
\* Every variable keeps its type; above all, each stored value is of the kind
\* its column takes, whatever a body or a patch held.
TypeOK ==
    /\ surface \in [mount : DOMAIN Mounts, tables : Families]
    /\ checked \subseteq Declared
    /\ DOMAIN rows \subseteq Cells
    /\ \A x \in DOMAIN rows : rows[x] \in RowsOf[x[1]]
    /\ trashed \subseteq DOMAIN rows
    /\ DOMAIN rows \subseteq born /\ born \subseteq Cells
    /\ DOMAIN request \subseteq Clients
    /\ \A cl \in DOMAIN request :
         /\ DOMAIN request[cl] = {"cell", "after", "changed"}
         /\ request[cl].cell \in born
         /\ request[cl].after \in RowsOf[request[cl].cell[1]]
         /\ request[cl].changed \subseteq Columns(request[cl].cell[1])
    /\ seeding \in BOOLEAN
    /\ \A u \in unruled : u[1] \in born /\ u[2] \in Columns(u[1][1])

\* The guarded services let no rule be broken anew: a stored value that breaks
\* a declared rule came in around them, with a row older than the rules, a seed
\* or by a verb, into that very row and column, and its rule is not a constraint.
\* An update checks only what it changes, against a row that may have moved
\* on, so a value that was mended may come back, but no other.
RuleBreaksAreInherited ==
    \A x \in DOMAIN rows : \A c \in Columns(x[1]) :
        LET broken == Broken(x[1], c, rows[x][c]) IN
        broken # {} => <<x, c, rows[x][c]>> \in unruled
                       /\ broken \cap checked = {}

\* BR-3: no two live rows share a payment number, or a mode's code, through
\* deletions, restores, late writes into the trash and rows revived from it.
LiveKeysAreUnique ==
    \A x, y \in Live :
        x # y /\ x[1] = y[1] => ~SameKey(x[1], rows[x], rows[y])

\* An allocation has its payment, a bucket its snapshot and an action its run,
\* be it in the trash: emptying the trash never takes a row that another one,
\* live or trashed, still refers to.
ChildrenHaveParents ==
    \A x \in DOMAIN rows : Parents(x[1], rows[x]) \subseteq DOMAIN rows

\* A row that was purged does not come back, not even by the late write of an
\* update that had read it; only a seeder puts its own rows back, as they were.
PurgedStaysPurged ==
    [][\A x \in (born \ DOMAIN rows) \cap DOMAIN rows' :
         seeding /\ x \in DOMAIN SeedRows /\ rows'[x] = SeedRows[x]]_vars

\* Where generic mutation is not mounted, a stored row stays stored, live or
\* trashed as it was, and changes in the verbs' columns only: the verbs'
\* checks hold for good what they held when the row was written.
GuardedRowsStand ==
    [][surface.mount # "all" =>
         \A x \in DOMAIN rows :
            /\ x \in DOMAIN rows'
            /\ x \in trashed' <=> x \in trashed
            /\ \A c \in Columns(x[1]) \ VerbColumns[x[1]] :
                 rows'[x][c] = rows[x][c]]_vars
=============================================================================
