# A formal model of the payment module

This directory is the verification side of `backbone-payment`, a Rust module
that moves money for a larger service: it keeps payment entries and their
allocations to invoices, posts them to a general ledger, announces what was
settled to billing, ages receivables and chases overdue invoices. The TLA+
modules here are translated from the code; TLC checks them on small instances
and TLAPS proves their safety for every instance.

    tlc -workers 2 -config PaymentLifecycle.cfg MCPaymentLifecycle.tla
    tlapm PaymentLifecycleProofs.tla

## 1. Inventory

### Components

| component | state | operations | models |
|---|---|---|---|
| Payment lifecycle and settlement (`payment_create.rs`, `payment_lifecycle.rs`, `payment_settle.rs`, `payment_reverse.rs`, `payment_write_service.rs`, `payment_entry_repository.rs`, `payment_allocation_repository.rs`) | `payment_entries` (status, posting_state, method, journal_id, amounts), `payment_allocations` (amount, discount stamp), `outbox_events`, `payment.inbox_consumed` | `create_payment`, `submit_payment`, `reject_payment`, `post_payment`, `reverse_payment`, `confirm_cash_once` | `PaymentLifecycle` (control), `SettlementAmounts` (money), `SettlementContract` (promise) |
| Early-pay discount port (`payment_discount.rs`) | none | `discount_for`, `EarlyPayDiscountPort::resolve` | the arithmetic in `SettlementAmounts`; the answer is a free choice in `PaymentLifecycle` |
| Settlement seam (`payment_events.rs`) | `outbox_events`, the in-process sink | `stage_settled`, `emit_settled`, `emit_on_account`, `emit_cancelled` | staging and publishing in `PaymentLifecycle`; relay and consumer (external) in `SettlementSeam` |
| Aging (`payment_dunning_service.rs`, `aging_snapshot_repository.rs`, `aging_bucket_repository.rs`) | `aging_snapshots`, `aging_buckets` | `run_aging_snapshot` | `AgingSnapshots`, `Receivables` |
| Dunning (`payment_dunning_service.rs`, `dunning_run_repository.rs`, `dunning_action_repository.rs`) | `dunning_runs`, `dunning_actions` | `run_dunning` | `DunningRuns`, `Receivables` |
| Guarded routes (`guarded_routes.rs`) | none | create, submit and reject over HTTP, reads of entries and modes | `Routes`; what stored rows keep under this mount in `CrudSurface` |
| Generic CRUD surface (`lib.rs`, entities, DTOs, handlers, generated services, migrations) | the seven tables, each row live or in the trash | create, bulk create, upsert, update, patch, soft delete, restore, purge, empty trash, and the reads | `Schemas`, `Routes`, `CrudSurface` |
| Seeder (`bin/seeder.rs`, `seeders/`) | `mode_of_payments` | `should_run`, `run`, with and without `--force` | `CrudSurface` |
| Request pool, tenancy scope | a task-local | choice of a connection, relay of the org | not modelled: no state survives the request; failing closed is a call that ends |
| Exports, example entity | none | wiring | not modelled |

Outside the repository, and modelled only as the code uses them: the general
ledger behind `GlPostSink` (one journal per idempotency key, returned again for
a repeated key; it may refuse, or commit and lose its answer), PostgreSQL (row
locks, read-committed visibility, unique and foreign keys, checks, deadlock
detection), `backbone-core`'s generic service and routes, the outbox relay, billing's inbox and its drawdown, billing's receivables, and the discount and reconcilability ports.

### How the components interact

    HTTP / scheduler / bus
            |
      PaymentWriteService ---- discount port, reconcilability port (awaits)
            |      \---------- GlPostSink::post, one key per posting type (await)
            |
      one transaction: stamps + posted-transition + outbox row
            |
      after the commit: in-process publish  -->  billing
      later: bank clearance event --> confirm_cash_once (inbox row + drift)

      PaymentDunningService --> receivables port, then one transaction each for
      aging (SELECT, then UPDATE or INSERT the snapshot) and for dunning
      (INSERT ... ON CONFLICT DO NOTHING per overdue invoice)

      a mount (all, readonly or guarded) --> generic services, each behind its
      row rules --> the same tables; the seeder --> mode_of_payments

### What is hard here

* `post_payment` and `reverse_payment` hold no lock between their awaits. Any
  number of callers may be inside them for one entry, and `reject_payment`,
  `submit_payment` and `confirm_cash_once` may run between any two of their
  awaits. What arbitrates is the WHERE clause of each update.
* A call can end at any await: crash, dropped request, an error through `?`.
  What it wrote stays; what it remembered is gone. The ledger may hold a
  journal whose entry does not know it.
* The ledger's answer can be lost after it committed; the code cannot tell this
  from a refusal and marks the entry failed.
* Two columns, `status` and `posting_state`, tell one story and are written by
  different statements.
* Discounts are decided from a window that moves, and must not be decided again
  once money moved.
* Clearance events arrive at least once, in any order.
* Aging arbitrates a day with a SELECT and no unique index; dunning takes many
  unique keys in one transaction, in any order, so two runs can deadlock.
* Decimals are rounded after they are summed and again line by line.
* A generic update reads a row, is checked against what it read, and stores
  later; meanwhile the row is written by a verb, trashed, purged or restored.
* The declared rules became CHECK constraints only where no stored row broke
  them, and the verbs and the seeder write around the services that know them.
* A number in the trash is free again, a row in the trash is still referred to.

The full list, each with the line where it bites and the property that covers
it, is `hazards` in `PROJECT.json`.

### What makes each component correct

* Lifecycle: the two columns agree; a posted entry names a journal that exists;
  a mirror journal exists only behind a posted entry and says what its stamps
  say; settled and cancelled are announced at most once, and the durable notice
  is one step with the transition; stamps never change after the post; only a
  first clearance event turns `in_flight` into `paid`.
* Seam: invoices are drawn down once per settled payment and restored at most
  once; billing never runs ahead of the books; a committed post gets there.
* Arithmetic: allocations within what was paid; what billing is told is what
  the ledger was told; a discount within its terms; legs that balance; a
  reversal that leaves every account at zero.
* Aging: the totals of a snapshot are those of one whole run; a row belongs to
  the snapshot of its own day; every run ends.
* Dunning: each escalation once; a run counts its own; none is lost to a run
  that rolled back; every run ends although runs deadlock.
* Stored rows: no rule is broken anew through a guarded service; live numbers
  are unique; no child loses its parent; what was purged stays purged; where
  generic mutation is not mounted, rows change by the verbs alone.

## 2. Modules

| module | what it is |
|---|---|
| `SettlementContract` | what one payment promises its neighbours: absent, open, then rejected, or settled behind its journal and perhaps unwound behind the mirror. No calls, no retries. |
| `PaymentLifecycle` | the verbs. Implements `SettlementContract` under the mapping at its end. |
| `PaymentLifecycleProofs` | the TLAPS proofs about it. |
| `SettlementSeam` | `PaymentLifecycle` composed with the relay and with billing. |
| `SettlementSeamProofs`, `SettlementAmountsProofs`, `DunningRunsProofs`, `AgingSnapshotsProofs`, `ReceivablesProofs`, `CrudSurfaceProofs` | the proofs about the module in their name. |
| `Sums`, `SumsProofs` | the sums that the code accumulates in loops, and the laws of such sums. |
| `SettlementAmounts` | the money of one payment: creation, discount, envelope, mirror. |
| `Receivables` | buckets, levels and days past due, shared by the next two. |
| `AgingSnapshots`, `DunningRuns` | one element of `Runs` is one call. |
| `Schemas` | the seven tables: columns, the kind of value each takes, what a create, an update and a patch reach, the declared rules. |
| `Routes` | the three mounts as sets of path and operation. |
| `CrudSurface` | the stored rows under a mount, the verbs' own SQL, the seeder and the constraints. |
| `MC*` | small values for the constants of each. |

### PaymentLifecycle and the code

The variables carry the names of the columns: `status`, `posting_state`,
`method`, `journal_id`, `discount` (the `discount_amount` stamps), `outbox`,
`inbox`. `ledger` and `bus` are the neighbours; `call` is what each concurrent
caller holds in memory and which await it stands at.

| action | code |
|---|---|
| `Create`, `Submit`, `Reject`, `ConfirmCash` | one statement or transaction each; what the two-column `confirm_cash_once` transaction does is one action |
| `PostStart` | the early return for an entry that is already posted |
| `PostGate` | `fetch_post_source` and the status gate |
| `PostDecide` | `fetch_for_payment`, the two ports, `assemble_settlement_post` |
| `PostSink` | `GlPostSink::post`: acknowledged, refused, or committed and unanswered |
| `PostMarkFailed` | `mark_failed`, whose result is ignored |
| `PostCommit` / `PostLost` | the committing transaction; whether `mark_posted` matched a row decides |
| `PostEmit` | `emit_settled`, and `emit_on_account` for an unallocated remainder |
| `ReverseStart` .. `ReverseEmit` | the same for `reverse_payment` |
| `Abandon` | the call ends at an await |

Amounts are abstracted to what the properties tell apart: a journal is
identified with the discount decision its legs were assembled from. What the
amounts themselves do is `SettlementAmounts`' question, where one call runs at a
time. Reads that cannot change the outcome (fetching a row that is fetched again
by the transition's WHERE clause) are merged with the await after them.

An operator whose comment begins with "Fault:" is a wrong version of the
definition that follows it. No action uses it; it is there to show that the
properties notice the mistake.

### SettlementSeam and its surroundings

Every step of `PaymentLifecycle` is a step here, beside three of the
surroundings. `Deliver` is one consume of a staged row: the inbox row and the
drawdown in one transaction, and only the inbox row when it is there already.
`MarkPublished` is the relay's mark; a stop before it means that `Deliver`
comes again. `Route` hands the in-process events of a payment to billing in the
order they were published, and loses none, the best a composing service can do.
This is the composition of `tests/settlement_bus_seam.rs` and
`tests/settlement_seam.rs`. The allocations of a payment are applied together.

### AgingSnapshots and DunningRuns

The reading of billing's receivables is a free choice, taken before the
transaction, as the code takes it. A transaction's writes appear when it
commits. In `AgingSnapshots` the row lock of the snapshot is held from `Touch`
to the end; in `DunningRuns` a key that another open transaction inserted makes
`Upsert` wait, and `Victim` is the database breaking a circle of waits.

### SettlementAmounts

Inputs are integers in tenths of a cent, what is stored is in cents, and
`Rounded` rounds halves away from zero, as the code and a `NUMERIC(18, 2)`
column do. `Assembled` is the envelope by account: one leg for the control
account, and on the other side the `Parts`, whose legs may share an account.
`Reverse` assembles it again from the rows, as `build_reversal_post` does, and
swaps the sides. The port's answer is any percentage of any basis, below zero
too; `Taken` has the early return of `discount_for` for what is not positive.

### CrudSurface and the code

A behaviour has one mount and one family of tables that refer to each other.
`rows` and `trashed` are the tables; `request` holds, for each client, an update
that was checked and is not stored yet; `checked` are the rules that became
CHECK constraints; `unruled` remembers, for the properties only, which values
that break a rule came in without a service. A value stands for its kind: a
proper text, another one, blanks, a text that is too long, a negative amount.

| action | code |
|---|---|
| `Create` | `POST`, each element of a bulk create, an upsert that finds no row: `from_create_dto`, the row rules, the INSERT |
| `Update`, `Patch` | the first half: read a live row, `apply_update` or `apply_patch` (a value that does not parse is skipped), the row rules on the columns that changed |
| `Store`, `Drop` | the second half: the statement, or the end of the call without it |
| `Delete`, `Restore`, `Purge`, `EmptyTrash` | the trash; emptying is one statement |
| `CreatePayment` | the transaction of `create_payment`: an entry and its allocations, with the defaults of their INSERTs and no row rules |
| `SchedulerInsert`, `VerbWrite` | the INSERTs of aging and dunning, and the columns of every verb's UPDATE, with any value and at any time: when they happen is the other modules' question |
| `SeederLooks`, `SeederInserts`, `SeederStops` | `should_run` (which counts the trash too), `run`, and the `?` that ends the program |

The generic service and its repository are not in this repository. Left open is
therefore which columns a stored update sets (those that changed, or all) and,
when all, whether a row that was trashed meanwhile is live again. Assumed of it
are two things, on which `PurgedStaysPurged` rests: storing an update is an UPDATE
and never inserts a row that is gone, and what a create, a bulk create or an
upsert inserts has a fresh id. The entities have `set_entity_id`
(`payment_entry.rs:360`), so that the framework could name the id of a new row;
`from_create_dto` generates one. A run of aging
or dunning inserts row by row here, which allows more than its transaction.

## 3. The runs

| run | checks | shows |
|---|---|---|
| `lifecycle` | eight invariants, two action properties, the refinement | three callers posting, retrying, reversing and crashing on one entry, with every other verb between their steps, keep columns, ledger, outbox and bus consistent |
| `seam` | `DrawnAtMostOnce`, `BillingFollowsTheBooks`, `EveryPostDrawsDown` | two callers, relay and billing: once per settlement, never before the ledger, and eventually |
| `aging` | `TotalsAreOneRuns`, `RowsUnderTheirDay`, `NoLateTwin`, `RunsEnd` | three overlapping runs over two days |
| `dunning` | `OneActionPerLevel`, `EmittedCountsItsActions`, `EveryOverdueInvoiceIsChased`, `RunsEnd` | three runs that deadlock, roll back and repeat |
| `amounts` | `AllocationsWithinPaid`, `AnnouncedIsBooked`, `EachDiscountWithinTerms`, `AssemblyBalances`, `ReversalClearsTheBooks` | all payments of up to two lines, in amounts with fractions of a cent, with terms above 100 % and bases below the allocation and below zero |
| `crud` | `RuleBreaksAreInherited`, `LiveKeysAreUnique`, `ChildrenHaveParents`, `PurgedStaysPurged`, `GuardedRowsStand` | each family of tables, with rows older than the rules, under each of the three mounts, with a slow update, the trash, the verbs' SQL and a seeder that runs again |

Six further runs expect a violation, each of something the repository says of
itself:

| run | what is said | what the code does |
|---|---|---|
| `rejected_journal` | a rejected payment can never leave a journal (`payment_write_service.rs:126`) | a reject between the gate and the ledger's answer leaves one, and the entry can never adopt it |
| `split_decision` | a crash after the GL post cannot split the decision from its journal (`payment_settle.rs:302`) | the stamps are written after the acknowledgement; the retry decides anew while the ledger keeps the first journal |
| `lost_cancellation` | the cancelled event is exactly-once (`payment_reverse.rs:9`) | it is published in process after the commit, and a second reverse does not publish |
| `overtaken_settlement` | a reversal restores what the payment settled (`payment_reverse.rs:61`) | the settlement waits in the outbox while the cancellation is published at once; billing sees them in the wrong order and the invoices stay drawn |
| `aging_rerun` | at-least-once delivery cannot duplicate (`ADR-006`) | the snapshot is reused, its bucket rows are inserted again |
| `split_invoice` | the cumulative take never exceeds percent x outstanding (`payment_settle.rs:262`) | two lines to one invoice are clamped separately |

`rejected_journal` and `split_decision` are why the contract's `Record` does not
ask whether the entry is still open, and why the ledger-side discount is not
part of `AnnouncedDiscountIsStamped`.

Two more claims are not true as they stand, and are visible in the passing runs.
`create_payment` promises that allocations never exceed what was paid
(`payment_create.rs:20`), but rounds the sum before it compares and every line by
itself when it stores: two allocations of half a cent pass for a payment of one
cent and are stored as a cent each. `AllocationsWithinPaid` and `AnnouncedIsBooked`
therefore allow half a cent for each allocation (`Slack`), which the run reaches,
and nothing when callers give whole cents. ADR-006 (line 32) lists a unique fence
on the snapshot of a day; the table has none (`aging_snapshot_repository.rs:64`
leaves it to the composing service), and two overlapping runs may each insert a
snapshot. `NoLateTwin` says what is left of the fence: nobody who begins to look
after a day has its snapshot adds another.

### Bounds, and why they are enough

* One payment. Every action reads and writes the rows, the keys and the outbox
  of one entry; entries share nothing. The proofs are for any number.
* Three callers. Each hazard involves a caller that commits, one that lost a
  race and one that is late with what it remembers. One caller is enough for
  the violations: a crash and a retry, or a verb between two awaits.
* One allocation, discount 0 or 1, one clearance event that may be delivered any
  number of times.
* Two invoices, three runs. One invoice without a due date for aging, days 30
  and 31 on both sides of a bucket's edge; due days 0 and 1 and run days 1 and 8
  for dunning, so that delays of 0, 1, 7 and 8 occur. Two invoices are the least
  for runs to wait for each other.
* Two allocation lines, amounts of 0 to 3 cents and one negative input: half a
  cent is rounded up, 1.4 cents are rounded down, and more halves arise from 50 %
  of an odd amount. The basis of the terms is -1, 1 or
  2 cents: below zero, below an allocation, and above one. That whole cents
  agree exactly is proved; the run's inputs are not whole cents.
* For the seam: one payment, two callers, the outbox configured. Two callers are
  enough for a second row to be staged, if anything let them; a row can be
  delivered any number of times before its mark.

* For `crud`: one client, because two updates under way meet in the row as one
  update and a verb do; two entries and two modes, the least for numbers and
  codes to meet; one row of every other table; up to four rows older than the
  rules; two seeds. Watched are the columns that keys, references and rules of
  different kinds are about, one of the verbs' own (`posted_at`), and one that
  takes no null and has no rule (`days_past_due`).
  The dunning fence is not watched, `DunningRuns` is about it. Rows older than
  the rules have their parents: a foreign key that could not be validated is
  outside. The proofs are for any cells, columns, families and clients.

Deadlock is checked in the lifecycle runs. It is off where the system may stop:
every call of a finite set was made, or a payment is reversed.

### Fairness

`aging` and `dunning` check liveness under weak fairness on the steps of a call
that has begun: the executor polls a ready future, the database answers a
statement and fails one of a circle of waiting transactions. No fairness is
assumed on beginning a call, on reads, or on failing. Because `Runs` is finite,
"all calls have ended" is stated as `[]<>`. The lifecycle has no fairness: the
code has no job that retries a post, so nothing there has to happen. `seam`
assumes weak fairness of the relay alone, a job that ADR-002 asks the composing
service to run and that starts again after a stop; that billing accepts a row in
the end is part of this assumption. The callers may stop for ever after their
commit, and still the post arrives.

## 4. The proofs

`PaymentLifecycleProofs` proves, for any set of payments, allocations,
discounts, callers and clearance events, that `PaymentLifecycle!Spec` implies
every invariant and action property of the `lifecycle` run, and that it
implements `SettlementContract`.

The properties are not inductive by themselves: that a late commit settles
nothing twice, or that a mirror carries the stamps, depends on what calls still
hold in memory. The invariant is

    Inv == TypeOK /\ EntryInv /\ (\A p : OutboxAgrees(p)) /\ BusInv

* `EntryInv` joins the invariants about the row and the ledger with
  `CallsAgreeWithEntries`: a call at the commit has its journal in the ledger, a
  call at the mirror holds the stamps of an entry that is posted, a call at the
  cancellation has its mirror, and so on. It is proved entry by entry
  (`EntryAgrees`) and call by call (`CallAgrees`). The bridge between the two is
  `Forward`: no step takes a posted entry back, changes its stamps or removes a
  journal, so that what another call remembers stays true (`OtherCallAgrees`).
* `OutboxAgrees` is the outbox half: exactly the posting step stages.
* `BusInv` says that each kind of event was published once, that a call standing
  before a publish is entitled to it (its event is not out yet), and that no two
  calls stand before the same one.

The action properties and the refinement follow from `Inv`: every step maps to
one step of the contract or to a stutter. Assumed are only the four named
assumptions of the module: 0 is a discount, `None` is no payment and no
decision, clearance events name payments, and the configuration is well formed.

`SettlementSeamProofs` builds on that invariant as it stands. What it adds
(`SeamAgrees`) says that billing's counter is 1 exactly when the payment's only
row was consumed, or its settlement was routed in process when there is no
outbox. That there is only one row is `OutboxAgrees`, that there is only one
event is `BusInv`, and that neither is taken back is `HistoriesGrow`. From it
follow `DrawnAtMostOnce` and `BillingFollowsTheBooks`, for both settings of
`OutboxOn`; the run has the outbox on.

`DunningRunsProofs` proves the type invariant and the three safety properties of
`dunning`. They are not inductive: a committed action says nothing of the keys
that open transactions have inserted and will commit. `OwnKeys` says that such a
key is nobody else's, committed or open, which the waiting in `Upsert` keeps
true; `Counts` and `OwnRows` carry the counter to the commit, and `Handled` says
that every overdue row that was passed has its key, inserted here or committed,
which is why giving way to a transaction that may still roll back has to wait
for it. Besides the assumptions on dates it needs that the invoices of a reading
are finitely many (`InvoicesAssumption`).

`AgingSnapshotsProofs` proves the type invariant and the three safety properties
of `aging`. A snapshot is named by a run that is over and has its day
(`OpenedByItsRun`), and a run that has arbitrated opens its own or shares one of
its day (`Arbitrated`). `WrittenWhole` is what the totals need: there is a reading
of one committed run such that the snapshot holds its totals and the run's rows
are its rows, all of them. That these rows then add up to those totals,
bucket by bucket, is no longer a question of runs. It follows from `BucketsAgree`
(`ReceivablesProofs`: `bucket_index` and `bucket_name` agree for every delay) and
from renaming the terms of a sum (`TotalsOfRows`). A reading is a `Vec`, and so
its invoices are finitely many (`InvoicesAssumption`).

`SettlementAmountsProofs` proves every property of `amounts` for any inputs,
percentages, bases, invoices and discount accounts, and for any number of
allocations. Its invariant adds three facts to the types and the bounds of the
discounts: allocated and unallocated make up what was paid; the stored
allocations add up to `allocated`, give or take half a cent for each
(`AllocatedNearLines`), and exactly when callers give whole cents; and the journal
of a posted payment is what its rows assemble to, which is why a mirror that is
assembled from the rows clears the books. Three lemmas and theorems say more than the run asks:

* `AssembledBalances`: the legs add up to the same on both sides although the code
  groups the discounts by account first, adds them up once more for the bank leg,
  and may use one account for several legs. So the envelope's own check never
  refuses a stored payment.
* `TakenBounds`: a discount is at most its allocation and at most what the terms
  are worth, for every percentage and every basis, although it is rounded before
  it is clamped.
* `SingleTakeWithinTerms`: the claim that `split_invoice` refutes holds for every
  payment that names no invoice twice, so that this is the only way to break it.

One theorem has a hypothesis beside the assumptions of the module:
`DiscountsOffControl` (in `AnnouncementsAreBooked`) says that no discount is
booked on the account that the payment clears. The code does not check this: it
is how the chart of accounts is set up, and a discount booked there would be
netted against the gross leg.

`SumsProofs` has the laws of sums that the last two modules rest on: taking out a
term, adding two sums, grouping, renaming. The library's induction theorems cannot
be used by the provers, so these proofs argue by a smallest counterexample: among
the subsets of a finite set without the property there would be a minimal one
(`StrongSetInduction`, from the well-foundedness of the strict subsets), and
the property is passed as the set of the subsets that have it, which keeps
everything first-order. `Unfolded` to `SumStep` derive the step of the recursive
function behind the fold, which the fold's definition takes by `CHOOSE`.

`CrudSurfaceProofs` proves the type invariant and all five properties of `crud`,
for any rows, watched columns, families, seeds and clients. The rules are not
inductive: an update that was checked stores later, into a row that changed. What
is needed is that every value an update is going to store meets its rules, or
came in around them (`RequestsAreRuled`), and that `unruled` only grows. The other properties follow
from what the statements ask of the database at the moment they run.
`GuardedRowsStand` needs that no update is under way where none is served
(`UpdatesNeedAll`).

With this, every safety property that a passing run checks is a theorem. Only
model-checked are the three liveness properties (`RunsEnd` of aging and of
dunning, `EveryPostDrawsDown`): fairness and `ENABLED` are out of the provers'
reach. That the code breaks the six claims of the other runs is shown by their
counterexamples.

## 5. Not modelled

* Overflow of the decimal type: amounts are far below its 28 digits.
* The bodies of requests, authentication, tenancy and exports, for the reasons in
  the inventory; the reads of the CRUD surface, which change nothing.
* In the full mount a whole-row update may write an old status back over a verb's.
  The mount is documented as unguarded, and no property promises otherwise.
* The verbs' UPDATEs do not look at the trash, so that a post may land in a row
  that was trashed since it was read; `VerbWrite` does the same.
* The trash in aging and dunning. The index behind the dunning fence and the
  snapshot's SELECT see live rows only (`dunning_action_repository.rs:76`,
  `aging_snapshot_repository.rs:78`): when someone trashes an action, its
  escalation is issued again, and when someone trashes a day's snapshot, the next
  run opens another. `DunningRuns` and `AgingSnapshots` speak of rows that nobody
  trashes.
* The migrations before the constraints, their way down, and `rollback` of the
  seeders, which nothing calls.
* `create_payment` does not look at the withholding, although ADR-003 says that it
  validates withholding <= paid. A payment that is stored this way fails every
  post as `UnbalancedPost`; `AssemblyBalances` covers that nothing else happens.
* What `PaymentReceivedOnAccount` causes: it is published in process only, and is
  lost with a call that stops before the publish.
* Two more hazards have a note instead of a property. A clearance event that arrives
  before its post commits is consumed for good, and the entry stays in flight:
  the code intends it (the inbox row is written for every first delivery).
  An invoice without a due date never ages.

## 6. Plan

1. Done: contract, lifecycle, aging, dunning, arithmetic; the proofs about the
   lifecycle, and about the safety of dunning and aging.
2. Done: `SettlementSeam` and the proofs about its safety.
3. Done: `Schemas`, `Routes` and `CrudSurface`, and the proofs about its safety.
4. Done: the laws of sums, and the proofs about the money and about the totals of
   aging, for any number of allocations and invoices.
5. `PaymentLifecycle` over rows that the trash may take: which verbs refuse, and
   what a post in the trash leaves behind.
