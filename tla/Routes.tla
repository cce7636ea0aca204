------------------------------- MODULE Routes -------------------------------
(***************************************************************************)
(* What the module serves over HTTP, as sets of <<path, operation>>.  A    *)
(* handler file builds three routers for its table; lib.rs and             *)
(* guarded_routes.rs merge them into the mounts a composing service        *)
(* chooses from.                                                           *)
(***************************************************************************)

ReadOps == {"list", "get", "trash", "deleted", "count", "trash_count"}
CreateOps == {"create", "bulk", "upsert"}
UpdateOps == {"update", "upsert"}
WriteOps == CreateOps \cup UpdateOps \cup
            {"patch", "delete", "restore", "empty", "purge"}

RoutersAt(path) == [all   |-> {path} \X (ReadOps \cup WriteOps),
                    read  |-> {path} \X ReadOps,
                    write |-> {path} \X WriteOps]

Path == [payment_entries     |-> "/payment_entries",
         payment_allocations |-> "/payment_allocations",
         aging_snapshots     |-> "/aging_snapshots",
         aging_buckets       |-> "/aging_buckets",
         dunning_runs        |-> "/dunning_runs",
         dunning_actions     |-> "/dunning_actions",
         mode_of_payments    |-> "/mode_of_payments"]

PaymentEntryRoutes == RoutersAt(Path.payment_entries)
PaymentAllocationRoutes == RoutersAt(Path.payment_allocations)
AgingSnapshotRoutes == RoutersAt(Path.aging_snapshots)
AgingBucketRoutes == RoutersAt(Path.aging_buckets)
DunningRunRoutes == RoutersAt(Path.dunning_runs)
DunningActionRoutes == RoutersAt(Path.dunning_actions)
ModeOfPaymentRoutes == RoutersAt(Path.mode_of_payments)

AllCrudRoutes ==
    UNION {AgingSnapshotRoutes.all, AgingBucketRoutes.all,
           DunningRunRoutes.all, DunningActionRoutes.all,
           ModeOfPaymentRoutes.all, PaymentEntryRoutes.all,
           PaymentAllocationRoutes.all}

ReadonlyRoutes ==
    UNION {AgingSnapshotRoutes.read, AgingBucketRoutes.read,
           DunningRunRoutes.read, DunningActionRoutes.read,
           ModeOfPaymentRoutes.read, PaymentEntryRoutes.read,
           PaymentAllocationRoutes.read}

\* The lifecycle verbs that have a route; post and reverse have none.
VerbRoutes == {<<"/payment-entries", "create_payment">>,
               <<"/payment-entries/:id/submit", "submit_payment">>,
               <<"/payment-entries/:id/reject", "reject_payment">>}

\* Fault: the full router of the entries instead of its read router.
GuardedRoutesWithFullEntries ==
    ModeOfPaymentRoutes.read \cup PaymentEntryRoutes.all \cup VerbRoutes

GuardedRoutes ==
    ModeOfPaymentRoutes.read \cup PaymentEntryRoutes.read \cup VerbRoutes

Mounts == [all |-> AllCrudRoutes, readonly |-> ReadonlyRoutes,
           guarded |-> GuardedRoutes]
=============================================================================
