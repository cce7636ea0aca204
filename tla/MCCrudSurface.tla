--------------------------- MODULE MCCrudSurface ---------------------------
(* Two entries and two modes, so that numbers and codes can meet, and one   *)
(* row of each other table.                                                 *)
EXTENDS CrudSurface, TLC

CONSTANTS p1, p2, l1, cl1

MCUuids == {p1, p2, l1}
MCCells == {<<"payment_entries", p1>>, <<"payment_entries", p2>>,
            <<"payment_allocations", l1>>,
            <<"aging_snapshots", p1>>, <<"aging_buckets", l1>>,
            <<"dunning_runs", p1>>, <<"dunning_actions", l1>>,
            <<"mode_of_payments", p1>>, <<"mode_of_payments", p2>>}
MCLegacy == {<<"payment_entries", p1>>, <<"aging_snapshots", p1>>,
             <<"dunning_actions", l1>>, <<"mode_of_payments", p1>>}
MCWatched == {"payment_number", "posted_at", "payment_id", "direction",
              "snapshot_id", "run_id", "code", "days_past_due"}
MCFamilies == {{"payment_entries", "payment_allocations"},
               {"aging_snapshots", "aging_buckets"},
               {"dunning_runs", "dunning_actions"}, {"mode_of_payments"}}
MCSeedRows == <<"mode_of_payments", p1>> :> [code |-> "text"]
              @@ <<"mode_of_payments", p2>> :> [code |-> "other"]
=============================================================================
