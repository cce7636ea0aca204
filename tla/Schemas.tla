------------------------------ MODULE Schemas ------------------------------
(***************************************************************************)
(* The seven tables of the module: their columns, the kind of value each   *)
(* column takes, which columns a create, an update and a patch reach, and  *)
(* the rules the generated write guards know.  A value stands for its      *)
(* kind: what the rules and the keys tell apart is kept, the rest is not.  *)
(***************************************************************************)
CONSTANT Uuids  \* the identifiers of rows, whatever they name

Text == {"text", "other", "blank", "long"}   \* two proper texts; only blanks;
                                             \* longer than its column allows
Money == {"amount", "negative"}
Dates == {"date"}
Times == {"time"}
Counts == {"count"}
Opt(kind) == kind \cup {"null"}

(***************************************************************************)
(* The labels of the enumerated columns.                                   *)
(***************************************************************************)
AgingBucketName == {"current", "bucket_1_30", "bucket_31_60", "bucket_61_90",
    "bucket_90p"}
DunningActionStatus == {"pending", "sent", "failed", "suppressed"}
DunningActionType == {"send_reminder", "send_overdue", "send_final_notice",
    "escalate_to_agency", "recommend_write_off"}
DunningLevel == {"current", "reminder", "overdue", "final_notice",
    "collection", "written_off"}
DunningRunStatus == {"building", "completed", "aborted"}
GlPostingState == {"pending", "posted", "failed"}
ModeOfPaymentStatus == {"active", "inactive"}
ModeType == {"cash", "bank_transfer", "card", "e_wallet", "virtual_account",
    "qris"}
PaymentMethod == {"manual", "bank_transfer", "cash", "cheque", "gateway"}
PaymentPartyType == {"customer", "supplier", "employee"}
PaymentStatus == {"draft", "submitted", "in_flight", "paid", "cancelled",
    "rejected"}
PaymentType == {"receive", "pay", "internal_transfer"}
SettlementKind == {"sales", "purchase"}
SnapshotStatus == {"building", "final", "aborted"}
WithholdingTaxType == {"none", "pph_22", "pph_23", "pph_26"}

(***************************************************************************)
(* A table is the record of its columns (id and metadata apart).  Beside   *)
(* it: the columns a patch may name, the body of a create and of an        *)
(* update, the columns each of the two sets, and the declared rules.       *)
(***************************************************************************)
PaymentEntry ==
    [payment_number |-> Text, branch_id |-> Opt(Uuids),
     payment_type |-> PaymentType, party_type |-> Opt(PaymentPartyType),
     party_id |-> Opt(Uuids), posting_date |-> Dates, currency |-> Text,
     mode_of_payment_id |-> Opt(Uuids), method |-> PaymentMethod,
     provider_txn_id |-> Opt(Uuids), paid_amount |-> Money,
     allocated_amount |-> Money, unallocated_amount |-> Money,
     bank_account_id |-> Uuids, party_account_id |-> Uuids,
     withholding_amount |-> Money, withholding_account_id |-> Opt(Uuids),
     withholding_tax_type |-> WithholdingTaxType, status |-> PaymentStatus,
     posting_state |-> GlPostingState, journal_id |-> Opt(Uuids),
     accounting_post_id |-> Opt(Uuids), posted_at |-> Opt(Times),
     reference_no |-> Opt(Text), notes |-> Opt(Text)]

PaymentEntryPatch == DOMAIN PaymentEntry
CreatePaymentEntryDto == PaymentEntry
PaymentEntryFromCreate == DOMAIN CreatePaymentEntryDto
UpdatePaymentEntryDto == PaymentEntry
PaymentEntryApplyUpdate == DOMAIN UpdatePaymentEntryDto

PaymentEntryRowRules ==
    [payment_number |-> {"required", "max_length"},
     currency |-> {"max_length"}, paid_amount |-> {"non_negative"},
     allocated_amount |-> {"non_negative"},
     unallocated_amount |-> {"non_negative"},
     bank_account_id |-> {"required"}, party_account_id |-> {"required"},
     withholding_amount |-> {"non_negative"},
     reference_no |-> {"max_length"}, notes |-> {"max_length"}]

PaymentAllocation ==
    [payment_id |-> Uuids, invoice_ref |-> Uuids,
     invoice_kind |-> SettlementKind, allocated_amount |-> Money,
     discount_amount |-> Money, discount_account_id |-> Opt(Uuids)]

PaymentAllocationPatch == DOMAIN PaymentAllocation
CreatePaymentAllocationDto == PaymentAllocation
PaymentAllocationFromCreate == DOMAIN CreatePaymentAllocationDto
UpdatePaymentAllocationDto == PaymentAllocation
PaymentAllocationApplyUpdate == DOMAIN UpdatePaymentAllocationDto

PaymentAllocationRowRules ==
    [payment_id |-> {"required"}, invoice_ref |-> {"required"},
     allocated_amount |-> {"non_negative"},
     discount_amount |-> {"non_negative"}]

AgingSnapshot ==
    [as_of_date |-> Dates, direction |-> Text, total_outstanding |-> Money,
     bucket_current |-> Money, bucket_1_30 |-> Money, bucket_31_60 |-> Money,
     bucket_61_90 |-> Money, bucket_90p |-> Money, status |-> SnapshotStatus]

AgingSnapshotPatch == DOMAIN AgingSnapshot
CreateAgingSnapshotDto == AgingSnapshot
AgingSnapshotFromCreate == DOMAIN CreateAgingSnapshotDto
UpdateAgingSnapshotDto == AgingSnapshot
AgingSnapshotApplyUpdate == DOMAIN UpdateAgingSnapshotDto

AgingSnapshotRowRules ==
    [direction |-> {"required", "max_length"},
     total_outstanding |-> {"non_negative"},
     bucket_current |-> {"non_negative"}, bucket_1_30 |-> {"non_negative"},
     bucket_31_60 |-> {"non_negative"}, bucket_61_90 |-> {"non_negative"},
     bucket_90p |-> {"non_negative"}]

AgingBucket ==
    [snapshot_id |-> Uuids, invoice_ref |-> Uuids, invoice_kind |-> Text,
     party_id |-> Opt(Uuids), due_date |-> Dates, days_past_due |-> Counts,
     outstanding_amount |-> Money, bucket |-> AgingBucketName]

AgingBucketPatch == DOMAIN AgingBucket
CreateAgingBucketDto == AgingBucket
AgingBucketFromCreate == DOMAIN CreateAgingBucketDto
UpdateAgingBucketDto == AgingBucket
AgingBucketApplyUpdate == DOMAIN UpdateAgingBucketDto

AgingBucketRowRules ==
    [snapshot_id |-> {"required"}, invoice_ref |-> {"required"},
     invoice_kind |-> {"required", "max_length"},
     outstanding_amount |-> {"non_negative"}]

DunningRun ==
    [as_of_date |-> Dates, direction |-> Text, snapshot_id |-> Opt(Uuids),
     actions_emitted |-> Counts, status |-> DunningRunStatus]

DunningRunPatch == DOMAIN DunningRun
CreateDunningRunDto == DunningRun
DunningRunFromCreate == DOMAIN CreateDunningRunDto
UpdateDunningRunDto == DunningRun
DunningRunApplyUpdate == DOMAIN UpdateDunningRunDto

DunningRunRowRules ==
    [direction |-> {"required", "max_length"}]

DunningAction ==
    [run_id |-> Uuids, invoice_ref |-> Uuids, invoice_kind |-> Text,
     party_id |-> Opt(Uuids), level |-> DunningLevel,
     action_type |-> DunningActionType, days_past_due |-> Counts,
     outstanding_amount |-> Money, status |-> DunningActionStatus,
     processed_at |-> Opt(Times), result_ref |-> Opt(Text)]

DunningActionPatch == DOMAIN DunningAction
CreateDunningActionDto == DunningAction
DunningActionFromCreate == DOMAIN CreateDunningActionDto
UpdateDunningActionDto == DunningAction
DunningActionApplyUpdate == DOMAIN UpdateDunningActionDto

DunningActionRowRules ==
    [run_id |-> {"required"}, invoice_ref |-> {"required"},
     invoice_kind |-> {"required", "max_length"},
     outstanding_amount |-> {"non_negative"}, result_ref |-> {"max_length"}]

ModeOfPayment ==
    [code |-> Text, name |-> Text, mode_type |-> ModeType,
     default_account_id |-> Opt(Uuids), status |-> ModeOfPaymentStatus]

ModeOfPaymentPatch == DOMAIN ModeOfPayment
CreateModeOfPaymentDto == ModeOfPayment
ModeOfPaymentFromCreate == DOMAIN CreateModeOfPaymentDto
UpdateModeOfPaymentDto == ModeOfPayment
ModeOfPaymentApplyUpdate == DOMAIN UpdateModeOfPaymentDto

ModeOfPaymentRowRules ==
    [code |-> {"required", "max_length"},
     name |-> {"required", "max_length"}]
============================================================================
