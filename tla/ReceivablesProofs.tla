-------------------------- MODULE ReceivablesProofs --------------------------
(***************************************************************************)
(* run_aging_snapshot adds an invoice to a total by bucket_index and       *)
(* writes its row under bucket_name.  The two agree for every delay.       *)
(***************************************************************************)
EXTENDS Receivables, TLAPS

\* The name under which a row is written is the column its amount went to.
THEOREM BucketsAgree ==
    \A dpd \in Int : BucketName(dpd) = Column[BucketIndex(dpd)]
<1> SUFFICES ASSUME NEW dpd \in Int
             PROVE  BucketName(dpd) = Column[BucketIndex(dpd)]
  OBVIOUS
<1>1. CASE dpd <= 0
  BY <1>1 DEF BucketName, BucketIndex, Column
<1>2. CASE dpd \in 1..30
  BY <1>2 DEF BucketName, BucketIndex, Column
<1>3. CASE dpd \in 31..60
  BY <1>3 DEF BucketName, BucketIndex, Column
<1>4. CASE dpd \in 61..90
  BY <1>4 DEF BucketName, BucketIndex, Column
<1>5. CASE dpd > 90
  BY <1>5 DEF BucketName, BucketIndex, Column
<1> QED
  BY <1>1, <1>2, <1>3, <1>4, <1>5
===============================================================================
