--------------------------- MODULE MCAgingSnapshots ---------------------------
(***************************************************************************)
(* AgingSnapshots on two invoices, one due on day 0 and one without a due  *)
(* date, aged on the days around the end of the first bucket.              *)
(***************************************************************************)
EXTENDS AgingSnapshots, TLC

CONSTANTS dated, undated

MCDueDate == dated :> 0 @@ undated :> NoDate
MCDays == {30, 31}
MCDay == {30}
===============================================================================
