---------------------------- MODULE MCDunningRuns ----------------------------
(***************************************************************************)
(* DunningRuns on two invoices, due on days 0 and 1, chased on days 1 and  *)
(* 8: the delays are 0 (not overdue), 1 and 7 (the ends of the first       *)
(* level) and 8 (the second).                                              *)
(***************************************************************************)
EXTENDS DunningRuns, TLC

CONSTANTS first, second

MCDueDate == first :> 0 @@ second :> 1
MCDays == {1, 8}
===============================================================================
