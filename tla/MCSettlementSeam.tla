--------------------------- MODULE MCSettlementSeam ---------------------------
(***************************************************************************)
(* SettlementSeam on a small instance: one payment, two callers that may   *)
(* race or retry, and nothing to confirm.                                  *)
(***************************************************************************)
EXTENDS SettlementSeam, TLC

CONSTANTS p1, e1

MCClearanceFor == e1 :> p1
===============================================================================
