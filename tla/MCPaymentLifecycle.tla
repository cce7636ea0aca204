-------------------------- MODULE MCPaymentLifecycle --------------------------
(***************************************************************************)
(* PaymentLifecycle on a small instance.  Entries share no row, no key and *)
(* no event, so what can go wrong goes wrong between the calls of one      *)
(* entry: the instances have one payment and several workers.              *)
(***************************************************************************)
EXTENDS PaymentLifecycle, TLC

CONSTANTS p1, e1

\* One clearance event is enough: it may be delivered at any time and again.
MCClearanceFor == e1 :> p1

Symmetry == Permutations(Workers)
===============================================================================
