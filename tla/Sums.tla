---------------------------------- MODULE Sums ----------------------------------
(***************************************************************************)
(* The sums of amounts that the code accumulates in loops.                 *)
(***************************************************************************)
EXTENDS Integers, FiniteSetsExt

\* The sum of f over the set S, which is part of f's domain.
SumOn(f, S) == MapThenSumSet(LAMBDA x : f[x], S)
=================================================================================
