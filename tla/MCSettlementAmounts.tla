------------------------- MODULE MCSettlementAmounts -------------------------
(***************************************************************************)
(* SettlementAmounts on two invoices whose discounts share an account.     *)
(***************************************************************************)
EXTENDS SettlementAmounts

\* Cents, half a cent that is rounded up, a fraction that is rounded down, and
\* one negative input.
FinerThanCents == {-10, 0, 5, 14, 20, 30}

\* Amounts that half of can be taken without rounding.
EvenCents == {20, 40}

\* An invoice that was paid too much asks for less than nothing.
OverpaidToo == {-1, 1, 2}

SharedAccount == [i \in Invoices |-> "discounts"]
===============================================================================
