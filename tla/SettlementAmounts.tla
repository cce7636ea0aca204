--------------------------- MODULE SettlementAmounts ---------------------------
(***************************************************************************)
(* The money of one payment: what create_payment validates, rounds and     *)
(* stores, what discount each allocation takes when the payment is posted, *)
(* the envelope the general ledger gets, and its mirror on reversal.       *)
(*                                                                         *)
(* Callers give amounts as decimals of any precision, here integers in     *)
(* tenths of a cent (ticks).  What is stored is in cents: the code rounds  *)
(* half away from zero, and so does a NUMERIC(18, 2) column.  Overflow of  *)
(* the decimal type is out of scope.                                       *)
(***************************************************************************)
EXTENDS Sequences, Sums

CONSTANTS
    Invoices,
    DiscountAccount,    \* where the discount on each invoice is booked
    Inputs,             \* bound: amounts callers give, in ticks
    MaxLines,           \* bound: allocation lines of the payment
    Percents, Bases     \* bound: early-pay terms the port answers with

ASSUME InvoicesAssumption == IsFiniteSet(Invoices)
ASSUME InputsAssumption == Inputs \subseteq Int /\ MaxLines \in Nat
ASSUME TermsAssumption == Percents \subseteq Int /\ Bases \subseteq Int

VARIABLES
    state,      \* absent, stored, posted, reversed
    entry,      \* the amounts on the payment_entries row
    lines,      \* the payment_allocations rows, in order
    terms,      \* what the discount port answered for each invoice
    journal,    \* the envelope posted
    mirror      \* the envelope of the reversal

moneyVars == <<state, entry, lines, terms, journal, mirror>>

Types == {"receive", "pay"}
Accounts == {"bank", "control", "withholding"} \cup
            {DiscountAccount[i] : i \in Invoices}
NoTerms == [percent |-> 0, basis |-> 0]
Terms == {NoTerms} \cup [percent : Percents, basis : Bases]
NoEntry == [type |-> "receive", paid |-> 0, allocated |-> 0, unallocated |-> 0,
            withholding |-> 0]
NoPost == [debit |-> [a \in Accounts |-> 0], credit |-> [a \in Accounts |-> 0]]

Init ==
    /\ state = "absent"
    /\ entry = NoEntry
    /\ lines = <<>>
    /\ terms = [i \in Invoices |-> NoTerms]
    /\ journal = NoPost
    /\ mirror = NoPost

-------------------------------------------------------------------------------
\* Nearest whole number of n / d, halves away from zero; amounts below zero
\* are refused before they are rounded.
Rounded(n, d) == (2 * n + d) \div (2 * d)

Money(ticks) == Rounded(ticks, 10)

\* The sum of a sequence of numbers, and the columns that are summed.
Total(s) == SumOn(s, DOMAIN s)
Amounts(ls) == [k \in DOMAIN ls |-> ls[k].amount]
Discounts(ls) == [k \in DOMAIN ls |-> ls[k].discount]

\* Fault: the bound is checked line by line only.
EachLineWithinPaid(paid, given) ==
    \A k \in DOMAIN given : Money(given[k].amount) <= Money(paid)

\* The bound is checked on the rounded sum; each line is rounded by itself
\* when it is stored.
WithinPaid(paid, given) == Money(Total(Amounts(given))) <= Money(paid)

\* Fault: all of the money is also put on account.
AllOnAccount(paid, allocated) == paid

Unallocated(paid, allocated) == paid - allocated

\* create_payment.  The withholding is not looked at: its column refuses a
\* negative value.
Create(type, paid, withholding, given) ==
    LET allocated == Money(Total(Amounts(given))) IN
    /\ state = "absent"
    /\ paid > 0
    /\ \A k \in DOMAIN given : given[k].amount >= 0
    /\ withholding >= 0
    /\ WithinPaid(paid, given)
    /\ state' = "stored"
    /\ entry' = [type |-> type, paid |-> Money(paid), allocated |-> allocated,
                 unallocated |-> Unallocated(Money(paid), allocated),
                 withholding |-> Money(withholding)]
    /\ lines' = [k \in DOMAIN given |->
                    [invoice |-> given[k].invoice,
                     amount |-> Money(given[k].amount), discount |-> 0]]
    /\ UNCHANGED <<terms, journal, mirror>>

-------------------------------------------------------------------------------
\* Fault: the discount is taken on all that is allocated.
TakenUnclamped(amount, t) == Rounded(amount * t.percent, 100)

\* discount_for, on the part of the allocation that the invoice asks for.  The
\* port may answer with anything: an invoice that was paid too much has a basis
\* below zero.
Taken(amount, t) ==
    LET discountable == Min({amount, t.basis})
        rounded == Rounded(discountable * t.percent, 100)
    IN  IF discountable <= 0 \/ t.percent <= 0 THEN 0
                                              ELSE Min({rounded, discountable})

\* The discount port answers for each invoice of an unstamped allocation.
Decided(answer) ==
    [k \in DOMAIN lines |->
        LET l == lines[k] IN
        [l EXCEPT !.discount = Taken(l.amount, answer[l.invoice])]]

\* Fault: a second discount on an account takes the place of the first.
DiscountReplaced(account, ls) ==
    Max({0} \cup {ls[k].discount : k \in
                     {k \in DOMAIN ls : DiscountAccount[ls[k].invoice] = account}})

DiscountOn(account, ls) ==
    Total([k \in DOMAIN ls |->
              IF DiscountAccount[ls[k].invoice] = account
                THEN ls[k].discount ELSE 0])

\* What really moves through the bank.
BankMove(e, ls) == e.paid - e.withholding - Total(Discounts(ls))

\* A side with one leg.
Leg(account, amount) ==
    [a \in Accounts |-> IF a = account THEN amount ELSE 0]

\* Bank, withholding and discounts; legs on one account add up.
Parts(e, ls) ==
    [a \in Accounts |-> Leg("bank", BankMove(e, ls))[a]
                        + Leg("withholding", e.withholding)[a]
                        + DiscountOn(a, ls)]

\* assemble_settlement_post.  The control account is cleared at gross; what it
\* is made of stands on the other side.
Assembled(e, ls) ==
    LET gross == Leg("control", e.paid) IN
    IF e.type = "receive" THEN [debit |-> Parts(e, ls), credit |-> gross]
                          ELSE [debit |-> gross, credit |-> Parts(e, ls)]

SumOver(side) == SumOn(side, Accounts)

\* The envelope's own check, in the shared GL crate.
IsBalanced(env) == SumOver(env.debit) = SumOver(env.credit)

\* Everything else is refused as UnbalancedPost, and nothing changes.  (A
\* withholding without an account is refused too: here it always has one.)
Postable(e, ls) == BankMove(e, ls) >= 0 /\ IsBalanced(Assembled(e, ls))

\* Fault: the decision reaches the ledger but not the allocation rows.
StampForgotten(decided) == lines

\* stamp_discount on each allocation.
Stamped(decided) == decided

\* post_payment, up to its commit; the interleavings are PaymentLifecycle's.
Post(answer) ==
    LET decided == Decided(answer) IN
    /\ state = "stored"
    /\ Postable(entry, decided)
    /\ state' = "posted"
    /\ terms' = answer
    /\ lines' = Stamped(decided)
    /\ journal' = Assembled(entry, decided)
    /\ UNCHANGED <<entry, mirror>>

\* build_reversal_post: the envelope is assembled again, from the entry and
\* the stamps, and its sides are swapped.
Reverse ==
    LET again == Assembled(entry, lines) IN
    /\ state = "posted"
    /\ Postable(entry, lines)
    /\ state' = "reversed"
    /\ mirror' = [debit |-> again.credit, credit |-> again.debit]
    /\ UNCHANGED <<entry, lines, terms, journal>>

Given == [invoice : Invoices, amount : Inputs]

Next ==
    \/ \E type \in Types, paid \in Inputs, withholding \in Inputs :
       \E n \in 0..MaxLines : \E given \in [1..n -> Given] :
          Create(type, paid, withholding, given)
    \/ \E answer \in [Invoices -> Terms] : Post(answer)
    \/ Reverse

Spec == Init /\ [][Next]_moneyVars
-------------------------------------------------------------------------------
TypeOK ==
    /\ state \in {"absent", "stored", "posted", "reversed"}
    /\ entry \in [type : Types, paid : Nat, allocated : Nat, unallocated : Nat,
                  withholding : Nat]
    /\ lines \in Seq([invoice : Invoices, amount : Nat, discount : Nat])
    /\ terms \in [Invoices -> Terms]
    /\ journal \in [debit : [Accounts -> Nat], credit : [Accounts -> Nat]]
    /\ mirror \in [debit : [Accounts -> Nat], credit : [Accounts -> Nat]]

Posted == state \in {"posted", "reversed"}
Net(a) == journal.debit[a] - journal.credit[a]

\* The most that terms are worth.
Worth(t) == IF t.percent > 0 /\ t.basis > 0
              THEN Rounded(t.basis * t.percent, 100) ELSE 0

\* Callers give whole cents.
WholeCentInputs == \A x \in Inputs : x % 10 = 0

\* What rounding line by line may move the allocations' sum by, in half cents.
Slack == IF WholeCentInputs THEN 0 ELSE Len(lines)

\* The payment-local invariant of create_payment, on what is stored: "you
\* cannot allocate more money than moved".  To the cent when callers give whole
\* cents, and else but for half a cent on each allocation, since the bound is
\* on the rounded sum and every line is rounded by itself.
AllocationsWithinPaid == 2 * Total(Amounts(lines)) <= 2 * entry.paid + Slack

\* What the settlement event tells billing (the gross knock-offs, and the rest
\* on account) is what the journal clears on the control account, whatever was
\* withheld or discounted: to the cent when callers give whole cents, and else
\* within half a cent for each allocation.
AnnouncedIsBooked ==
    Posted =>
        LET announced == Total(Amounts(lines)) + entry.unallocated
            cleared == IF entry.type = "receive" THEN -Net("control")
                                                 ELSE Net("control")
        IN  /\ 2 * announced <= 2 * cleared + Slack
            /\ 2 * cleared <= 2 * announced + Slack

\* A discount is worth at most the terms on its own allocation: neither more
\* than the allocation nor more than the percentage of what the invoice asks,
\* and nothing where the invoice asks for nothing.
EachDiscountWithinTerms ==
    \A k \in DOMAIN lines :
        /\ lines[k].discount <= lines[k].amount
        /\ lines[k].discount <= Worth(terms[lines[k].invoice])

\* The legs, discounts grouped by account, always add up: the envelope's own
\* check never refuses a stored payment, only a bank leg below zero does.
AssemblyBalances ==
    state = "stored" =>
        \A answer \in [Invoices -> Terms] :
            IsBalanced(Assembled(entry, Decided(answer)))

\* A reversed payment leaves nothing on any account, though the mirror is not
\* copied from the journal but assembled again from the rows.
ReversalClearsTheBooks ==
    state = "reversed" =>
        \A a \in Accounts :
            /\ mirror.debit[a] = journal.credit[a]
            /\ mirror.credit[a] = journal.debit[a]

-------------------------------------------------------------------------------
\* payment_settle.rs: "the cumulative take can never exceed percent x
\* outstanding-at-resolve", over the allocations to one invoice.
TakeWithinTerms ==
    \A i \in Invoices :
        Total([k \in DOMAIN lines |->
                  IF lines[k].invoice = i THEN lines[k].discount ELSE 0])
            <= Worth(terms[i])
===============================================================================
