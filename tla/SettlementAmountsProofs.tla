------------------------ MODULE SettlementAmountsProofs ------------------------
(***************************************************************************)
(* What SettlementAmounts guarantees for any amounts, terms, invoices and  *)
(* discount accounts, and for payments with any number of allocations.     *)
(***************************************************************************)
EXTENDS SettlementAmounts, SumsProofs

-------------------------------------------------------------------------------
\* Rounding to cents is within half a cent, and exact on whole cents.
LEMMA MoneyBounds ==
    ASSUME NEW n \in Int
    PROVE  /\ Money(n) \in Int
           /\ 10 * Money(n) <= n + 5
           /\ 10 * Money(n) >= n - 4
           /\ n >= 0 => Money(n) \in Nat
           /\ n % 10 = 0 => 10 * Money(n) = n
BY DEF Money, Rounded

\* The same of percentages.
LEMMA HundredthBounds ==
    ASSUME NEW n \in Int
    PROVE  /\ Rounded(n, 100) \in Int
           /\ n >= 0 => Rounded(n, 100) \in Nat
BY DEF Rounded

\* Rounding keeps the order.
LEMMA HundredthMonotone ==
    ASSUME NEW m \in Int, NEW n \in Int, m <= n
    PROVE  Rounded(m, 100) <= Rounded(n, 100)
BY DEF Rounded

\* The smaller of two.
LEMMA MinOfTwo ==
    ASSUME NEW a \in Int, NEW b \in Int
    PROVE  Min({a, b}) = IF a <= b THEN a ELSE b
BY DEF Min

\* A larger base is worth at least as much at the same percentage.
LEMMA Scaled ==
    ASSUME NEW a \in Nat, NEW b \in Nat, NEW p \in Nat, a <= b
    PROVE  a * p \in Nat /\ b * p \in Nat /\ a * p <= b * p
OBVIOUS

AnyTerms == [percent : Int, basis : Int]

\* A discount is at most its allocation and at most what the terms are worth.
LEMMA TakenBounds ==
    ASSUME NEW amount \in Nat, NEW t \in AnyTerms
    PROVE  /\ Taken(amount, t) \in Nat
           /\ Taken(amount, t) <= amount
           /\ Worth(t) \in Nat
           /\ Taken(amount, t) <= Worth(t)
<1> DEFINE part == Min({amount, t.basis})
<1> t.percent \in Int /\ t.basis \in Int
  BY DEF AnyTerms
<1>1. part \in Int /\ part <= amount /\ part <= t.basis
  BY MinOfTwo
<1>2. CASE part <= 0 \/ t.percent <= 0
  <2>1. Taken(amount, t) = 0
    BY <1>2 DEF Taken
  <2>2. Worth(t) \in Nat
    <3>1. CASE t.percent > 0 /\ t.basis > 0
      <4>1. t.basis * t.percent \in Nat
        BY <3>1, Scaled
      <4> QED
        BY <3>1, <4>1, HundredthBounds DEF Worth
    <3>2. CASE ~(t.percent > 0 /\ t.basis > 0)
      BY <3>2 DEF Worth
    <3> QED
      BY <3>1, <3>2
  <2> QED
    BY <2>1, <2>2
<1>3. CASE part > 0 /\ t.percent > 0
  <2> HIDE DEF part
  <2>1. part \in Nat /\ t.percent \in Nat /\ t.basis \in Nat /\ t.basis > 0
    BY <1>1, <1>3
  <2>2. /\ part * t.percent \in Nat
        /\ t.basis * t.percent \in Nat
        /\ part * t.percent <= t.basis * t.percent
    BY <1>1, <2>1, Scaled
  <2> DEFINE some == Rounded(part * t.percent, 100)
             all == Rounded(t.basis * t.percent, 100)
  <2>3. some \in Nat /\ all \in Nat /\ some <= all
    BY <2>2, HundredthBounds, HundredthMonotone
  <2>4. Taken(amount, t) = Min({some, part})
    BY <1>3, <2>1 DEF Taken, part
  <2>5. Worth(t) = all
    BY <1>3, <2>1 DEF Worth
  <2> HIDE DEF some, all
  <2> QED
    BY <1>1, <2>1, <2>3, <2>4, <2>5, MinOfTwo
<1> QED
  BY <1>1, <1>2, <1>3

-------------------------------------------------------------------------------
Row == [invoice : Invoices, amount : Nat, discount : Nat]

\* The allocations are finitely many.
LEMMA Finite ==
    ASSUME NEW ls \in Seq(Row)
    PROVE  /\ Len(ls) \in Nat
           /\ DOMAIN ls = 1..Len(ls)
           /\ IsFiniteSet(DOMAIN ls)
           /\ Cardinality(DOMAIN ls) = Len(ls)
           /\ \A k \in DOMAIN ls : ls[k] \in Row
<1>1. Len(ls) \in Nat /\ DOMAIN ls = 1..Len(ls) /\ \A k \in 1..Len(ls) : ls[k] \in Row
  OBVIOUS
<1>2. \A n \in Nat : IsFiniteSet(1..n) /\ Cardinality(1..n) = n
  <2> TAKE n \in Nat
  <2>1. Cardinality(1..n) = IF 1 > n THEN 0 ELSE n - 1 + 1
    BY FS_Interval
  <2>2. IsFiniteSet(1..n)
    BY FS_Interval
  <2> QED
    BY <2>1, <2>2
<1> QED
  BY <1>1, <1>2

\* So are the accounts.
LEMMA AccountsFinite == IsFiniteSet(Accounts)
<1> DEFINE booked == {DiscountAccount[i] : i \in Invoices}
           f == [i \in Invoices |-> DiscountAccount[i]]
<1>1. f \in Surjection(Invoices, booked)
  BY DEF Surjection
<1>2. IsFiniteSet(booked)
  <2> HIDE DEF f, booked
  <2> QED
    BY <1>1, InvoicesAssumption, FS_Surjection
<1>3. IsFiniteSet({"bank", "control", "withholding"})
  <2>1. IsFiniteSet({"bank"} \cup {"control"})
    BY FS_Singleton, FS_AddElement
  <2>2. IsFiniteSet(({"bank"} \cup {"control"}) \cup {"withholding"})
    BY <2>1, FS_AddElement
  <2>3. ({"bank"} \cup {"control"}) \cup {"withholding"} = {"bank", "control", "withholding"}
    OBVIOUS
  <2> QED
    BY <2>2, <2>3
<1> HIDE DEF booked
<1>4. IsFiniteSet({"bank", "control", "withholding"} \cup booked)
  BY <1>2, <1>3, FS_Union
<1> QED
  BY <1>4 DEF Accounts, booked

\* What the columns of well-formed allocations add up to.
LEMMA ColumnSums ==
    ASSUME NEW ls \in Seq(Row)
    PROVE  Total(Amounts(ls)) \in Nat /\ Total(Discounts(ls)) \in Nat
<1>1. /\ DOMAIN Amounts(ls) = DOMAIN ls /\ DOMAIN Discounts(ls) = DOMAIN ls
      /\ \A k \in DOMAIN ls : Amounts(ls)[k] \in Nat /\ Discounts(ls)[k] \in Nat
  BY Finite DEF Amounts, Discounts, Row
<1>2. SumOn(Amounts(ls), DOMAIN ls) \in Nat /\ SumOn(Discounts(ls), DOMAIN ls) \in Nat
  BY <1>1, Finite, SumNat
<1> QED
  BY <1>1, <1>2 DEF Total

\* Rounding each of n amounts changes their sum by at most half a cent each,
\* and not at all when they are whole cents.
LEMMA RoundedSums ==
    ASSUME NEW S, IsFiniteSet(S), NEW ticks, NEW cents,
           \A k \in S : ticks[k] \in Nat /\ cents[k] = Money(ticks[k])
    PROVE  /\ SumOn(ticks, S) \in Nat
           /\ SumOn(cents, S) \in Nat
           /\ 10 * SumOn(cents, S) <= SumOn(ticks, S) + 5 * Cardinality(S)
           /\ 10 * SumOn(cents, S) >= SumOn(ticks, S) - 4 * Cardinality(S)
           /\ (\A k \in S : ticks[k] % 10 = 0) =>
                 10 * SumOn(cents, S) = SumOn(ticks, S)
<1> DEFINE C(T) == SumOn(cents, T)
           K(T) == SumOn(ticks, T)
           N(T) == Cardinality(T)
           Good(T) == /\ 10 * C(T) <= K(T) + 5 * N(T)
                      /\ 10 * C(T) >= K(T) - 4 * N(T)
                      /\ (\A k \in S : ticks[k] % 10 = 0) => 10 * C(T) = K(T)
           G == {T \in SUBSET S : Good(T)}
<1>1. \A k \in S : /\ ticks[k] \in Nat
                   /\ cents[k] \in Nat
                   /\ 10 * cents[k] <= ticks[k] + 5
                   /\ 10 * cents[k] >= ticks[k] - 4
                   /\ ticks[k] % 10 = 0 => 10 * cents[k] = ticks[k]
  <2> TAKE k \in S
  <2> DEFINE n == ticks[k]
  <2>1. n \in Nat /\ n \in Int /\ n >= 0 /\ cents[k] = Money(n)
    OBVIOUS
  <2> HIDE DEF n
  <2>2. /\ Money(n) \in Nat /\ 10 * Money(n) <= n + 5 /\ 10 * Money(n) >= n - 4
        /\ n % 10 = 0 => 10 * Money(n) = n
    BY <2>1, MoneyBounds
  <2> QED
    BY <2>1, <2>2 DEF n
<1>2. \A T \in SUBSET S : C(T) \in Nat /\ K(T) \in Nat /\ N(T) \in Nat
  <2> TAKE T \in SUBSET S
  <2>1. IsFiniteSet(T)
    BY FS_Subset
  <2> QED
    BY <1>1, <2>1, SumNat, FS_CardinalityType
<1>3. {} \in G
  BY SumEmpty, FS_EmptySet
<1>4. ASSUME NEW T \in SUBSET S, NEW x \in S, x \in T, T \ {x} \in G
      PROVE  T \in G
  <2> DEFINE U == T \ {x}
  <2>1. IsFiniteSet(T)
    BY FS_Subset
  <2>2. \A k \in T : cents[k] \in Int /\ ticks[k] \in Int
    BY <1>1
  <2>3. C(T) = cents[x] + C(U) /\ K(T) = ticks[x] + K(U)
    BY <1>4, <2>1, <2>2, SumRemove
  <2>4. N(U) = N(T) - 1
    BY <1>4, <2>1, FS_RemoveElement
  <2>5. Good(U)
    BY <1>4
  <2>6. C(U) \in Nat /\ K(U) \in Nat /\ N(U) \in Nat /\ N(T) \in Nat
    BY <1>2
  <2> HIDE DEF U, C, K, N
  <2>7. Good(T)
    BY <1>1, <2>3, <2>4, <2>5, <2>6
  <2> QED
    BY <2>7
<1>5. S \in G
  <2> HIDE DEF G
  <2> QED
    BY <1>3, <1>4, SetInduction
<1> QED
  BY <1>2, <1>5

-------------------------------------------------------------------------------
Amount == [type : Types, paid : Nat, allocated : Nat, unallocated : Nat,
           withholding : Nat]

\* Where the discount of each allocation is booked.
BookedOn(ls) == [k \in DOMAIN ls |-> DiscountAccount[ls[k].invoice]]

\* The discounts on an account are those of the allocations booked there.
LEMMA DiscountsGrouped ==
    ASSUME NEW ls \in Seq(Row), NEW a
    PROVE  /\ DiscountOn(a, ls) =
                SumOn(Group(Discounts(ls), BookedOn(ls), DOMAIN ls, a), DOMAIN ls)
           /\ DiscountOn(a, ls) \in Nat
<1> DEFINE part == [k \in DOMAIN ls |->
                       IF DiscountAccount[ls[k].invoice] = a
                         THEN ls[k].discount ELSE 0]
<1>1. part = Group(Discounts(ls), BookedOn(ls), DOMAIN ls, a)
  BY DEF Group, Discounts, BookedOn
<1>2. DiscountOn(a, ls) = SumOn(part, DOMAIN ls)
  BY DEF DiscountOn, Total
<1>3. \A k \in DOMAIN ls : part[k] \in Nat
  BY Finite DEF Row
<1> HIDE DEF part
<1>4. SumOn(part, DOMAIN ls) \in Nat
  BY <1>3, Finite, SumNat
<1> QED
  BY <1>1, <1>2, <1>4

\* Over all accounts they are the discounts of all allocations.
LEMMA DiscountsAddUp ==
    ASSUME NEW ls \in Seq(Row)
    PROVE  SumOn([a \in Accounts |-> DiscountOn(a, ls)], Accounts) =
           Total(Discounts(ls))
<1> DEFINE on == [a \in Accounts |-> DiscountOn(a, ls)]
           D == DOMAIN ls
           d == Discounts(ls)
           h == BookedOn(ls)
<1>1. \A k \in D : d[k] \in Int /\ h[k] \in Accounts
  <2> TAKE k \in D
  <2>1. ls[k].invoice \in Invoices /\ ls[k].discount \in Nat
    BY Finite DEF Row
  <2>2. d[k] = ls[k].discount /\ h[k] = DiscountAccount[ls[k].invoice]
    BY DEF Discounts, BookedOn
  <2> QED
    BY <2>1, <2>2 DEF Accounts
<1>2. \A a \in Accounts : on[a] = SumOn(Group(d, h, D, a), D)
  BY DiscountsGrouped
<1>3. IsFiniteSet(D)
  BY Finite
<1>4. SumOn(on, Accounts) = SumOn(d, D)
  <2> HIDE DEF on, D, d, h
  <2> QED
    BY <1>1, <1>2, <1>3, AccountsFinite, SumGrouped
<1>5. DOMAIN d = D
  BY DEF Discounts
<1> QED
  BY <1>4, <1>5 DEF Total

\* A side with one leg adds up to its amount.
LEMMA LegSum ==
    ASSUME NEW account \in Accounts, NEW amount \in Int
    PROVE  SumOn(Leg(account, amount), Accounts) = amount
<1>1. /\ Leg(account, amount)[account] = amount
      /\ \A a \in Accounts : a # account => Leg(account, amount)[a] = 0
  BY DEF Leg
<1> QED
  BY <1>1, AccountsFinite, SumSingle

\* Bank, withholding and discounts add up to what was paid.
LEMMA PartsSum ==
    ASSUME NEW e \in Amount, NEW ls \in Seq(Row)
    PROVE  SumOn(Parts(e, ls), Accounts) = e.paid
<1> DEFINE bank == Leg("bank", BankMove(e, ls))
           held == Leg("withholding", e.withholding)
           on == [a \in Accounts |-> DiscountOn(a, ls)]
           both == [a \in Accounts |-> bank[a] + held[a]]
           move == BankMove(e, ls)
<1>1. e.paid \in Nat /\ e.withholding \in Nat /\ Total(Discounts(ls)) \in Nat
  BY ColumnSums DEF Amount
<1>2. move \in Int /\ move + e.withholding + Total(Discounts(ls)) = e.paid
  BY <1>1 DEF BankMove
<1>3. \A a \in Accounts : bank[a] \in Int /\ held[a] \in Int /\ on[a] \in Int
  BY <1>1, <1>2, DiscountsGrouped DEF Leg
<1>4. \A a \in Accounts : both[a] = bank[a] + held[a] /\ both[a] \in Int
  BY <1>3
<1>5. \A a \in Accounts : Parts(e, ls)[a] = both[a] + on[a]
  BY DEF Parts
<1>6. SumOn(bank, Accounts) = move /\ SumOn(held, Accounts) = e.withholding
  BY <1>1, <1>2, LegSum DEF Accounts
<1>7. SumOn(on, Accounts) = Total(Discounts(ls))
  BY DiscountsAddUp
<1> HIDE DEF bank, held, on, both, move
<1>8. SumOn(both, Accounts) = SumOn(bank, Accounts) + SumOn(held, Accounts)
  BY <1>3, <1>4, AccountsFinite, SumAdd
<1>9. SumOn(Parts(e, ls), Accounts) = SumOn(both, Accounts) + SumOn(on, Accounts)
  BY <1>3, <1>4, <1>5, AccountsFinite, SumAdd
<1> QED
  BY <1>1, <1>2, <1>6, <1>7, <1>8, <1>9

\* Every envelope that is assembled balances, whatever the terms, and even if
\* one account is used for more than one leg.
LEMMA AssembledBalances ==
    ASSUME NEW e \in Amount, NEW ls \in Seq(Row)
    PROVE  IsBalanced(Assembled(e, ls))
<1>1. e.paid \in Int /\ e.type \in Types
  BY DEF Amount
<1>2. SumOn(Leg("control", e.paid), Accounts) = e.paid
  BY <1>1, LegSum DEF Accounts
<1>3. SumOn(Parts(e, ls), Accounts) = e.paid
  BY PartsSum
<1> QED
  BY <1>1, <1>2, <1>3 DEF IsBalanced, SumOver, Assembled, Types

-------------------------------------------------------------------------------
\* No discount is booked on the account that the payment clears.
DiscountsOffControl == \A i \in Invoices : DiscountAccount[i] # "control"

\* The stored allocations add up to the entry's allocated amount, give or take
\* half a cent for each.
AllocatedNearLines ==
    /\ 2 * Total(Amounts(lines)) <= 2 * entry.allocated + Len(lines)
    /\ 2 * entry.allocated <= 2 * Total(Amounts(lines)) + Len(lines)

Inv ==
    /\ TypeOK
    /\ entry.allocated + entry.unallocated = entry.paid
    /\ AllocatedNearLines
    /\ WholeCentInputs => Total(Amounts(lines)) = entry.allocated
    /\ EachDiscountWithinTerms
    /\ Posted => journal = Assembled(entry, lines)
    /\ state = "reversed" =>
          mirror = [debit |-> journal.credit, credit |-> journal.debit]

\* Terms are numbers.
LEMMA TermsTyped == Terms \subseteq AnyTerms
<1> SUFFICES ASSUME NEW t \in Terms PROVE t \in AnyTerms
  OBVIOUS
<1>1. CASE t = NoTerms
  BY <1>1 DEF NoTerms, AnyTerms
<1>2. CASE t \in [percent : Percents, basis : Bases]
  BY <1>2, TermsAssumption DEF AnyTerms
<1> QED
  BY <1>1, <1>2 DEF Terms

\* Nothing is stored at first.
LEMMA InvInit == Init => Inv
<1> SUFFICES ASSUME Init PROVE Inv
  OBVIOUS
<1> USE DEF Init
<1>1. /\ Len(lines) = 0 /\ DOMAIN lines = {} /\ DOMAIN Amounts(lines) = {}
      /\ lines \in Seq(Row)
  BY DEF Amounts
<1>2. Total(Amounts(lines)) = 0
  BY <1>1, SumEmpty DEF Total
<1>3. TypeOK
  BY <1>1 DEF TypeOK, NoEntry, Types, Terms, NoTerms, NoPost, Row
<1> QED
  BY <1>1, <1>2, <1>3 DEF Inv, NoEntry, AllocatedNearLines,
     EachDiscountWithinTerms, Posted

\* What create_payment stores is in cents, covered by the payment, and adds up
\* but for the rounding.
LEMMA CreateStep ==
    ASSUME Inv, NEW type \in Types, NEW paid \in Inputs, NEW withholding \in Inputs,
           NEW n \in 0..MaxLines, NEW given \in [1..n -> Given],
           Create(type, paid, withholding, given)
    PROVE  Inv'
<1> DEFINE D == 1..n
           ticks == Amounts(given)
           cents == Amounts(lines')
           sum == SumOn(ticks, D)
           stored == SumOn(cents, D)
<1>1. n \in Nat /\ DOMAIN given = D /\ IsFiniteSet(D) /\ Cardinality(D) = n
  <2>1. n \in Nat
    BY InputsAssumption
  <2>2. IsFiniteSet(D) /\ Cardinality(D) = IF 1 > n THEN 0 ELSE n - 1 + 1
    BY <2>1, FS_Interval
  <2> QED
    BY <2>1, <2>2
<1>2. \A k \in D : /\ given[k].amount \in Nat /\ given[k].amount \in Inputs
                   /\ given[k].invoice \in Invoices
  <2> TAKE k \in D
  <2>1. given[k].invoice \in Invoices /\ given[k].amount \in Inputs
    BY DEF Given
  <2>2. given[k].amount >= 0
    BY <1>1 DEF Create
  <2> DEFINE t == given[k].amount
  <2>3. t \in Int /\ t >= 0
    BY <2>1, <2>2, InputsAssumption
  <2> HIDE DEF t
  <2>4. t \in Nat
    BY <2>3
  <2> QED
    BY <2>1, <2>4 DEF t
<1>3. \A k \in D : /\ ticks[k] = given[k].amount
                   /\ Money(ticks[k]) \in Nat
                   /\ lines'[k] = [invoice |-> given[k].invoice,
                                   amount |-> Money(ticks[k]), discount |-> 0]
                   /\ cents[k] = Money(ticks[k])
  <2> TAKE k \in D
  <2>1. ticks[k] = given[k].amount
    BY <1>1 DEF Amounts
  <2>2. /\ k \in DOMAIN lines'
        /\ lines'[k] = [invoice |-> given[k].invoice,
                        amount |-> Money(given[k].amount), discount |-> 0]
    BY <1>1 DEF Create
  <2>3. cents[k] = lines'[k].amount
    BY <2>2 DEF Amounts
  <2> DEFINE t == given[k].amount
  <2>4. t \in Int /\ t >= 0
    BY <1>2
  <2>5. Money(t) \in Nat
    <3> HIDE DEF t
    <3> QED
      BY <2>4, MoneyBounds
  <2> QED
    BY <2>1, <2>2, <2>3, <2>5
<1>4. /\ DOMAIN ticks = D /\ DOMAIN lines' = D /\ DOMAIN cents = D
      /\ lines' \in [D -> Row]
  <2>1. \A k \in D : lines'[k] \in Row
    <3> TAKE k \in D
    <3> DEFINE m == Money(ticks[k])
    <3>1. /\ m \in Nat /\ given[k].invoice \in Invoices
          /\ lines'[k] = [invoice |-> given[k].invoice, amount |-> m, discount |-> 0]
      BY <1>2, <1>3
    <3> HIDE DEF m
    <3> QED
      BY <3>1 DEF Row
  <2>2. lines' = [k \in D |-> lines'[k]]
    BY <1>1 DEF Create
  <2>3. DOMAIN ticks = D /\ DOMAIN cents = D
    BY <1>1, <2>2 DEF Amounts
  <2> HIDE DEF D
  <2> QED
    BY <2>1, <2>2, <2>3
<1>5. lines' \in Seq(Row) /\ Len(lines') = n
  <2> HIDE DEF D
  <2> QED
    BY <1>1, <1>4 DEF D
<1>6. /\ sum \in Nat /\ stored \in Nat
      /\ 10 * stored <= sum + 5 * n
      /\ 10 * stored >= sum - 4 * n
      /\ (\A k \in D : ticks[k] % 10 = 0) => 10 * stored = sum
      /\ n = 0 => sum = 0 /\ stored = 0
  <2>1. n = 0 => D = {}
    OBVIOUS
  <2>2. \A k \in D : ticks[k] \in Nat /\ cents[k] = Money(ticks[k])
    BY <1>2, <1>3
  <2> HIDE DEF D, ticks, cents
  <2> QED
    BY <1>1, <2>1, <2>2, RoundedSums, SumEmpty
<1>7. WholeCentInputs => \A k \in D : ticks[k] % 10 = 0
  BY <1>2, <1>3 DEF WholeCentInputs
<1>8. Total(ticks) = sum /\ Total(cents) = stored
  BY <1>4 DEF Total
<1>9. paid \in Int /\ withholding \in Int /\ Money(paid) \in Nat
      /\ Money(withholding) \in Nat
  BY InputsAssumption, MoneyBounds DEF Create
<1>10. /\ entry' = [type |-> type, paid |-> Money(paid), allocated |-> Money(sum),
                    unallocated |-> Money(paid) - Money(sum),
                    withholding |-> Money(withholding)]
       /\ Money(sum) <= Money(paid)
       /\ state' = "stored"
       /\ UNCHANGED <<terms, journal, mirror>>
  BY <1>8 DEF Create, WithinPaid, Unallocated
<1>11. /\ Money(sum) \in Nat /\ 10 * Money(sum) <= sum + 5
       /\ 10 * Money(sum) >= sum - 4
       /\ sum % 10 = 0 => 10 * Money(sum) = sum
  <2>1. sum \in Int /\ sum >= 0
    BY <1>6
  <2> HIDE DEF sum
  <2> QED
    BY <2>1, MoneyBounds
<1>12. entry' \in Amount /\ entry'.paid = Money(paid) /\ entry'.allocated = Money(sum)
       /\ entry'.unallocated = Money(paid) - Money(sum)
  <2> DEFINE all == Money(sum)
             p == Money(paid)
             w == Money(withholding)
  <2> HIDE DEF all, p, w
  <2>1. /\ all \in Nat /\ p \in Nat /\ w \in Nat /\ all <= p
        /\ entry' = [type |-> type, paid |-> p, allocated |-> all,
                     unallocated |-> p - all, withholding |-> w]
    BY <1>9, <1>10, <1>11 DEF all, p, w
  <2>2. p - all \in Nat
    BY <2>1
  <2> QED
    BY <2>1, <2>2 DEF Amount, all, p
<1>13. TypeOK'
  BY <1>5, <1>10, <1>12 DEF Inv, TypeOK, Row, Amount
<1>14. AllocatedNearLines'
  <2> DEFINE all == Money(sum)
  <2>1. 2 * stored <= 2 * all + n /\ 2 * all <= 2 * stored + n
    <3> HIDE DEF sum, stored, all
    <3> QED
      BY <1>1, <1>6, <1>11 DEF all
  <2> HIDE DEF stored, sum, cents
  <2> QED
    BY <1>5, <1>8, <1>12, <2>1 DEF AllocatedNearLines, cents
<1>15. WholeCentInputs => Total(Amounts(lines')) = entry'.allocated
  <2> SUFFICES ASSUME WholeCentInputs PROVE stored = Money(sum)
    BY <1>8, <1>12
  <2>1. 10 * stored = sum
    BY <1>6, <1>7
  <2> HIDE DEF stored, sum
  <2>2. sum % 10 = 0
    BY <1>6, <2>1
  <2> QED
    BY <1>6, <1>11, <2>1, <2>2
<1>16. EachDiscountWithinTerms'
  <2> SUFFICES ASSUME NEW k \in DOMAIN lines'
               PROVE  /\ lines'[k].discount <= lines'[k].amount
                      /\ lines'[k].discount <= Worth(terms'[lines'[k].invoice])
    BY DEF EachDiscountWithinTerms, Worth
  <2>1. /\ lines'[k].discount = 0 /\ lines'[k].amount \in Nat
        /\ lines'[k].invoice \in Invoices
    BY <1>2, <1>3, <1>4
  <2>2. terms'[lines'[k].invoice] \in AnyTerms
    BY <2>1, <1>10, TermsTyped DEF Inv, TypeOK
  <2>3. Worth(terms'[lines'[k].invoice]) \in Nat
    BY <2>2, TakenBounds
  <2> QED
    BY <2>1, <2>3
<1> QED
  BY <1>10, <1>11, <1>12, <1>13, <1>14, <1>15, <1>16, <1>9 DEF Inv, Posted

Sides == [debit : [Accounts -> Nat], credit : [Accounts -> Nat]]

\* An envelope whose bank leg is not below zero has no leg below zero.
LEMMA AssembledTyped ==
    ASSUME NEW e \in Amount, NEW ls \in Seq(Row), BankMove(e, ls) >= 0
    PROVE  Assembled(e, ls) \in Sides
<1>1. e.paid \in Nat /\ e.withholding \in Nat /\ e.type \in Types
  BY DEF Amount
<1>2. BankMove(e, ls) \in Nat
  <2>1. BankMove(e, ls) \in Int
    BY <1>1, ColumnSums DEF BankMove
  <2> QED
    BY <2>1
<1>3. Leg("control", e.paid) \in [Accounts -> Nat]
  BY <1>1 DEF Leg
<1>4. Parts(e, ls) \in [Accounts -> Nat]
  <2>1. \A a \in Accounts : /\ Leg("bank", BankMove(e, ls))[a] \in Nat
                            /\ Leg("withholding", e.withholding)[a] \in Nat
                            /\ DiscountOn(a, ls) \in Nat
    BY <1>1, <1>2, DiscountsGrouped DEF Leg
  <2> QED
    BY <2>1 DEF Parts
<1> QED
  BY <1>1, <1>3, <1>4 DEF Assembled, Types, Sides

\* A decision changes nothing of the allocations but their discounts, which
\* stay within the terms.
LEMMA DecidedStamps ==
    ASSUME lines \in Seq(Row), NEW answer \in [Invoices -> Terms]
    PROVE  /\ Decided(answer) \in Seq(Row)
           /\ Len(Decided(answer)) = Len(lines)
           /\ Amounts(Decided(answer)) = Amounts(lines)
           /\ \A k \in DOMAIN Decided(answer) :
                 LET l == Decided(answer)[k] IN
                 l.discount <= l.amount /\ l.discount <= Worth(answer[l.invoice])
<1> DEFINE D == DOMAIN lines
           new == Decided(answer)
<1>1. /\ Len(lines) \in Nat /\ D = 1..Len(lines)
      /\ \A k \in D : lines[k] \in Row
  BY Finite
<1>2. new = [k \in D |-> new[k]] /\ DOMAIN new = D
  BY DEF Decided
<1>3. ASSUME NEW k \in D
      PROVE  /\ new[k] \in Row
             /\ new[k].amount = lines[k].amount
             /\ new[k].discount <= new[k].amount
             /\ new[k].discount <= Worth(answer[new[k].invoice])
  <2> DEFINE l == lines[k]
             t == answer[l.invoice]
             d == Taken(l.amount, t)
  <2>1. l \in Row
    BY <1>1
  <2>2. l.amount \in Nat /\ l.invoice \in Invoices /\ t \in AnyTerms
    BY <2>1, TermsTyped DEF Row
  <2>3. d \in Nat /\ d <= l.amount /\ d <= Worth(t)
    <3> DEFINE a == l.amount
    <3>1. a \in Nat
      BY <2>2
    <3> HIDE DEF t, a
    <3>2. Taken(a, t) \in Nat /\ Taken(a, t) <= a /\ Taken(a, t) <= Worth(t)
      BY <2>2, <3>1, TakenBounds
    <3> QED
      BY <3>2 DEF a
  <2>4. new[k] = [l EXCEPT !.discount = d]
    BY DEF Decided
  <2> HIDE DEF d, l, new
  <2>5. new[k] \in Row /\ new[k].amount = l.amount /\ new[k].invoice = l.invoice
        /\ new[k].discount = d
    BY <2>1, <2>3, <2>4 DEF Row
  <2> QED
    BY <2>3, <2>5 DEF l
<1>4. new \in Seq(Row) /\ Len(new) = Len(lines)
  <2>1. new \in [1..Len(lines) -> Row]
    BY <1>1, <1>2, <1>3
  <2> HIDE DEF new
  <2> QED
    BY <1>1, <1>2, <2>1
<1>5. Amounts(new) = Amounts(lines)
  <2> HIDE DEF new
  <2> QED
    BY <1>2, <1>3 DEF Amounts
<1> QED
  BY <1>2, <1>3, <1>4, <1>5

\* Posting writes an envelope that is typed and stamps what it was made from.
LEMMA PostStep ==
    ASSUME Inv, NEW answer \in [Invoices -> Terms], Post(answer)
    PROVE  Inv'
<1> lines \in Seq(Row) /\ entry \in Amount
  BY DEF Inv, TypeOK, Row, Amount
<1> DEFINE new == Decided(answer)
<1>1. /\ lines' = new /\ terms' = answer /\ state' = "posted"
      /\ journal' = Assembled(entry, new) /\ UNCHANGED <<entry, mirror>>
      /\ BankMove(entry, new) >= 0
  BY DEF Post, Stamped, Postable
<1>2. /\ new \in Seq(Row) /\ Len(new) = Len(lines)
      /\ Amounts(new) = Amounts(lines)
      /\ \A k \in DOMAIN new :
            new[k].discount <= new[k].amount /\
            new[k].discount <= Worth(answer[new[k].invoice])
  BY DecidedStamps
<1> HIDE DEF new
<1>3. journal' \in Sides
  BY <1>1, <1>2, AssembledTyped
<1>4. TypeOK'
  BY <1>1, <1>2, <1>3 DEF Inv, TypeOK, Row, Sides
<1>5. AllocatedNearLines'
  BY <1>1, <1>2 DEF Inv, AllocatedNearLines
<1>6. EachDiscountWithinTerms'
  <2>1. \A k \in DOMAIN lines' :
           /\ lines'[k].discount <= lines'[k].amount
           /\ lines'[k].discount <= Worth(terms'[lines'[k].invoice])
    BY <1>1, <1>2
  <2> QED
    BY <2>1 DEF EachDiscountWithinTerms, Worth
<1>7. journal' = Assembled(entry', lines')
  BY <1>1
<1> QED
  BY <1>1, <1>2, <1>4, <1>5, <1>6, <1>7 DEF Inv, Posted, Assembled

\* Reversing swaps the sides of the envelope that was posted.
LEMMA ReverseStep ==
    ASSUME Inv, Reverse
    PROVE  Inv'
<1>1. /\ UNCHANGED <<entry, lines, terms, journal>>
      /\ state' = "reversed" /\ Posted
      /\ mirror' = [debit |-> Assembled(entry, lines).credit,
                    credit |-> Assembled(entry, lines).debit]
  BY DEF Reverse, Posted
<1>2. journal = Assembled(entry, lines) /\ journal \in Sides
  BY <1>1 DEF Inv, TypeOK, Sides
<1>3. mirror' = [debit |-> journal.credit, credit |-> journal.debit]
      /\ mirror' \in Sides
  BY <1>1, <1>2 DEF Sides
<1>4. TypeOK'
  BY <1>1, <1>3 DEF Inv, TypeOK, Sides
<1>5. AllocatedNearLines' /\ EachDiscountWithinTerms'
  BY <1>1 DEF Inv, AllocatedNearLines, EachDiscountWithinTerms, Worth
<1>6. Assembled(entry, lines)' = Assembled(entry, lines)
  BY <1>1 DEF Assembled, Parts, Leg, BankMove, DiscountOn
<1> QED
  BY <1>1, <1>2, <1>3, <1>4, <1>5, <1>6 DEF Inv

\* Every step keeps the invariant.
LEMMA InvStep == Inv /\ [Next]_moneyVars => Inv'
<1> SUFFICES ASSUME Inv, [Next]_moneyVars PROVE Inv'
  OBVIOUS
<1>1. ASSUME NEW type \in Types, NEW paid \in Inputs, NEW withholding \in Inputs,
             NEW n \in 0..MaxLines, NEW given \in [1..n -> Given],
             Create(type, paid, withholding, given)
      PROVE  Inv'
  BY <1>1, CreateStep
<1>2. ASSUME NEW answer \in [Invoices -> Terms], Post(answer) PROVE Inv'
  BY <1>2, PostStep
<1>3. CASE Reverse
  BY <1>3, ReverseStep
<1>4. CASE UNCHANGED moneyVars
  BY <1>4 DEF moneyVars, Inv, TypeOK, AllocatedNearLines,
     EachDiscountWithinTerms, Worth, Posted, Assembled, Parts, Leg, BankMove, DiscountOn
<1> QED
  BY <1>1, <1>2, <1>3, <1>4 DEF Next

-------------------------------------------------------------------------------
\* The inductive invariant holds.
THEOREM InvHolds == Spec => []Inv
BY InvInit, InvStep, PTL DEF Spec

\* All that is stored and posted is typed: no column and no leg is below zero,
\* whatever callers give and the discount port answers.
THEOREM TypeCorrect == Spec => []TypeOK
<1>1. Inv => TypeOK
  BY DEF Inv
<1> QED
  BY <1>1, InvHolds, PTL

\* No discount exceeds its allocation, nor what its terms are worth, however
\* the percentage, the basis and the roundings fall.
THEOREM DiscountsAreBounded == Spec => []EachDiscountWithinTerms
<1>1. Inv => EachDiscountWithinTerms
  BY DEF Inv
<1> QED
  BY <1>1, InvHolds, PTL

\* The envelope's own check refuses no stored payment: its legs add up for
\* every decision, with any number of allocations and discount accounts.
THEOREM EnvelopesBalance == Spec => []AssemblyBalances
<1>1. Inv => AssemblyBalances
  <2> SUFFICES ASSUME Inv, NEW answer \in [Invoices -> Terms]
               PROVE  IsBalanced(Assembled(entry, Decided(answer)))
    BY DEF AssemblyBalances
  <2>1. entry \in Amount /\ lines \in Seq(Row)
    BY DEF Inv, TypeOK, Amount, Row
  <2>2. Decided(answer) \in Seq(Row)
    BY <2>1, DecidedStamps
  <2> HIDE DEF Inv
  <2> QED
    BY <2>1, <2>2, AssembledBalances
<1> QED
  BY <1>1, InvHolds, PTL

\* A reversal that is assembled again from the rows leaves nothing on any
\* account: the rows still say what was posted.
THEOREM ReversalsClear == Spec => []ReversalClearsTheBooks
<1>1. Inv => ReversalClearsTheBooks
  BY DEF Inv, ReversalClearsTheBooks
<1> QED
  BY <1>1, InvHolds, PTL

\* The stored allocations have a size.
LEMMA LinesTyped ==
    ASSUME TypeOK
    PROVE  /\ Total(Amounts(lines)) \in Nat /\ Len(lines) \in Nat
           /\ entry.paid \in Nat /\ entry.allocated \in Nat
           /\ entry.unallocated \in Nat
<1>1. lines \in Seq(Row)
  BY DEF TypeOK, Row
<1> QED
  BY <1>1, ColumnSums, Finite DEF TypeOK

\* "You cannot allocate more money than moved": not a cent more when callers
\* give whole cents, and at most half a cent more on each allocation otherwise.
THEOREM AllocationsAreCovered == Spec => []AllocationsWithinPaid
<1>1. Inv => AllocationsWithinPaid
  <2> SUFFICES ASSUME Inv
               PROVE  2 * Total(Amounts(lines)) <= 2 * entry.paid + Slack
    BY DEF AllocationsWithinPaid
  <2>1. /\ Total(Amounts(lines)) \in Nat /\ Len(lines) \in Nat
        /\ entry.paid \in Nat /\ entry.allocated \in Nat
        /\ entry.unallocated \in Nat
    BY LinesTyped DEF Inv
  <2>2. /\ entry.allocated + entry.unallocated = entry.paid
        /\ 2 * Total(Amounts(lines)) <= 2 * entry.allocated + Len(lines)
        /\ WholeCentInputs => Total(Amounts(lines)) = entry.allocated
    BY DEF Inv, AllocatedNearLines
  <2> QED
    BY <2>1, <2>2 DEF Slack
<1> QED
  BY <1>1, InvHolds, PTL

\* What the posted journal clears on the control account is the payment.
LEMMA ControlIsCleared ==
    ASSUME Inv, Posted, DiscountsOffControl
    PROVE  Net("control") = IF entry.type = "receive" THEN -entry.paid ELSE entry.paid
<1>1. entry \in Amount /\ lines \in Seq(Row) /\ journal = Assembled(entry, lines)
  BY DEF Inv, TypeOK, Amount, Row
<1>2. \A k \in DOMAIN lines : DiscountAccount[lines[k].invoice] # "control"
  <2> TAKE k \in DOMAIN lines
  <2>1. lines[k] \in Row
    BY <1>1, Finite
  <2> QED
    BY <2>1 DEF Row, DiscountsOffControl
<1>3. DiscountOn("control", lines) = 0
  <2> DEFINE part == [k \in DOMAIN lines |->
                         IF DiscountAccount[lines[k].invoice] = "control"
                           THEN lines[k].discount ELSE 0]
  <2>1. \A k \in DOMAIN lines : part[k] = 0
    BY <1>2
  <2>2. DiscountOn("control", lines) = SumOn(part, DOMAIN lines)
    BY DEF DiscountOn, Total
  <2>3. IsFiniteSet(DOMAIN lines)
    BY <1>1, Finite
  <2> HIDE DEF part
  <2> QED
    BY <2>1, <2>2, <2>3, SumZero
<1>4. "control" \in Accounts
  BY DEF Accounts
<1>5. Parts(entry, lines)["control"] = 0
  BY <1>3, <1>4 DEF Parts, Leg
<1>6. Leg("control", entry.paid)["control"] = entry.paid /\ entry.paid \in Nat
      /\ entry.type \in Types
  BY <1>1, <1>4 DEF Leg, Amount
<1> QED
  BY <1>1, <1>5, <1>6 DEF Net, Assembled, Types

\* The knock-offs and the rest on account that billing is told of are what the
\* journal clears, but for the rounding, when no discount is booked on the
\* account that is cleared.
THEOREM AnnouncementsAreBooked ==
    ASSUME DiscountsOffControl
    PROVE  Spec => []AnnouncedIsBooked
<1>1. Inv => AnnouncedIsBooked
  <2> DEFINE total == Total(Amounts(lines))
             announced == total + entry.unallocated
             cleared == IF entry.type = "receive" THEN -Net("control")
                                                  ELSE Net("control")
  <2> SUFFICES ASSUME Inv, Posted
               PROVE  /\ 2 * announced <= 2 * cleared + Slack
                      /\ 2 * cleared <= 2 * announced + Slack
    BY DEF AnnouncedIsBooked
  <2>1. /\ total \in Nat /\ Len(lines) \in Nat
        /\ entry.paid \in Nat /\ entry.allocated \in Nat
        /\ entry.unallocated \in Nat
    BY LinesTyped DEF Inv
  <2>2. cleared = entry.paid
    BY <2>1, ControlIsCleared
  <2>3. /\ entry.allocated + entry.unallocated = entry.paid
        /\ 2 * total <= 2 * entry.allocated + Len(lines)
        /\ 2 * entry.allocated <= 2 * total + Len(lines)
        /\ WholeCentInputs => total = entry.allocated
    BY DEF Inv, AllocatedNearLines
  <2>4. announced = total + entry.unallocated
    OBVIOUS
  <2> HIDE DEF total, announced, cleared
  <2>5. CASE WholeCentInputs
    <3>1. announced = cleared /\ Slack = 0 /\ cleared \in Nat
      BY <2>1, <2>2, <2>3, <2>4, <2>5 DEF Slack
    <3> QED
      BY <3>1
  <2>6. CASE ~WholeCentInputs
    <3>1. Slack = Len(lines)
      BY <2>6 DEF Slack
    <3> DEFINE n == Len(lines)
               allocated == entry.allocated
               rest == entry.unallocated
    <3>2. /\ total \in Nat /\ n \in Nat /\ allocated \in Nat /\ rest \in Nat
          /\ announced = total + rest
          /\ cleared = allocated + rest
          /\ 2 * total <= 2 * allocated + n
          /\ 2 * allocated <= 2 * total + n
      BY <2>1, <2>2, <2>3, <2>4
    <3> HIDE DEF n, allocated, rest
    <3>3. 2 * announced <= 2 * cleared + n /\ 2 * cleared <= 2 * announced + n
      BY <3>2
    <3> QED
      BY <3>1, <3>3 DEF n
  <2> QED
    BY <2>5, <2>6
<1> QED
  BY <1>1, InvHolds, PTL

\* No two allocations of the payment name the same invoice.
InvoicesNamedOnce ==
    \A k, l \in DOMAIN lines : lines[k].invoice = lines[l].invoice => k = l

\* "The cumulative take can never exceed percent x outstanding-at-resolve"
\* (post_payment): so it is while no invoice is named twice, which nothing in
\* create_payment asks for.
THEOREM SingleTakeWithinTerms == Spec => [](InvoicesNamedOnce => TakeWithinTerms)
<1>1. Inv => (InvoicesNamedOnce => TakeWithinTerms)
  <2> DEFINE on(i) == [k \in DOMAIN lines |->
                          IF lines[k].invoice = i THEN lines[k].discount ELSE 0]
  <2> SUFFICES ASSUME Inv, InvoicesNamedOnce, NEW i \in Invoices
               PROVE  Total(on(i)) <= Worth(terms[i])
    BY DEF TakeWithinTerms
  <2>1. lines \in Seq(Row) /\ terms[i] \in AnyTerms
    BY TermsTyped DEF Inv, TypeOK, Row
  <2>2. IsFiniteSet(DOMAIN lines) /\ \A k \in DOMAIN lines : lines[k] \in Row
    BY <2>1, Finite
  <2>3. Worth(terms[i]) \in Nat
    <3> DEFINE t == terms[i]
    <3>1. t \in AnyTerms /\ 0 \in Nat
      BY <2>1
    <3> HIDE DEF t
    <3>2. Worth(t) \in Nat
      BY <3>1, TakenBounds
    <3> QED
      BY <3>2 DEF t
  <2>4. Total(on(i)) = SumOn(on(i), DOMAIN lines)
    BY DEF Total
  <2>5. CASE \A k \in DOMAIN lines : lines[k].invoice # i
    <3>1. \A k \in DOMAIN lines : on(i)[k] = 0
      BY <2>5
    <3> HIDE DEF on
    <3> QED
      BY <2>2, <2>3, <2>4, <3>1, SumZero
  <2>6. ASSUME NEW k \in DOMAIN lines, lines[k].invoice = i
        PROVE  Total(on(i)) <= Worth(terms[i])
    <3>1. \A l \in DOMAIN lines : l # k => on(i)[l] = 0
      BY <2>6 DEF InvoicesNamedOnce
    <3>2. on(i)[k] = lines[k].discount /\ on(i)[k] \in Int
      BY <2>2, <2>6 DEF Row
    <3>3. lines[k].discount <= Worth(terms[i])
      BY <2>6 DEF Inv, EachDiscountWithinTerms
    <3>4. SumOn(on(i), DOMAIN lines) = on(i)[k]
      <4> HIDE DEF on
      <4> QED
        BY <2>2, <3>1, <3>2, SumSingle
    <3> QED
      BY <2>4, <3>2, <3>3, <3>4
  <2> QED
    BY <2>5, <2>6
<1> QED
  BY <1>1, InvHolds, PTL
=================================================================================
